---------------------------- MODULE CoversProofs ----------------------------
(***************************************************************************)
(* Proofs about Covers, for any games, image files and Backfills and any    *)
(* times that CoversAssumption allows: a cover that is shown is whole, and  *)
(* no request carries an expired token.  Both follow from CoversInv, which  *)
(* has one lemma per part, with one step per action.                       *)
(***************************************************************************)
EXTENDS Covers, TLAPS

USE CoversAssumption
USE DEF stored, token, call, work, Goto, Finish

\* Types are kept.
LEMMA TypesKept ==
  ASSUME CoversInv, [Next]_vars
  PROVE  TypeOK'
<1> USE DEF CoversInv, TypeOK
<1>1. ASSUME NEW b \in Backfills, Start(b)
     PROVE  TypeOK'
  BY <1>1 DEF Start
<1>2. ASSUME NEW b \in Backfills, ListMissing(b)
     PROVE  TypeOK'
  BY <1>2 DEF ListMissing, Missing
<1>3. ASSUME NEW b \in Backfills, NextSerial(b)
     PROVE  TypeOK'
  BY <1>3 DEF NextSerial
<1>4. ASSUME NEW b \in Backfills, UseToken(b)
     PROVE  TypeOK'
  BY <1>4 DEF UseToken, Fresh, Send
<1>5. ASSUME NEW b \in Backfills, AskToken(b)
     PROVE  TypeOK'
  BY <1>5 DEF AskToken
<1>6. ASSUME NEW b \in Backfills, TokenAnswer(b)
     PROVE  TypeOK'
  BY <1>6 DEF TokenAnswer, Send
<1>7. ASSUME NEW b \in Backfills, TokenFails(b)
     PROVE  TypeOK'
  BY <1>7 DEF TokenFails, GiveUp, HangUp
<1>8. ASSUME NEW b \in Backfills, QueryAnswer(b)
     PROVE  TypeOK'
  BY <1>8 DEF QueryAnswer, HangUp
<1>9. ASSUME NEW b \in Backfills, QueryFails(b)
     PROVE  TypeOK'
  BY <1>9 DEF QueryFails, GiveUp, HangUp
<1>10. ASSUME NEW b \in Backfills, DownloadFails(b)
     PROVE  TypeOK'
  BY <1>10 DEF DownloadFails, GiveUp
<1>11. ASSUME NEW b \in Backfills, ImageOpen(b)
     PROVE  TypeOK'
  BY <1>11 DEF ImageOpen, Cross, AtHand
<1>12. ASSUME NEW b \in Backfills, ImageWrite(b)
     PROVE  TypeOK'
  BY <1>12 DEF ImageWrite, AtHand
<1>13. ASSUME NEW b \in Backfills, ImageWriteFails(b)
     PROVE  TypeOK'
  BY <1>13 DEF ImageWriteFails, GiveUp
<1>14. ASSUME NEW b \in Backfills, Record(b)
     PROVE  TypeOK'
  BY <1>14 DEF Record, Cross, AtHand
<1>15. ASSUME NEW b \in Backfills, RecordFails(b)
     PROVE  TypeOK'
  BY <1>15 DEF RecordFails, GiveUp
<1>16. ASSUME NEW b \in Backfills, ClientGone(b)
     PROVE  TypeOK'
  BY <1>16 DEF ClientGone
<1>17. CASE Tick
  BY <1>17 DEF Tick, Calling, Less
<1>18. CASE Restart
  BY <1>18 DEF Restart
<1>19. CASE Recover
  BY <1>19 DEF Recover
<1>20. CASE UNCHANGED vars
  BY <1>20 DEF vars
<1>21. QED
  BY <1>1, <1>2, <1>3, <1>4, <1>5, <1>6, <1>7, <1>8, <1>9, <1>10,
     <1>11, <1>12, <1>13, <1>14, <1>15, <1>16, <1>17, <1>18, <1>19, <1>20
     DEF Next, Step, Lock

\* The serial at hand has been taken off the list.
LEMMA AtHandKept ==
  ASSUME CoversInv, [Next]_vars
  PROVE  AtHand'
<1> USE DEF CoversInv, TypeOK, AtHand
<1>1. ASSUME NEW b \in Backfills, Start(b)
     PROVE  AtHand'
  BY <1>1 DEF Start
<1>2. ASSUME NEW b \in Backfills, ListMissing(b)
     PROVE  AtHand'
  BY <1>2 DEF ListMissing, Missing
<1>3. ASSUME NEW b \in Backfills, NextSerial(b)
     PROVE  AtHand'
  BY <1>3 DEF NextSerial
<1>4. ASSUME NEW b \in Backfills, UseToken(b)
     PROVE  AtHand'
  BY <1>4 DEF UseToken, Fresh, Send
<1>5. ASSUME NEW b \in Backfills, AskToken(b)
     PROVE  AtHand'
  BY <1>5 DEF AskToken
<1>6. ASSUME NEW b \in Backfills, TokenAnswer(b)
     PROVE  AtHand'
  BY <1>6 DEF TokenAnswer, Send
<1>7. ASSUME NEW b \in Backfills, TokenFails(b)
     PROVE  AtHand'
  BY <1>7 DEF TokenFails, GiveUp, HangUp
<1>8. ASSUME NEW b \in Backfills, QueryAnswer(b)
     PROVE  AtHand'
  BY <1>8 DEF QueryAnswer, HangUp
<1>9. ASSUME NEW b \in Backfills, QueryFails(b)
     PROVE  AtHand'
  BY <1>9 DEF QueryFails, GiveUp, HangUp
<1>10. ASSUME NEW b \in Backfills, DownloadFails(b)
     PROVE  AtHand'
  BY <1>10 DEF DownloadFails, GiveUp
<1>11. ASSUME NEW b \in Backfills, ImageOpen(b)
     PROVE  AtHand'
  BY <1>11 DEF ImageOpen, Cross
<1>12. ASSUME NEW b \in Backfills, ImageWrite(b)
     PROVE  AtHand'
  BY <1>12 DEF ImageWrite
<1>13. ASSUME NEW b \in Backfills, ImageWriteFails(b)
     PROVE  AtHand'
  BY <1>13 DEF ImageWriteFails, GiveUp
<1>14. ASSUME NEW b \in Backfills, Record(b)
     PROVE  AtHand'
  BY <1>14 DEF Record, Cross
<1>15. ASSUME NEW b \in Backfills, RecordFails(b)
     PROVE  AtHand'
  BY <1>15 DEF RecordFails, GiveUp
<1>16. ASSUME NEW b \in Backfills, ClientGone(b)
     PROVE  AtHand'
  BY <1>16 DEF ClientGone
<1>17. CASE Tick
  BY <1>17 DEF Tick, Calling, Less
<1>18. CASE Restart
  BY <1>18 DEF Restart
<1>19. CASE Recover
  BY <1>19 DEF Recover
<1>20. CASE UNCHANGED vars
  BY <1>20 DEF vars
<1>21. QED
  BY <1>1, <1>2, <1>3, <1>4, <1>5, <1>6, <1>7, <1>8, <1>9, <1>10,
     <1>11, <1>12, <1>13, <1>14, <1>15, <1>16, <1>17, <1>18, <1>19, <1>20
     DEF Next, Step, Lock

\* Time takes as much from a token as it adds to a call.
LEMMA LastingKept ==
  ASSUME CoversInv, [Next]_vars
  PROVE  Lasting'
<1> USE DEF CoversInv, TypeOK, Lasting
<1>1. ASSUME NEW b \in Backfills, Start(b)
     PROVE  Lasting'
  BY <1>1 DEF Start
<1>2. ASSUME NEW b \in Backfills, ListMissing(b)
     PROVE  Lasting'
  BY <1>2 DEF ListMissing, Missing
<1>3. ASSUME NEW b \in Backfills, NextSerial(b)
     PROVE  Lasting'
  BY <1>3 DEF NextSerial
<1>4. ASSUME NEW b \in Backfills, UseToken(b)
     PROVE  Lasting'
  BY <1>4 DEF UseToken, Fresh, Send
<1>5. ASSUME NEW b \in Backfills, AskToken(b)
     PROVE  Lasting'
  BY <1>5 DEF AskToken
<1>6. ASSUME NEW b \in Backfills, TokenAnswer(b)
     PROVE  Lasting'
  BY <1>6 DEF TokenAnswer, Send
<1>7. ASSUME NEW b \in Backfills, TokenFails(b)
     PROVE  Lasting'
  BY <1>7 DEF TokenFails, GiveUp, HangUp
<1>8. ASSUME NEW b \in Backfills, QueryAnswer(b)
     PROVE  Lasting'
  BY <1>8 DEF QueryAnswer, HangUp
<1>9. ASSUME NEW b \in Backfills, QueryFails(b)
     PROVE  Lasting'
  BY <1>9 DEF QueryFails, GiveUp, HangUp
<1>10. ASSUME NEW b \in Backfills, DownloadFails(b)
     PROVE  Lasting'
  BY <1>10 DEF DownloadFails, GiveUp
<1>11. ASSUME NEW b \in Backfills, ImageOpen(b)
     PROVE  Lasting'
  BY <1>11 DEF ImageOpen, Cross
<1>12. ASSUME NEW b \in Backfills, ImageWrite(b)
     PROVE  Lasting'
  BY <1>12 DEF ImageWrite
<1>13. ASSUME NEW b \in Backfills, ImageWriteFails(b)
     PROVE  Lasting'
  BY <1>13 DEF ImageWriteFails, GiveUp
<1>14. ASSUME NEW b \in Backfills, Record(b)
     PROVE  Lasting'
  BY <1>14 DEF Record, Cross
<1>15. ASSUME NEW b \in Backfills, RecordFails(b)
     PROVE  Lasting'
  BY <1>15 DEF RecordFails, GiveUp
<1>16. ASSUME NEW b \in Backfills, ClientGone(b)
     PROVE  Lasting'
  BY <1>16 DEF ClientGone
<1>17. CASE Tick
  BY <1>17 DEF Tick, Calling, Less
<1>18. CASE Restart
  BY <1>18 DEF Restart
<1>19. CASE Recover
  BY <1>19 DEF Recover
<1>20. CASE UNCHANGED vars
  BY <1>20 DEF vars
<1>21. QED
  BY <1>1, <1>2, <1>3, <1>4, <1>5, <1>6, <1>7, <1>8, <1>9, <1>10,
     <1>11, <1>12, <1>13, <1>14, <1>15, <1>16, <1>17, <1>18, <1>19, <1>20
     DEF Next, Step, Lock

\* One Backfill at a time writes a file that is not crossed.
LEMMA WrittenKept ==
  ASSUME CoversInv, [Next]_vars
  PROVE  Written'
<1> USE DEF CoversInv, TypeOK, AtHand, Written
<1>1. ASSUME NEW b \in Backfills, Start(b)
     PROVE  Written'
  BY <1>1 DEF Start
<1>2. ASSUME NEW b \in Backfills, ListMissing(b)
     PROVE  Written'
  BY <1>2 DEF ListMissing, Missing
<1>3. ASSUME NEW b \in Backfills, NextSerial(b)
     PROVE  Written'
  BY <1>3 DEF NextSerial
<1>4. ASSUME NEW b \in Backfills, UseToken(b)
     PROVE  Written'
  BY <1>4 DEF UseToken, Fresh, Send
<1>5. ASSUME NEW b \in Backfills, AskToken(b)
     PROVE  Written'
  BY <1>5 DEF AskToken
<1>6. ASSUME NEW b \in Backfills, TokenAnswer(b)
     PROVE  Written'
  BY <1>6 DEF TokenAnswer, Send
<1>7. ASSUME NEW b \in Backfills, TokenFails(b)
     PROVE  Written'
  BY <1>7 DEF TokenFails, GiveUp, HangUp
<1>8. ASSUME NEW b \in Backfills, QueryAnswer(b)
     PROVE  Written'
  BY <1>8 DEF QueryAnswer, HangUp
<1>9. ASSUME NEW b \in Backfills, QueryFails(b)
     PROVE  Written'
  BY <1>9 DEF QueryFails, GiveUp, HangUp
<1>10. ASSUME NEW b \in Backfills, DownloadFails(b)
     PROVE  Written'
  BY <1>10 DEF DownloadFails, GiveUp
<1>11. ASSUME NEW b \in Backfills, ImageOpen(b)
     PROVE  Written'
  <2> USE <1>11 DEF ImageOpen
  <2>1. SUFFICES ASSUME NEW c \in Backfills, NEW d \in Backfills \ {c},
                        pc'[c] \in {"write", "record"},
                        PathOf[serial[c]] \notin crossed'
                 PROVE  /\ pc'[c] = "record" =>
                             images'[PathOf[serial[c]]] = serial[c]
                        /\ pc'[d] \in {"write", "record"} =>
                             PathOf[serial[d]] # PathOf[serial[c]]
    BY DEF Written
  <2>2. ASSUME NEW e \in Backfills \ {b}, pc[e] \in {"write", "record"},
               PathOf[serial[b]] \notin crossed'
        PROVE  PathOf[serial[e]] # PathOf[serial[b]]
    BY <2>2 DEF Cross, Shared, At
  <2>3. crossed \subseteq crossed'
    BY DEF Cross
  <2>4. QED
    BY <2>1, <2>2, <2>3
<1>12. ASSUME NEW b \in Backfills, ImageWrite(b)
     PROVE  Written'
  BY <1>12 DEF ImageWrite
<1>13. ASSUME NEW b \in Backfills, ImageWriteFails(b)
     PROVE  Written'
  BY <1>13 DEF ImageWriteFails, GiveUp
<1>14. ASSUME NEW b \in Backfills, Record(b)
     PROVE  Written'
  BY <1>14 DEF Record, Cross
<1>15. ASSUME NEW b \in Backfills, RecordFails(b)
     PROVE  Written'
  BY <1>15 DEF RecordFails, GiveUp
<1>16. ASSUME NEW b \in Backfills, ClientGone(b)
     PROVE  Written'
  BY <1>16 DEF ClientGone
<1>17. CASE Tick
  BY <1>17 DEF Tick, Calling, Less
<1>18. CASE Restart
  BY <1>18 DEF Restart
<1>19. CASE Recover
  BY <1>19 DEF Recover
<1>20. CASE UNCHANGED vars
  BY <1>20 DEF vars
<1>21. QED
  BY <1>1, <1>2, <1>3, <1>4, <1>5, <1>6, <1>7, <1>8, <1>9, <1>10,
     <1>11, <1>12, <1>13, <1>14, <1>15, <1>16, <1>17, <1>18, <1>19, <1>20
     DEF Next, Step, Lock

\* A serial with a row is on no list, unless its file is crossed.
LEMMA UnlistedKept ==
  ASSUME CoversInv, [Next]_vars
  PROVE  Unlisted'
<1> USE DEF CoversInv, TypeOK, AtHand, Unlisted
<1>1. ASSUME NEW b \in Backfills, Start(b)
     PROVE  Unlisted'
  BY <1>1 DEF Start
<1>2. ASSUME NEW b \in Backfills, ListMissing(b)
     PROVE  Unlisted'
  BY <1>2 DEF ListMissing, Missing
<1>3. ASSUME NEW b \in Backfills, NextSerial(b)
     PROVE  Unlisted'
  BY <1>3 DEF NextSerial
<1>4. ASSUME NEW b \in Backfills, UseToken(b)
     PROVE  Unlisted'
  BY <1>4 DEF UseToken, Fresh, Send
<1>5. ASSUME NEW b \in Backfills, AskToken(b)
     PROVE  Unlisted'
  BY <1>5 DEF AskToken
<1>6. ASSUME NEW b \in Backfills, TokenAnswer(b)
     PROVE  Unlisted'
  BY <1>6 DEF TokenAnswer, Send
<1>7. ASSUME NEW b \in Backfills, TokenFails(b)
     PROVE  Unlisted'
  BY <1>7 DEF TokenFails, GiveUp, HangUp
<1>8. ASSUME NEW b \in Backfills, QueryAnswer(b)
     PROVE  Unlisted'
  BY <1>8 DEF QueryAnswer, HangUp
<1>9. ASSUME NEW b \in Backfills, QueryFails(b)
     PROVE  Unlisted'
  BY <1>9 DEF QueryFails, GiveUp, HangUp
<1>10. ASSUME NEW b \in Backfills, DownloadFails(b)
     PROVE  Unlisted'
  BY <1>10 DEF DownloadFails, GiveUp
<1>11. ASSUME NEW b \in Backfills, ImageOpen(b)
     PROVE  Unlisted'
  BY <1>11 DEF ImageOpen, Cross
<1>12. ASSUME NEW b \in Backfills, ImageWrite(b)
     PROVE  Unlisted'
  BY <1>12 DEF ImageWrite
<1>13. ASSUME NEW b \in Backfills, ImageWriteFails(b)
     PROVE  Unlisted'
  BY <1>13 DEF ImageWriteFails, GiveUp
<1>14. ASSUME NEW b \in Backfills, Record(b)
     PROVE  Unlisted'
  <2> USE <1>14 DEF Record
  <2>1. SUFFICES ASSUME NEW c \in Backfills, NEW s \in todo[c] \cup {serial'[c]},
                        s \in covers'
                 PROVE  PathOf[s] \in crossed'
    BY DEF Unlisted
  <2>2. CASE s = serial[b]
    <3>1. c # b
      BY <2>2
    <3>2. s \in At(PathOf[serial[b]])
      BY <2>2 DEF At
    <3>3. Shared(b)
      BY <3>1, <3>2 DEF Shared
    <3>4. QED
      BY <2>2, <3>3 DEF Cross
  <2>3. CASE s # serial[b]
    <3>1. s \in covers /\ s \in todo[c] \cup {serial[c]}
      BY <2>1, <2>3
    <3>2. PathOf[s] \in crossed
      BY <3>1
    <3>3. QED
      BY <3>2 DEF Cross
  <2>4. QED
    BY <2>2, <2>3
<1>15. ASSUME NEW b \in Backfills, RecordFails(b)
     PROVE  Unlisted'
  BY <1>15 DEF RecordFails, GiveUp
<1>16. ASSUME NEW b \in Backfills, ClientGone(b)
     PROVE  Unlisted'
  BY <1>16 DEF ClientGone
<1>17. CASE Tick
  BY <1>17 DEF Tick, Calling, Less
<1>18. CASE Restart
  BY <1>18 DEF Restart
<1>19. CASE Recover
  BY <1>19 DEF Recover
<1>20. CASE UNCHANGED vars
  BY <1>20 DEF vars
<1>21. QED
  BY <1>1, <1>2, <1>3, <1>4, <1>5, <1>6, <1>7, <1>8, <1>9, <1>10,
     <1>11, <1>12, <1>13, <1>14, <1>15, <1>16, <1>17, <1>18, <1>19, <1>20
     DEF Next, Step, Lock

\* A cover that is shown stays whole.
LEMMA CoverWholeKept ==
  ASSUME CoversInv, [Next]_vars
  PROVE  CoverWhole'
<1> USE DEF CoversInv, TypeOK, CoverWhole, Shown, At
<1>1. ASSUME NEW b \in Backfills, Start(b)
     PROVE  CoverWhole'
  BY <1>1 DEF Start
<1>2. ASSUME NEW b \in Backfills, ListMissing(b)
     PROVE  CoverWhole'
  BY <1>2 DEF ListMissing, Missing
<1>3. ASSUME NEW b \in Backfills, NextSerial(b)
     PROVE  CoverWhole'
  BY <1>3 DEF NextSerial
<1>4. ASSUME NEW b \in Backfills, UseToken(b)
     PROVE  CoverWhole'
  BY <1>4 DEF UseToken
<1>5. ASSUME NEW b \in Backfills, AskToken(b)
     PROVE  CoverWhole'
  BY <1>5 DEF AskToken
<1>6. ASSUME NEW b \in Backfills, TokenAnswer(b)
     PROVE  CoverWhole'
  BY <1>6 DEF TokenAnswer
<1>7. ASSUME NEW b \in Backfills, TokenFails(b)
     PROVE  CoverWhole'
  BY <1>7 DEF TokenFails
<1>8. ASSUME NEW b \in Backfills, QueryAnswer(b)
     PROVE  CoverWhole'
  BY <1>8 DEF QueryAnswer
<1>9. ASSUME NEW b \in Backfills, QueryFails(b)
     PROVE  CoverWhole'
  BY <1>9 DEF QueryFails
<1>10. ASSUME NEW b \in Backfills, DownloadFails(b)
     PROVE  CoverWhole'
  BY <1>10 DEF DownloadFails
<1>11. ASSUME NEW b \in Backfills, ImageOpen(b)
     PROVE  CoverWhole'
  <2> USE <1>11 DEF ImageOpen
  <2>1. SUFFICES ASSUME NEW p \in Paths \ crossed', At(p) # {},
                        At(p) \subseteq covers
                 PROVE  \A s \in At(p) : images'[PathOf[s]] \in At(p)
    BY DEF CoverWhole, Shown
  <2>2. p \notin crossed
    BY DEF Cross
  <2>3. p # PathOf[serial[b]]
    BY <2>1, <2>2 DEF AtHand, Unlisted, At
  <2>4. QED
    BY <2>1, <2>2, <2>3 DEF CoverWhole, Shown, At
<1>12. ASSUME NEW b \in Backfills, ImageWrite(b)
     PROVE  CoverWhole'
  <2> USE <1>12 DEF ImageWrite
  <2>1. serial[b] \in Serials
    BY DEF AtHand
  <2>2. QED
    BY <2>1 DEF CoverWhole, Shown, At
<1>13. ASSUME NEW b \in Backfills, ImageWriteFails(b)
     PROVE  CoverWhole'
  BY <1>13 DEF ImageWriteFails
<1>14. ASSUME NEW b \in Backfills, Record(b)
     PROVE  CoverWhole'
  <2> USE <1>14 DEF Record
  <2>1. SUFFICES ASSUME NEW p \in Paths \ crossed', At(p) # {},
                        At(p) \subseteq covers'
                 PROVE  \A s \in At(p) : images[PathOf[s]] \in At(p)
    BY DEF CoverWhole, Shown
  <2>2. p \notin crossed
    BY DEF Cross
  <2>3. CASE p = PathOf[serial[b]]
    BY <2>1, <2>2, <2>3 DEF Written, AtHand, At
  <2>4. CASE p # PathOf[serial[b]]
    BY <2>1, <2>2, <2>4 DEF CoverWhole, Shown, At
  <2>5. QED
    BY <2>3, <2>4
<1>15. ASSUME NEW b \in Backfills, RecordFails(b)
     PROVE  CoverWhole'
  BY <1>15 DEF RecordFails
<1>16. ASSUME NEW b \in Backfills, ClientGone(b)
     PROVE  CoverWhole'
  BY <1>16 DEF ClientGone
<1>17. CASE Tick
  BY <1>17 DEF Tick
<1>18. CASE Restart
  BY <1>18 DEF Restart
<1>19. CASE Recover
  BY <1>19 DEF Recover
<1>20. CASE UNCHANGED vars
  BY <1>20 DEF vars
<1>21. QED
  BY <1>1, <1>2, <1>3, <1>4, <1>5, <1>6, <1>7, <1>8, <1>9, <1>10,
     <1>11, <1>12, <1>13, <1>14, <1>15, <1>16, <1>17, <1>18, <1>19, <1>20
     DEF Next, Step, Lock

\* The inductive invariant of Covers holds in every reachable state: two
\* Backfills meet at a file only if it is crossed, and a token lasts longer than
\* the call that carries it.
THEOREM CoversInvariant == Spec => []CoversInv
<1>1. Init => CoversInv
  BY DEF Init, CoversInv, TypeOK, AtHand, Written, Unlisted, CoverWhole, At, Lasting
<1>2. CoversInv /\ [Next]_vars => CoversInv'
  BY TypesKept, AtHandKept, WrittenKept, UnlistedKept, CoverWholeKept, LastingKept
     DEF CoversInv
<1>3. QED
  BY <1>1, <1>2, PTL DEF Spec

\* Once every serial of an image file has a row, its cover is whole, unless two
\* Backfills were at the file at once.
THEOREM WholeCovers == Spec => []CoverWhole
<1>1. CoversInv => CoverWhole
  BY DEF CoversInv
<1>2. QED
  BY <1>1, CoversInvariant, PTL

\* No request reaches the provider with an expired token.
THEOREM LiveTokens == Spec => []TokenAlive
<1>1. CoversInv => TokenAlive
  <2>1. SUFFICES ASSUME CoversInv, NEW b \in Backfills, pc[b] = "sent"
                 PROVE  held[b] > 0
    BY DEF TokenAlive
  <2>2. held[b] \in Nat /\ timer[b] \in 0 .. Timeout /\ held[b] + timer[b] > Timeout
    BY <2>1 DEF CoversInv, TypeOK, Lasting
  <2>3. QED
    BY <2>2
<1>2. QED
  BY <1>1, CoversInvariant, PTL

\* Types are kept, and no Backfill exceeds its limit.
THEOREM CoversTypes == Spec => []TypeOK
<1>1. CoversInv => TypeOK
  BY DEF CoversInv
<1>2. QED
  BY <1>1, CoversInvariant, PTL
=============================================================================
