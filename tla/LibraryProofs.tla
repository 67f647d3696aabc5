--------------------------- MODULE LibraryProofs ---------------------------
(***************************************************************************)
(* Proofs about Library, for any names, contents and requests: an answered *)
(* upload stands, and requests keep their hands off files that are not     *)
(* theirs.  Both follow from LibraryInv, which has one lemma per part,     *)
(* with one step per action.                                               *)
(***************************************************************************)
EXTENDS Library, TLAPS

\* The part of LibraryInv about answered uploads.
Answers ==
  /\ \A n \in Names : told[n] # NoFile => n \in Isos
  /\ UploadStands

USE LibraryAssumption
USE DEF tables, locals, history, Goto, Finish, Advance, Disturb, Actors, Row

\* Types are kept.
LEMMA TypesKept ==
  ASSUME LibraryInv, [Next]_vars
  PROVE  TypeOK'
<1> USE DEF LibraryInv, TypeOK
<1>1. ASSUME NEW a \in Actors, ScanRequest(a)
     PROVE  TypeOK'
  BY <1>1 DEF ScanRequest
<1>2. ASSUME NEW a \in Actors, ScanList(a)
     PROVE  TypeOK'
  <2> USE <1>2 DEF ScanList
  <2>1. quiet' \subseteq Actors
    OBVIOUS
  <2>2. repaired' = TRUE \/ repaired' = repaired
    BY ONLY <1>2 DEF ScanList
  <2>3. repaired' \in BOOLEAN
    BY <2>2
  <2>4. /\ pc' \in [Actors -> {"idle", "list", "finStat", "finRename", "stat",
                               "hash", "register", "unlink"}]
        /\ name' \in [Actors -> Names \cup {NoName}]
        /\ data' \in [Actors -> Contents \cup {NoFile}]
        /\ size' \in [Actors -> Contents \cup {NoFile}]
        /\ hash' \in [Actors -> Contents \cup {NoHash}]
        /\ todo' \in [Actors -> SUBSET Names]
    OBVIOUS
  <2>5. QED
    BY <2>1, <2>3, <2>4
<1>3. ASSUME NEW a \in Actors, ScanReturn(a)
     PROVE  TypeOK'
  BY <1>3 DEF ScanReturn
<1>4. ASSUME NEW a \in Actors, Upload(a)
     PROVE  TypeOK'
  BY <1>4 DEF Upload, Copies
<1>5. ASSUME NEW a \in Actors, FinStat(a)
     PROVE  TypeOK'
  BY <1>5 DEF FinStat, Shape
<1>6. ASSUME NEW a \in Actors, FinRename(a)
     PROVE  TypeOK'
  BY <1>6 DEF FinRename
<1>7. ASSUME NEW a \in Actors, FinRenameFails(a)
     PROVE  TypeOK'
  BY <1>7 DEF FinRenameFails
<1>8. ASSUME NEW a \in Actors, InspectStat(a)
     PROVE  TypeOK'
  BY <1>8 DEF InspectStat, Shape
<1>9. ASSUME NEW a \in Actors, InspectHash(a)
     PROVE  TypeOK'
  BY <1>9 DEF InspectHash, Shape
<1>10. ASSUME NEW a \in Actors, Register(a)
     PROVE  TypeOK'
  <2> USE <1>10 DEF Register, Upsert, Shape, Uploading
  <2>1. rows' \in [Serials -> Row \cup {NoRow}]
    <3>1. [name |-> name[a], size |-> size[a], hash |-> hash[a]] \in Row
      OBVIOUS
    <3>2. QED
      BY <3>1
  <2>2. told' \in [Names -> Contents \cup {NoFile}]
    OBVIOUS
  <2>3. quiet' \subseteq Actors
    OBVIOUS
  <2>4. /\ name' \in [Actors -> Names \cup {NoName}]
        /\ data' \in [Actors -> Contents \cup {NoFile}]
        /\ size' \in [Actors -> Contents \cup {NoFile}]
        /\ hash' \in [Actors -> Contents \cup {NoHash}]
        /\ todo' \in [Actors -> SUBSET Names]
    OBVIOUS
  <2>5. repaired' \in BOOLEAN
    OBVIOUS
  <2>6. /\ files' \in [Names -> Contents \cup {NoFile}]
        /\ pc' \in [Actors -> {"idle", "list", "finStat", "finRename", "stat",
                               "hash", "register", "unlink"}]
        /\ contested' \subseteq Names
    OBVIOUS
  <2> HIDE <1>10 DEF Register
  <2>7. QED
    BY <2>1, <2>2, <2>3, <2>4, <2>5, <2>6
<1>11. ASSUME NEW a \in Actors, RegisterFails(a)
     PROVE  TypeOK'
  BY <1>11 DEF RegisterFails
<1>12. ASSUME NEW a \in Actors, Unlink(a)
     PROVE  TypeOK'
  BY <1>12 DEF Unlink, Shape
<1>13. ASSUME NEW n \in Names, OwnerChanges(n)
     PROVE  TypeOK'
  <2> USE <1>13 DEF OwnerChanges
  <2>1. files' \in [Names -> Contents \cup {NoFile}]
    OBVIOUS
  <2>2. told' \in [Names -> Contents \cup {NoFile}]
    OBVIOUS
  <2>3. contested' \subseteq Names /\ quiet' \subseteq Actors
    OBVIOUS
  <2>4. QED
    BY <2>1, <2>2, <2>3
<1>14. CASE Evaporate
  BY <1>14 DEF Evaporate
<1>15. CASE Restart
  BY <1>15 DEF Restart
<1>16. CASE UNCHANGED vars
  BY <1>16 DEF vars
<1>17. QED
  BY <1>1, <1>2, <1>3, <1>4, <1>5, <1>6, <1>7, <1>8, <1>9, <1>10, <1>11, <1>12,
     <1>13, <1>14, <1>15, <1>16
     DEF Next, Step

\* A handler at a step has the locals of that step.
LEMMA ShapeKept ==
  ASSUME LibraryInv, [Next]_vars
  PROVE  Shape'
<1> USE DEF LibraryInv, TypeOK
<1>1. ASSUME NEW a \in Actors, ScanRequest(a)
     PROVE  Shape'
  BY <1>1 DEF ScanRequest, Uploading, Shape
<1>2. ASSUME NEW a \in Actors, ScanList(a)
     PROVE  Shape'
  BY <1>2 DEF ScanList, Uploading, Shape
<1>3. ASSUME NEW a \in Actors, ScanReturn(a)
     PROVE  Shape'
  BY <1>3 DEF ScanReturn, Uploading, Shape
<1>4. ASSUME NEW a \in Actors, Upload(a)
     PROVE  Shape'
  BY <1>4 DEF Upload, Uploading, Shape, Copies
<1>5. ASSUME NEW a \in Actors, FinStat(a)
     PROVE  Shape'
  BY <1>5 DEF FinStat, Uploading, Shape
<1>6. ASSUME NEW a \in Actors, FinRename(a)
     PROVE  Shape'
  BY <1>6 DEF FinRename, Uploading, Shape
<1>7. ASSUME NEW a \in Actors, FinRenameFails(a)
     PROVE  Shape'
  BY <1>7 DEF FinRenameFails, Uploading, Shape
<1>8. ASSUME NEW a \in Actors, InspectStat(a)
     PROVE  Shape'
  BY <1>8 DEF InspectStat, Uploading, Shape
<1>9. ASSUME NEW a \in Actors, InspectHash(a)
     PROVE  Shape'
  BY <1>9 DEF InspectHash, Uploading, Shape
<1>10. ASSUME NEW a \in Actors, Register(a)
     PROVE  Shape'
  BY <1>10 DEF Register, Uploading, Shape
<1>11. ASSUME NEW a \in Actors, RegisterFails(a)
     PROVE  Shape'
  BY <1>11 DEF RegisterFails, Uploading, Shape
<1>12. ASSUME NEW a \in Actors, Unlink(a)
     PROVE  Shape'
  BY <1>12 DEF Unlink, Uploading, Shape
<1>13. ASSUME NEW n \in Names, OwnerChanges(n)
     PROVE  Shape'
  BY <1>13 DEF OwnerChanges, Uploading, Shape
<1>14. CASE Evaporate
  BY <1>14 DEF Evaporate, Uploading, Shape
<1>15. CASE Restart
  BY <1>15 DEF Restart, Uploading, Shape
<1>16. CASE UNCHANGED vars
  BY <1>16 DEF vars, Uploading, Shape
<1>17. QED
  BY <1>1, <1>2, <1>3, <1>4, <1>5, <1>6, <1>7, <1>8, <1>9, <1>10, <1>11, <1>12,
     <1>13, <1>14, <1>15, <1>16
     DEF Next, Step

\* A file stays as it has been inspected: who changes it meets the request at
\* its name, or finds the name free, which the request has seen it is not.
LEMMA InspectedKept ==
  ASSUME LibraryInv, [Next]_vars
  PROVE  Inspected'
<1> USE DEF LibraryInv, TypeOK
<1>1. ASSUME NEW a \in Actors, ScanRequest(a)
     PROVE  Inspected'
  BY <1>1 DEF ScanRequest, Inspected
<1>2. ASSUME NEW a \in Actors, ScanList(a)
     PROVE  Inspected'
  BY <1>2 DEF ScanList, Inspected
<1>3. ASSUME NEW a \in Actors, ScanReturn(a)
     PROVE  Inspected'
  BY <1>3 DEF ScanReturn, Inspected
<1>4. ASSUME NEW a \in Actors, Upload(a)
     PROVE  Inspected'
  BY <1>4 DEF Upload, Inspected
<1>5. ASSUME NEW a \in Actors, FinStat(a)
     PROVE  Inspected'
  BY <1>5 DEF FinStat, Inspected
<1>6. ASSUME NEW a \in Actors, FinRename(a)
     PROVE  Inspected'
  BY <1>6 DEF FinRename, Placed, Inspected, Shape
<1>7. ASSUME NEW a \in Actors, FinRenameFails(a)
     PROVE  Inspected'
  BY <1>7 DEF FinRenameFails, Inspected
<1>8. ASSUME NEW a \in Actors, InspectStat(a)
     PROVE  Inspected'
  BY <1>8 DEF InspectStat, Inspected
<1>9. ASSUME NEW a \in Actors, InspectHash(a)
     PROVE  Inspected'
  BY <1>9 DEF InspectHash, Inspected
<1>10. ASSUME NEW a \in Actors, Register(a)
     PROVE  Inspected'
  BY <1>10 DEF Register, Inspected
<1>11. ASSUME NEW a \in Actors, RegisterFails(a)
     PROVE  Inspected'
  BY <1>11 DEF RegisterFails, Inspected
<1>12. ASSUME NEW a \in Actors, Unlink(a)
     PROVE  Inspected'
  BY <1>12 DEF Unlink, Busy, Inspected
<1>13. ASSUME NEW n \in Names, OwnerChanges(n)
     PROVE  Inspected'
  BY <1>13 DEF OwnerChanges, Busy, Inspected
<1>14. CASE Evaporate
  BY <1>14 DEF Evaporate, Inspected
<1>15. CASE Restart
  BY <1>15 DEF Restart, Inspected
<1>16. CASE UNCHANGED vars
  BY <1>16 DEF vars, Inspected
<1>17. QED
  BY <1>1, <1>2, <1>3, <1>4, <1>5, <1>6, <1>7, <1>8, <1>9, <1>10, <1>11, <1>12,
     <1>13, <1>14, <1>15, <1>16
     DEF Next, Step

\* A name that was free stays free up to the rename, and the file stays after.
LEMMA PlacedKept ==
  ASSUME LibraryInv, [Next]_vars
  PROVE  Placed'
<1> USE DEF LibraryInv, TypeOK
<1>1. ASSUME NEW a \in Actors, ScanRequest(a)
     PROVE  Placed'
  BY <1>1 DEF ScanRequest, Placed, Uploading
<1>2. ASSUME NEW a \in Actors, ScanList(a)
     PROVE  Placed'
  BY <1>2 DEF ScanList, Placed, Uploading, Shape
<1>3. ASSUME NEW a \in Actors, ScanReturn(a)
     PROVE  Placed'
  BY <1>3 DEF ScanReturn, Placed, Uploading
<1>4. ASSUME NEW a \in Actors, Upload(a)
     PROVE  Placed'
  BY <1>4 DEF Upload, Placed, Uploading
<1>5. ASSUME NEW a \in Actors, FinStat(a)
     PROVE  Placed'
  BY <1>5 DEF FinStat, Placed, Uploading
<1>6. ASSUME NEW a \in Actors, FinRename(a)
     PROVE  Placed'
  BY <1>6 DEF FinRename, Rivals, Alone, Placed, Uploading, Shape
<1>7. ASSUME NEW a \in Actors, FinRenameFails(a)
     PROVE  Placed'
  BY <1>7 DEF FinRenameFails, Placed, Uploading
<1>8. ASSUME NEW a \in Actors, InspectStat(a)
     PROVE  Placed'
  BY <1>8 DEF InspectStat, Placed, Uploading
<1>9. ASSUME NEW a \in Actors, InspectHash(a)
     PROVE  Placed'
  BY <1>9 DEF InspectHash, Placed, Uploading
<1>10. ASSUME NEW a \in Actors, Register(a)
     PROVE  Placed'
  BY <1>10 DEF Register, Placed, Uploading
<1>11. ASSUME NEW a \in Actors, RegisterFails(a)
     PROVE  Placed'
  BY <1>11 DEF RegisterFails, Placed, Uploading
<1>12. ASSUME NEW a \in Actors, Unlink(a)
     PROVE  Placed'
  BY <1>12 DEF Unlink, Rivals, Alone, Placed, Uploading, Shape
<1>13. ASSUME NEW n \in Names, OwnerChanges(n)
     PROVE  Placed'
  BY <1>13 DEF OwnerChanges, Busy, Placed, Uploading
<1>14. CASE Evaporate
  BY <1>14 DEF Evaporate, Placed, Uploading
<1>15. CASE Restart
  BY <1>15 DEF Restart, Placed
<1>16. CASE UNCHANGED vars
  BY <1>16 DEF vars, Placed, Uploading
<1>17. QED
  BY <1>1, <1>2, <1>3, <1>4, <1>5, <1>6, <1>7, <1>8, <1>9, <1>10, <1>11, <1>12,
     <1>13, <1>14, <1>15, <1>16
     DEF Next, Step

\* An upload that passes the test while another one is past it contests the
\* name.
LEMMA AloneKept ==
  ASSUME LibraryInv, [Next]_vars
  PROVE  Alone'
<1> USE DEF LibraryInv, TypeOK
<1>1. ASSUME NEW a \in Actors, ScanRequest(a)
     PROVE  Alone'
  BY <1>1 DEF ScanRequest, Rivals, Alone, Uploading
<1>2. ASSUME NEW a \in Actors, ScanList(a)
     PROVE  Alone'
  BY <1>2 DEF ScanList, Rivals, Alone, Uploading, Shape
<1>3. ASSUME NEW a \in Actors, ScanReturn(a)
     PROVE  Alone'
  BY <1>3 DEF ScanReturn, Rivals, Alone, Uploading
<1>4. ASSUME NEW a \in Actors, Upload(a)
     PROVE  Alone'
  BY <1>4 DEF Upload, Rivals, Alone, Uploading
<1>5. ASSUME NEW a \in Actors, FinStat(a)
     PROVE  Alone'
  BY <1>5 DEF FinStat, Rivals, Alone, Uploading
<1>6. ASSUME NEW a \in Actors, FinRename(a)
     PROVE  Alone'
  BY <1>6 DEF FinRename, Rivals, Alone, Uploading
<1>7. ASSUME NEW a \in Actors, FinRenameFails(a)
     PROVE  Alone'
  BY <1>7 DEF FinRenameFails, Rivals, Alone, Uploading
<1>8. ASSUME NEW a \in Actors, InspectStat(a)
     PROVE  Alone'
  BY <1>8 DEF InspectStat, Rivals, Alone, Uploading
<1>9. ASSUME NEW a \in Actors, InspectHash(a)
     PROVE  Alone'
  BY <1>9 DEF InspectHash, Rivals, Alone, Uploading
<1>10. ASSUME NEW a \in Actors, Register(a)
     PROVE  Alone'
  BY <1>10 DEF Register, Rivals, Alone, Uploading
<1>11. ASSUME NEW a \in Actors, RegisterFails(a)
     PROVE  Alone'
  BY <1>11 DEF RegisterFails, Rivals, Alone, Uploading
<1>12. ASSUME NEW a \in Actors, Unlink(a)
     PROVE  Alone'
  BY <1>12 DEF Unlink, Rivals, Alone, Uploading
<1>13. ASSUME NEW n \in Names, OwnerChanges(n)
     PROVE  Alone'
  BY <1>13 DEF OwnerChanges, Busy, Rivals, Alone, Uploading
<1>14. CASE Evaporate
  BY <1>14 DEF Evaporate, Rivals, Alone, Uploading
<1>15. CASE Restart
  BY <1>15 DEF Restart, Alone, Uploading
<1>16. CASE UNCHANGED vars
  BY <1>16 DEF vars, Rivals, Alone, Uploading
<1>17. QED
  BY <1>1, <1>2, <1>3, <1>4, <1>5, <1>6, <1>7, <1>8, <1>9, <1>10, <1>11, <1>12,
     <1>13, <1>14, <1>15, <1>16
     DEF Next, Step

\* Answered uploads stand: whoever writes the row of the serial has inspected
\* the file, or another one.
LEMMA AnswersKept ==
  ASSUME LibraryInv, [Next]_vars
  PROVE  Answers'
<1> USE DEF LibraryInv, TypeOK
<1>1. ASSUME NEW a \in Actors, ScanRequest(a)
     PROVE  Answers'
  BY <1>1 DEF ScanRequest, TakenOver, Describes, Serves, UploadStands, Answers
<1>2. ASSUME NEW a \in Actors, ScanList(a)
     PROVE  Answers'
  BY <1>2 DEF ScanList, TakenOver, Describes, Serves, UploadStands, Answers
<1>3. ASSUME NEW a \in Actors, ScanReturn(a)
     PROVE  Answers'
  BY <1>3 DEF ScanReturn, TakenOver, Describes, Serves, UploadStands, Answers
<1>4. ASSUME NEW a \in Actors, Upload(a)
     PROVE  Answers'
  BY <1>4 DEF Upload, TakenOver, Describes, Serves, UploadStands, Answers
<1>5. ASSUME NEW a \in Actors, FinStat(a)
     PROVE  Answers'
  BY <1>5 DEF FinStat, TakenOver, Describes, Serves, UploadStands, Answers
<1>6. ASSUME NEW a \in Actors, FinRename(a)
     PROVE  Answers'
  BY <1>6
     DEF FinRename, TakenOver, Describes, Serves, UploadStands, Answers,
         Placed, Shape
<1>7. ASSUME NEW a \in Actors, FinRenameFails(a)
     PROVE  Answers'
  BY <1>7
     DEF FinRenameFails, TakenOver, Describes, Serves, UploadStands, Answers
<1>8. ASSUME NEW a \in Actors, InspectStat(a)
     PROVE  Answers'
  BY <1>8 DEF InspectStat, TakenOver, Describes, Serves, UploadStands, Answers
<1>9. ASSUME NEW a \in Actors, InspectHash(a)
     PROVE  Answers'
  BY <1>9 DEF InspectHash, TakenOver, Describes, Serves, UploadStands, Answers
<1>10. ASSUME NEW a \in Actors, Register(a)
     PROVE  Answers'
  <2> USE <1>10 DEF Register, Shape, Uploading, Upsert
  <2>1. rows'[SerialOf[name[a]]] =
          [name |-> name[a], size |-> size[a], hash |-> hash[a]]
    BY DEF TypeOK, Serials
  <2>2. rows'[SerialOf[name[a]]] # NoRow
    BY <2>1
  <2>3. \A s \in Serials \ {SerialOf[name[a]]} : rows'[s] = rows[s]
    OBVIOUS
  <2>4. name[a] \notin contested =>
          size[a] = files[name[a]] /\ hash[a] \in {files[name[a]], NoHash}
    BY DEF Inspected
  <2>5. told' # told =>
          /\ told' = [told EXCEPT ![name[a]] = data[a]]
          /\ name[a] \in Isos
          /\ name[a] \notin contested => files[name[a]] = data[a]
    BY DEF Placed
  <2>6. QED
    BY <2>1, <2>2, <2>3, <2>4, <2>5
       DEF Answers, UploadStands, Serves, Describes, TakenOver, Serials
<1>11. ASSUME NEW a \in Actors, RegisterFails(a)
     PROVE  Answers'
  BY <1>11
     DEF RegisterFails, TakenOver, Describes, Serves, UploadStands, Answers
<1>12. ASSUME NEW a \in Actors, Unlink(a)
     PROVE  Answers'
  BY <1>12 DEF Unlink, TakenOver, Describes, Serves, UploadStands, Answers
<1>13. ASSUME NEW n \in Names, OwnerChanges(n)
     PROVE  Answers'
  BY <1>13
     DEF OwnerChanges, TakenOver, Describes, Serves, UploadStands, Answers
<1>14. CASE Evaporate
  BY <1>14 DEF Evaporate, UploadStands, Answers
<1>15. CASE Restart
  BY <1>15 DEF Restart, TakenOver, Describes, Serves, UploadStands, Answers
<1>16. CASE UNCHANGED vars
  BY <1>16 DEF vars, TakenOver, Describes, Serves, UploadStands, Answers
<1>17. QED
  BY <1>1, <1>2, <1>3, <1>4, <1>5, <1>6, <1>7, <1>8, <1>9, <1>10, <1>11, <1>12,
     <1>13, <1>14, <1>15, <1>16
     DEF Next, Step

\* LibraryInv holds in every reachable state.
THEOREM LibraryInvariant == Spec => []LibraryInv
<1>1. Init => LibraryInv
  <2> SUFFICES ASSUME Init PROVE LibraryInv
    OBVIOUS
  <2> USE DEF Init
  <2>1. TypeOK
    BY DEF TypeOK
  <2>2. Shape /\ Inspected /\ Placed /\ Alone
    BY DEF Shape, Inspected, Placed, Alone, Uploading
  <2>3. UploadStands /\ \A n \in Names : told[n] # NoFile => n \in Isos
    BY DEF UploadStands
  <2>4. QED
    BY <2>1, <2>2, <2>3 DEF LibraryInv
<1>2. LibraryInv /\ [Next]_vars => LibraryInv'
  BY TypesKept, ShapeKept, InspectedKept, PlacedKept, AloneKept, AnswersKept
     DEF LibraryInv, Answers
<1>3. QED
  BY <1>1, <1>2, PTL DEF Spec

\* No file of the library and no row comes from an upload cut short, and every
\* variable has its type.
THEOREM LibraryTypes == Spec => []TypeOK
<1>1. LibraryInv => TypeOK
  BY DEF LibraryInv
<1>2. QED
  BY <1>1, LibraryInvariant, PTL

\* What an upload was answered 201 for is there and served, whatever statements
\* and copies fail and whenever the process dies, as long as the name is not
\* contested (somebody else has changed it under a request at work on it: a scan
\* may then write the row of a file that is gone) and no scan has given the row to
\* another image of the serial.
THEOREM AnsweredUploads == Spec => []UploadStands
<1>1. LibraryInv => UploadStands
  BY DEF LibraryInv
<1>2. QED
  BY <1>1, LibraryInvariant, PTL

\* The boot ranges of a manifest lie within the file and reach to its end or to
\* BootBytes.
LEMMA BootRangesExact ==
  ASSUME NEW bytes \in Nat
  PROVE  /\ \A r \in BootRanges(bytes) : 0 <= r[1] /\ r[1] < r[2] /\ r[2] <= bytes
         /\ \A i \in 0 .. BootBytes - 1 :
              i < bytes => \E r \in BootRanges(bytes) : r[1] <= i /\ i < r[2]
<1> DEFINE boot == IF bytes < BootBytes THEN bytes ELSE BootBytes
<1>1. boot \in Nat /\ boot <= bytes
  BY LibraryAssumption
<1>2. BootRanges(bytes) = IF boot > 0 THEN {<<0, boot>>} ELSE {}
  BY DEF BootRanges
<1>3. \A i \in 0 .. BootBytes - 1 : i < bytes => 0 < boot /\ i < boot
  BY LibraryAssumption
<1> HIDE DEF boot
<1>4. CASE boot > 0
  <2> DEFINE row == <<0, boot>>
  <2>1. BootRanges(bytes) = {row}
    BY <1>2, <1>4
  <2>2. row[1] = 0 /\ row[2] = boot
    OBVIOUS
  <2> HIDE DEF row
  <2>3. 0 <= row[1] /\ row[1] < row[2] /\ row[2] <= bytes
    BY <1>1, <1>4, <2>2
  <2>4. \A i \in 0 .. BootBytes - 1 :
          i < bytes => row[1] <= i /\ i < row[2]
    BY <1>3, <2>2, LibraryAssumption
  <2>5. QED
    BY <2>1, <2>3, <2>4
<1>5. CASE ~(boot > 0)
  BY <1>1, <1>2, <1>3, <1>5
<1>6. QED
  BY <1>4, <1>5

\* The manifest of an answered upload describes the file that will be opened,
\* with the same two exceptions.
THEOREM FittingManifest == Spec => []ManifestFits
<1>1. LibraryInv => ManifestFits
  <2>1. SUFFICES ASSUME LibraryInv, NEW n \in Names \ contested,
                        told[n] # NoFile, ~TakenOver(SerialOf[n], n)
                 PROVE  LET m     == Manifest(rows[SerialOf[n]])
                            bytes == SizeOf[files[n]]
                        IN  /\ m.supported
                            /\ m.size = bytes
                            /\ \A r \in m.boot :
                                 0 <= r[1] /\ r[1] < r[2] /\ r[2] <= bytes
                            /\ \A i \in 0 .. BootBytes - 1 :
                                 i < bytes => \E r \in m.boot : r[1] <= i /\ i < r[2]
    BY DEF ManifestFits
  <2> DEFINE bytes == SizeOf[files[n]]
  <2>2. UploadStands /\ told[n] \in Contents
    BY <2>1 DEF LibraryInv, TypeOK
  <2>3. /\ rows[SerialOf[n]].name \in Isos
        /\ rows[SerialOf[n]].size = files[n]
        /\ files[n] \in Contents
    BY <2>1, <2>2 DEF UploadStands, Serves, Describes
  <2>4. bytes \in Nat
    BY <2>3, LibraryAssumption
  <2>5. Manifest(rows[SerialOf[n]]) =
          [size |-> bytes, boot |-> BootRanges(bytes), supported |-> TRUE]
    BY <2>3 DEF Manifest, IsRawISO
  <2> HIDE DEF bytes
  <2>6. QED
    BY <2>4, <2>5, BootRangesExact DEF bytes
<1>2. QED
  BY <1>1, LibraryInvariant, PTL

\* No request replaces or removes a file that is not its own.
THEOREM OthersFiles == Spec => HandsOff
<1> DEFINE Kept == \/ \E n \in Names : OwnerChanges(n)
                  \/ \A n \in Names :
                       files[n] \notin {NoFile, files'[n]} =>
                         \/ n \in contested'
                         \/ \E a \in Actors : pc[a] = "unlink" /\ name[a] = n
                                             /\ data[a] = files[n]
<1>1. LibraryInv /\ [Next]_vars => [Kept]_vars
  <2> SUFFICES ASSUME LibraryInv, Next PROVE Kept
    OBVIOUS
  <2> USE DEF LibraryInv, TypeOK
  <2>1. ASSUME NEW a \in Actors, FinRename(a) PROVE Kept
    BY <2>1 DEF FinRename, Placed, Shape
  <2>2. ASSUME NEW a \in Actors, Unlink(a) PROVE Kept
    BY <2>2 DEF Unlink, Placed, Shape
  <2>3. ASSUME NEW a \in Actors, Step(a), ~FinRename(a), ~Unlink(a) PROVE Kept
    BY <2>3 DEF Step, ScanList, ScanReturn, FinStat, FinRenameFails,
                InspectStat, InspectHash, Register, RegisterFails
  <2>4. ASSUME NEW a \in Requests, ScanRequest(a) \/ Upload(a) PROVE Kept
    BY <2>4 DEF ScanRequest, Upload
  <2>5. CASE Evaporate \/ Restart
    BY <2>5 DEF Evaporate, Restart
  <2>6. QED
    BY <2>1, <2>2, <2>3, <2>4, <2>5 DEF Next
<1>2. QED
  BY <1>1, LibraryInvariant, PTL DEF Spec, HandsOff

-----------------------------------------------------------------------------
(* A scan that nobody disturbs makes the table right.                      *)

\* The locals of an actor.
Same(a) ==
  /\ pc'[a] = pc[a] /\ name'[a] = name[a] /\ data'[a] = data[a]
  /\ size'[a] = size[a] /\ hash'[a] = hash[a] /\ todo'[a] = todo[a]

\* A step of somebody else that changes neither files nor rows.
LEMMA QuietKept ==
  ASSUME NEW a \in Actors, QuietScan(a), UNCHANGED tables, Same(a)
  PROVE  QuietScan(a)'
BY DEF QuietScan, Same, Pending, Uploading, Describes

\* A step of a that changes neither files nor rows.
LEMMA ReadingKeeps ==
  ASSUME ScanInv, NEW a \in Actors, UNCHANGED tables, repaired' = repaired,
         quiet' \subseteq quiet \cup {a}, \A b \in Actors \ {a} : Same(b),
         quiet \subseteq Actors, a \in quiet' => QuietScan(a)'
  PROVE  ScanInv'
<1>1. ASSUME NEW b \in quiet' PROVE QuietScan(b)'
  <2>1. CASE b = a
    BY <1>1, <2>1
  <2>2. CASE b # a
    BY <1>1, <2>2, QuietKept DEF ScanInv
  <2>3. QED
    BY <2>1, <2>2
<1>2. ScanRepairs'
  BY DEF ScanInv, ScanRepairs, Last, Describes
<1>3. QED
  BY <1>1, <1>2 DEF ScanInv

\* The scan goes on to the next of the entries: the files before them have
\* their rows.
LEMMA AdvanceQuiet ==
  ASSUME TypeOK, NEW a \in Actors, NEW entries \in SUBSET Names, entries # {},
         Advance(a, entries), ~Uploading(a), files' = files,
         \A n \in entries : files[n] # NoFile,
         \A n \in Names \ entries :
           files[n] # NoFile =>
             /\ \A m \in entries : Order[n] < Order[m]
             /\ \/ Describes(rows'[SerialOf[n]], n)
                \/ \E m \in Names \ entries :
                     files[m] # NoFile /\ SerialOf[m] = SerialOf[n] /\ Order[n] < Order[m]
  PROVE  QuietScan(a)'
<1>1. PICK n \in entries :
        /\ \A m \in entries : Order[n] <= Order[m]
        /\ pc' = [pc EXCEPT ![a] = "stat"]
        /\ name' = [name EXCEPT ![a] = n]
        /\ todo' = [todo EXCEPT ![a] = entries \ {n}]
        /\ data' = data
  BY Zenon DEF Advance
<1>2. pc'[a] = "stat" /\ name'[a] = n /\ todo'[a] = entries \ {n} /\ data'[a] = data[a]
  BY <1>1 DEF TypeOK
<1>3. Pending(a)' = entries
  BY <1>2 DEF Pending
<1>4. \A m \in Names : Describes(rows[SerialOf[m]], m)' <=> Describes(rows'[SerialOf[m]], m)
  BY DEF Describes
<1>5. QED
  BY <1>1, <1>2, <1>3, <1>4 DEF QuietScan, Uploading

\* The invariant of undisturbed scans is kept.
LEMMA ScanKept ==
  ASSUME LibraryInv, ScanInv, [Next]_vars
  PROVE  ScanInv'
<1> USE DEF TypeOK, LibraryInv
<1>1. ASSUME NEW a \in Actors, ScanList(a) PROVE ScanInv'
  <2> DEFINE found == {n \in Names : files[n] # NoFile}
  <2>1. Advance(a, found) /\ UNCHANGED tables /\ pc[a] = "list"
    BY <1>1 DEF ScanList
  <2>2. ~Uploading(a) /\ \A b \in Actors \ {a} : Same(b)
    BY <2>1 DEF Shape, Same
  <2>3. CASE found = {}
    <3>1. quiet' = quiet \ {a}
      BY <1>1, <2>3 DEF ScanList
    <3>2. \A b \in quiet' : QuietScan(b)'
      BY <2>1, <2>2, <3>1, QuietKept DEF ScanInv
    <3>3. ScanRepairs'
      BY <2>1, <2>3 DEF ScanRepairs, Last
    <3>4. QED
      BY <3>2, <3>3 DEF ScanInv
  <2>4. CASE found # {}
    <3>1. quiet' = quiet \cup {a} /\ repaired' = repaired
      BY <1>1, <2>4 DEF ScanList
    <3>2. QuietScan(a)'
      <4>1. /\ found \in SUBSET Names /\ files' = files
            /\ \A n \in found : files[n] # NoFile
            /\ \A n \in Names \ found : files[n] = NoFile
        BY <2>1
      <4> HIDE DEF found
      <4>2. QED
        BY <2>1, <2>2, <2>4, <4>1, AdvanceQuiet
    <3>3. QED
      BY <2>1, <2>2, <3>1, <3>2, ReadingKeeps
  <2>5. QED
    BY <2>3, <2>4
<1>2. ASSUME NEW a \in Actors, InspectStat(a) PROVE ScanInv'
  <2>1. /\ UNCHANGED tables /\ repaired' = repaired /\ pc[a] = "stat"
        /\ quiet' \in {quiet, quiet \ {a}}
    BY <1>2 DEF InspectStat
  <2>2. \A b \in Actors \ {a} : Same(b)
    BY <1>2 DEF InspectStat, Advance, Same
  <2>3. ASSUME a \in quiet' PROVE QuietScan(a)'
    <3>1. /\ QuietScan(a) /\ files[name[a]] # NoFile /\ name[a] \in Names
          /\ ~Uploading(a)
      BY <2>1, <2>3 DEF ScanInv, QuietScan, Pending, Shape
    <3>2. /\ pc'[a] = "hash" /\ size'[a] = files[name[a]]
          /\ name' = name /\ data' = data /\ todo' = todo
      BY <1>2, <2>3, <3>1 DEF InspectStat
    <3>3. QED
      BY <2>1, <3>1, <3>2 DEF QuietScan, Pending, Uploading, Describes
  <2>4. quiet' \subseteq quiet \cup {a}
    BY <2>1
  <2>5. QED
    BY <2>1, <2>2, <2>3, <2>4, ReadingKeeps
<1>3. ASSUME NEW a \in Actors, InspectHash(a) PROVE ScanInv'
  <2>1. UNCHANGED tables /\ quiet' = quiet /\ repaired' = repaired /\ pc[a] = "hash"
    BY <1>3 DEF InspectHash
  <2>2. \A b \in Actors \ {a} : Same(b)
    BY <1>3 DEF InspectHash, Same
  <2>3. ASSUME a \in quiet PROVE QuietScan(a)'
    <3>1. QuietScan(a)
      BY <2>3 DEF ScanInv
    <3>2. /\ pc'[a] = "register" /\ hash'[a] \in {files[name[a]], NoHash}
          /\ name' = name /\ data' = data /\ todo' = todo /\ size' = size
      BY <1>3 DEF InspectHash
    <3>3. QED
      BY <2>1, <3>1, <3>2 DEF QuietScan, Pending, Uploading, Describes
  <2>4. QED
    BY <2>1, <2>2, <2>3, ReadingKeeps
<1>4. ASSUME NEW a \in Actors, Register(a) PROVE ScanInv'
  <2>1. CASE ~(a \in quiet /\ ~Uploading(a))
    <3>1. repaired' = FALSE /\ quiet' = quiet \cap {a}
      BY <1>4, <2>1 DEF Register
    <3>2. a \notin quiet
      BY <2>1 DEF ScanInv, QuietScan
    <3>3. QED
      BY <3>1, <3>2 DEF ScanInv, ScanRepairs
  <2>2. CASE a \in quiet /\ ~Uploading(a)
    <3> DEFINE me == name[a]
               row == [name |-> me, size |-> size[a], hash |-> hash[a]]
    <3>1. /\ QuietScan(a) /\ pc[a] = "register" /\ me \in Names
          /\ todo[a] \in SUBSET Names /\ files' = files
      BY <1>4, <2>2 DEF Register, ScanInv, Shape
    <3>2. rows' = [rows EXCEPT ![SerialOf[me]] = row]
      BY <1>4 DEF Register, Upsert
    <3>3. row \in Row
      BY <3>1 DEF Shape
    <3>4. rows'[SerialOf[me]] = row
      BY <3>1, <3>2 DEF Serials
    <3>5. Describes(rows'[SerialOf[me]], me)
      BY <3>1, <3>3, <3>4 DEF Describes, QuietScan
    <3>6. \A n \in Names \ todo[a] :
            files[n] # NoFile /\ n # me =>
              /\ Order[n] < Order[me]
              /\ \/ Describes(rows'[SerialOf[n]], n)
                 \/ \E m \in Names \ todo[a] :
                      files[m] # NoFile /\ SerialOf[m] = SerialOf[n] /\ Order[n] < Order[m]
      <4> SUFFICES ASSUME NEW n \in Names \ todo[a], files[n] # NoFile, n # me
                   PROVE  /\ Order[n] < Order[me]
                          /\ \/ Describes(rows'[SerialOf[n]], n)
                             \/ \E m \in Names \ todo[a] :
                                  files[m] # NoFile /\ SerialOf[m] = SerialOf[n]
                                  /\ Order[n] < Order[m]
        OBVIOUS
      <4>1. /\ Order[n] < Order[me]
            /\ \/ Describes(rows[SerialOf[n]], n)
               \/ \E m \in Names \ Pending(a) :
                    files[m] # NoFile /\ SerialOf[m] = SerialOf[n] /\ Order[n] < Order[m]
        BY <3>1 DEF QuietScan, Pending
      <4>2. CASE SerialOf[n] = SerialOf[me]
        BY <3>1, <4>1, <4>2 DEF QuietScan, Pending
      <4>3. CASE SerialOf[n] # SerialOf[me]
        <5>1. rows'[SerialOf[n]] = rows[SerialOf[n]]
          BY <3>2, <4>3 DEF Serials
        <5>2. QED
          BY <4>1, <5>1 DEF Pending
      <4>4. QED
        BY <4>2, <4>3
    <3>7. Advance(a, todo[a])
      BY <1>4, <2>2 DEF Register
    <3>8. CASE todo[a] # {}
      <4>1. quiet' = quiet \cap {a} /\ repaired' = FALSE
        BY <1>4, <2>2, <3>8 DEF Register
      <4>2. \A m \in todo[a] : files[m] # NoFile /\ Order[me] < Order[m]
        BY <3>1, LibraryAssumption DEF QuietScan, Pending
      <4>3. \A n \in Names \ todo[a] :
              files[n] # NoFile =>
                /\ \A m \in todo[a] : Order[n] < Order[m]
                /\ \/ Describes(rows'[SerialOf[n]], n)
                   \/ \E m \in Names \ todo[a] :
                        files[m] # NoFile /\ SerialOf[m] = SerialOf[n] /\ Order[n] < Order[m]
        BY <3>1, <3>5, <3>6, <4>2, LibraryAssumption
      <4>4. QuietScan(a)'
        BY <2>2, <3>1, <3>7, <3>8, <4>2, <4>3, AdvanceQuiet
      <4>5. QED
        BY <4>1, <4>4 DEF ScanInv, ScanRepairs
    <3>9. CASE todo[a] = {}
      <4>1. quiet' = {}
        BY <1>4, <2>2, <3>9 DEF Register
      <4>2. ASSUME NEW n \in Names, Last(n) PROVE Describes(rows'[SerialOf[n]], n)
        BY <3>1, <3>5, <3>6, <3>9, <4>2, LibraryAssumption DEF Last
      <4>3. ScanRepairs'
        BY <3>1, <4>2 DEF ScanRepairs, Last, Describes
      <4>4. QED
        BY <4>1, <4>3 DEF ScanInv
    <3>10. QED
      BY <3>8, <3>9
  <2>3. QED
    BY <2>1, <2>2
<1>5. ASSUME NEW a \in Actors,
             ScanRequest(a) \/ ScanReturn(a) \/ Upload(a) \/ FinStat(a) \/ FinRenameFails(a)
             \/ RegisterFails(a)
      PROVE  ScanInv'
  <2>1. /\ UNCHANGED tables /\ repaired' = repaired
        /\ quiet' = quiet \/ quiet' = quiet \ {a}
    BY <1>5 DEF ScanRequest, ScanReturn, Upload, FinStat, FinRenameFails, RegisterFails
  <2>2. \A b \in Actors \ {a} : Same(b)
    BY <1>5 DEF ScanRequest, ScanReturn, Upload, FinStat, FinRenameFails, RegisterFails, Same
  <2>3. a \notin quiet'
    BY <1>5 DEF ScanRequest, ScanReturn, Upload, FinStat, FinRenameFails, RegisterFails,
                ScanInv, QuietScan
  <2>4. QED
    BY <2>1, <2>2, <2>3, ReadingKeeps
<1>6. ASSUME NEW a \in Actors, FinRename(a) \/ Unlink(a) PROVE ScanInv'
  <2>1. a \notin quiet /\ quiet' = quiet \cap {a} /\ repaired' = FALSE
    BY <1>6 DEF FinRename, Unlink, ScanInv, QuietScan
  <2>2. QED
    BY <2>1 DEF ScanInv, ScanRepairs
<1>7. ASSUME (\E n \in Names : OwnerChanges(n)) \/ Evaporate PROVE ScanInv'
  <2>1. quiet' = {} /\ repaired' = FALSE
    BY <1>7 DEF OwnerChanges, Evaporate
  <2>2. QED
    BY <2>1 DEF ScanInv, ScanRepairs
<1>8. CASE Restart
  BY <1>8 DEF Restart, ScanInv, ScanRepairs, Last, Describes
<1>9. CASE UNCHANGED vars
  BY <1>9 DEF vars, ScanInv, ScanRepairs, Last, Describes, QuietScan, Pending, Uploading
<1>10. QED
  BY <1>1, <1>2, <1>3, <1>4, <1>5, <1>6, <1>7, <1>8, <1>9 DEF Next, Step

\* An undisturbed scan has given their rows to the files that it has passed.
THEOREM QuietScans == Spec => []ScanInv
<1>1. Init => ScanInv
  BY DEF Init, ScanInv, ScanRepairs
<1>2. LibraryInv /\ ScanInv /\ [Next]_vars => ScanInv'
  BY ScanKept
<1>3. QED
  BY <1>1, <1>2, LibraryInvariant, PTL DEF Spec

\* A rescan makes the table right, whatever was in it.
THEOREM RepairingScans == Spec => []ScanRepairs
<1>1. ScanInv => ScanRepairs
  BY DEF ScanInv
<1>2. QED
  BY <1>1, QuietScans, PTL
=============================================================================
