---------------------------- MODULE SavesProofs ----------------------------
(***************************************************************************)
(* Memory cards: the proofs.                                               *)
(*                                                                         *)
(* Everything follows from the inductive invariant SavesInv of Saves.  In  *)
(* order: the numbers (a Put reads the clock twice at most and spoils one  *)
(* rotation at most, so that Stamps is large enough), the types and the    *)
(* locals, how the backups change (a step removes none but the oldest),    *)
(* how many are left, what a request knows that has the slot for itself.   *)
(***************************************************************************)
EXTENDS Saves, FiniteSetTheorems, WellFoundedInduction, TLAPS

USE DEF files, locals, past, Goto

-----------------------------------------------------------------------------
(* Sets of numbers and of requests.                                        *)

\* A set of natural numbers that is not empty has a least element.
LEMMA LeastNat ==
  ASSUME NEW S \in SUBSET Nat, S # {}
  PROVE  \E m \in S : \A n \in S : m =< n
<1> DEFINE Less == OpToRel(<, Nat)
<1>1. IsWellFoundedOn(Less, Nat)
  BY NatLessThanWellFounded
<1>2. \A m, n \in Nat : <<n, m>> \in Less <=> n < m
  BY DEF OpToRel
<1> HIDE DEF Less
<1>3. PICK m \in S : \A n \in S : ~ (<<n, m>> \in Less)
  BY <1>1, WFMin
<1>4. \A n \in S : ~ (n < m)
  BY <1>2, <1>3, Zenon
<1> QED BY <1>4

\* The minimum of the loops that remove the oldest file first.
LEMMA MinIsLeast ==
  ASSUME NEW S \in SUBSET Nat, S # {}
  PROVE  Min(S) \in S /\ \A n \in S : Min(S) =< n
BY LeastNat DEF Min

\* How a request that moves on changes the number of requests at some labels.
In(label, labels) == IF label \in labels THEN 1 ELSE 0

\* A finite set of requests gains or loses the one that moves.
LEMMA AtStep ==
  ASSUME TypeOK, NEW w \in Workers, NEW label, NEW labels,
         Goto(w, label), IsFiniteSet(At(labels))
  PROVE  /\ IsFiniteSet(At(labels)')
         /\ Cardinality(At(labels)') =
              Cardinality(At(labels)) + In(label, labels) - In(pc[w], labels)
<1>1. Cardinality(At(labels)) \in Nat
  BY FS_CardinalityType
<1>2. pc[w] \in labels <=> w \in At(labels)
  BY DEF At
<1>3. CASE label \in labels
  <2>1. At(labels)' = At(labels) \cup {w}
    BY <1>3 DEF At, TypeOK
  <2>2. QED
    BY <1>1, <1>2, <1>3, <2>1, FS_AddElement DEF In
<1>4. CASE label \notin labels
  <2>1. At(labels)' = At(labels) \ {w}
    BY <1>4 DEF At, TypeOK
  <2>2. QED
    BY <1>1, <1>2, <1>4, <2>1, FS_RemoveElement DEF In
<1>5. QED
  BY <1>3, <1>4

\* What is counted is a set of Puts, and those are at most MaxPuts.
LEMMA PuttingFinite ==
  ASSUME IsFiniteSet(At(Putting)), NEW labels, labels \subseteq Putting
  PROVE  IsFiniteSet(At(labels)) /\ Cardinality(At(labels)) \in Nat
<1>1. At(labels) \in SUBSET At(Putting)
  BY DEF At
<1>2. QED
  BY <1>1, FS_Subset, FS_CardinalityType

\* The labels that Budget counts.
LEMMA Counted ==
  ASSUME IsFiniteSet(At(Putting))
  PROVE  /\ IsFiniteSet(At(Ticking)) /\ Cardinality(At(Ticking)) \in Nat
         /\ IsFiniteSet(At({"bakOpen"})) /\ Cardinality(At({"bakOpen"})) \in Nat
         /\ IsFiniteSet(At({"bakOpen"} \cup Rotating))
         /\ Cardinality(At({"bakOpen"} \cup Rotating)) \in Nat
<1>1. /\ Ticking \subseteq Putting
      /\ {"bakOpen"} \subseteq Putting
      /\ {"bakOpen"} \cup Rotating \subseteq Putting
  BY DEF Putting, Ticking, Rotating
<1>2. QED
  BY <1>1, PuttingFinite

\* The numbers of requests at the labels of Budget, after a step.
LEMMA CountedStep ==
  ASSUME TypeOK, Budget, NEW w \in Workers, NEW label, Goto(w, label)
  PROVE  /\ IsFiniteSet(At(Putting)')
         /\ Cardinality(At(Ticking)) \in Nat
         /\ Cardinality(At({"bakOpen"})) \in Nat
         /\ Cardinality(At({"bakOpen"} \cup Rotating)) \in Nat
         /\ Cardinality(At(Ticking)') =
              Cardinality(At(Ticking)) + In(label, Ticking) - In(pc[w], Ticking)
         /\ Cardinality(At({"bakOpen"})') =
              Cardinality(At({"bakOpen"})) + In(label, {"bakOpen"}) - In(pc[w], {"bakOpen"})
         /\ Cardinality(At({"bakOpen"} \cup Rotating)') =
              Cardinality(At({"bakOpen"} \cup Rotating))
                + In(label, {"bakOpen"} \cup Rotating) - In(pc[w], {"bakOpen"} \cup Rotating)
<1>1. IsFiniteSet(At(Putting)) /\ IsFiniteSet(At(Putting)')
  BY AtStep DEF Budget
<1>2. QED
  BY <1>1, Counted, AtStep

\* How often a request will still read the clock, and spoil a rotation.
Ticks(label)  == In(label, Ticking) + In(label, {"bakOpen"})
Spoils(label) == In(label, {"bakOpen"} \cup Rotating)

\* A step to label stays within the budget.
Affords(w, label) ==
  /\ clock' \in Nat /\ puts' \in Nat /\ spoiled' \in Nat
  /\ clock' + Ticks(label) - 2 * puts' =< clock + Ticks(pc[w]) - 2 * puts
  /\ spoiled' + Spoils(label) - puts' =< spoiled + Spoils(pc[w]) - puts

\* A step that costs no more than its labels allow keeps within the budget.
LEMMA BudgetMove ==
  ASSUME TypeOK, Budget, NEW w \in Workers, NEW label, Goto(w, label), Affords(w, label)
  PROVE  Budget'
<1>1. /\ In(label, Ticking) \in Nat /\ In(pc[w], Ticking) \in Nat
      /\ In(label, {"bakOpen"}) \in Nat /\ In(pc[w], {"bakOpen"}) \in Nat
      /\ In(label, {"bakOpen"} \cup Rotating) \in Nat
      /\ In(pc[w], {"bakOpen"} \cup Rotating) \in Nat
  BY DEF In
<1>2. clock \in Nat /\ puts \in Nat /\ spoiled \in Nat
  BY DEF TypeOK
<1>3. IsFiniteSet(At(Putting)')
  BY CountedStep
<1>4. /\ Cardinality(At(Ticking)') =
           Cardinality(At(Ticking)) + In(label, Ticking) - In(pc[w], Ticking)
      /\ Cardinality(At({"bakOpen"})') =
           Cardinality(At({"bakOpen"})) + In(label, {"bakOpen"}) - In(pc[w], {"bakOpen"})
      /\ Cardinality(At({"bakOpen"} \cup Rotating)') =
           Cardinality(At({"bakOpen"} \cup Rotating))
             + In(label, {"bakOpen"} \cup Rotating) - In(pc[w], {"bakOpen"} \cup Rotating)
  BY CountedStep
<1>5. /\ Cardinality(At(Ticking)) \in Nat /\ Cardinality(At({"bakOpen"})) \in Nat
      /\ Cardinality(At({"bakOpen"} \cup Rotating)) \in Nat
  BY CountedStep
<1>6. clock + Cardinality(At(Ticking)) + Cardinality(At({"bakOpen"})) =< 2 * puts
      /\ spoiled + Cardinality(At({"bakOpen"} \cup Rotating)) =< puts
  BY DEF Budget
<1>7. clock' + Cardinality(At(Ticking)') + Cardinality(At({"bakOpen"})') =< 2 * puts'
      /\ spoiled' + Cardinality(At({"bakOpen"} \cup Rotating)') =< puts'
  BY <1>1, <1>2, <1>4, <1>5, <1>6 DEF Affords, Ticks, Spoils
<1>8. QED
  BY <1>3, <1>7 DEF Budget

\* Ticks and Spoils of each label.
LEMMA Weights ==
  /\ Ticks("idle") = 0 /\ Spoils("idle") = 0
  /\ Ticks("getFile") = 0 /\ Spoils("getFile") = 0
  /\ Ticks("bakOpen") = 2 /\ Spoils("bakOpen") = 1
  /\ Ticks("bakWrite") = 1 /\ Spoils("bakWrite") = 1
  /\ Ticks("pruneDir") = 1 /\ Spoils("pruneDir") = 1
  /\ Ticks("prune") = 1 /\ Spoils("prune") = 1
  /\ Ticks("tmpOpen") = 1 /\ Spoils("tmpOpen") = 0
  /\ Ticks("tmpWrite") = 0 /\ Spoils("tmpWrite") = 0
  /\ Ticks("rename") = 0 /\ Spoils("rename") = 0
  /\ Ticks("upsert") = 0 /\ Spoils("upsert") = 0
  /\ Ticks("putGet") = 0 /\ Spoils("putGet") = 0
  /\ Ticks("delDir") = 0 /\ Spoils("delDir") = 0
  /\ Ticks("delFiles") = 0 /\ Spoils("delFiles") = 0
  /\ Ticks("delRow") = 0 /\ Spoils("delRow") = 0
BY DEF Ticks, Spoils, In, Ticking, Rotating

-----------------------------------------------------------------------------

\* The clock and the spoiled rotations stay within the number of Puts.
LEMMA BudgetStep == ASSUME SavesInv, [Next]_vars PROVE Budget'
<1> USE SavesAssumption
<1>1. ASSUME NEW w \in Workers, NEW d \in Contents, PutRead(w, d)
     PROVE  Budget'
  <2>1. pc[w] = "idle" /\ clock' = clock /\ puts' = puts + 1 /\ spoiled' = spoiled
    BY <1>1 DEF PutRead, Begin
  <2>2. Goto(w, "tmpOpen") \/ Goto(w, "bakOpen")
    BY <1>1 DEF PutRead, Begin
  <2>3. CASE Goto(w, "tmpOpen")
    <3>1. Affords(w, "tmpOpen")
      BY <2>1, Weights DEF Affords, SavesInv, TypeOK
    <3>2. QED
      BY <2>3, <3>1, BudgetMove DEF SavesInv
  <2>4. CASE Goto(w, "bakOpen")
    <3>1. Affords(w, "bakOpen")
      BY <2>1, Weights DEF Affords, SavesInv, TypeOK
    <3>2. QED
      BY <2>4, <3>1, BudgetMove DEF SavesInv
  <2>5. QED
    BY <2>2, <2>3, <2>4
<1>2. ASSUME NEW w \in Workers, BakOpen(w)
     PROVE  Budget'
  <2>1. pc[w] = "bakOpen" /\ clock' = clock + 1 /\ puts' = puts /\ spoiled' = spoiled
    BY <1>2 DEF BakOpen, Fail, Finish
  <2>2. Goto(w, "bakWrite") \/ Goto(w, "idle")
    BY <1>2 DEF BakOpen, Fail, Finish
  <2>3. CASE Goto(w, "bakWrite")
    <3>1. Affords(w, "bakWrite")
      BY <2>1, Weights DEF Affords, SavesInv, TypeOK
    <3>2. QED
      BY <2>3, <3>1, BudgetMove DEF SavesInv
  <2>4. CASE Goto(w, "idle")
    <3>1. Affords(w, "idle")
      BY <2>1, Weights DEF Affords, SavesInv, TypeOK
    <3>2. QED
      BY <2>4, <3>1, BudgetMove DEF SavesInv
  <2>5. QED
    BY <2>2, <2>3, <2>4
<1>3. ASSUME NEW w \in Workers, BakWrite(w)
     PROVE  Budget'
  <2>1. pc[w] = "bakWrite" /\ clock' = clock /\ puts' = puts
    BY <1>3 DEF BakWrite
  <2>2. \/ Goto(w, "pruneDir") /\ spoiled' = spoiled
        \/ Goto(w, "idle") /\ spoiled' = spoiled + 1
    BY <1>3 DEF BakWrite, Fail, Finish
<2>3. CASE Goto(w, "pruneDir") /\ spoiled' = spoiled
    <3>1. Affords(w, "pruneDir")
      BY <2>1, <2>3, Weights DEF Affords, SavesInv, TypeOK
    <3>2. QED
      BY <2>3, <3>1, BudgetMove DEF SavesInv
<2>4. CASE Goto(w, "idle") /\ spoiled' = spoiled + 1
    <3>1. Affords(w, "idle")
      BY <2>1, <2>4, Weights DEF Affords, SavesInv, TypeOK
    <3>2. QED
      BY <2>4, <3>1, BudgetMove DEF SavesInv
  <2>5. QED
    BY <2>2, <2>3, <2>4
<1>4. ASSUME NEW w \in Workers, PruneDir(w)
     PROVE  Budget'
  <2>1. pc[w] = "pruneDir" /\ clock' = clock /\ puts' = puts
    BY <1>4 DEF PruneDir
  <2>2. \/ Goto(w, "prune") /\ spoiled' = spoiled
        \/ Goto(w, "tmpOpen") /\ spoiled' = spoiled + 1
    BY <1>4 DEF PruneDir
  <2>3. CASE Goto(w, "prune") /\ spoiled' = spoiled
    <3>1. Affords(w, "prune")
      BY <2>1, <2>3, Weights DEF Affords, SavesInv, TypeOK
    <3>2. QED
      BY <2>3, <3>1, BudgetMove DEF SavesInv
  <2>4. CASE Goto(w, "tmpOpen") /\ spoiled' = spoiled + 1
    <3>1. Affords(w, "tmpOpen")
      BY <2>1, <2>4, Weights DEF Affords, SavesInv, TypeOK
    <3>2. QED
      BY <2>4, <3>1, BudgetMove DEF SavesInv
  <2>5. QED
    BY <2>2, <2>3, <2>4
<1>5. ASSUME NEW w \in Workers, Prune(w)
     PROVE  Budget'
  <2>1. pc[w] = "prune" /\ clock' = clock /\ puts' = puts
    BY <1>5 DEF Prune
  <2>2. \/ UNCHANGED <<pc, spoiled>>
        \/ Goto(w, "tmpOpen") /\ spoiled' \in {0, spoiled}
    BY <1>5 DEF Prune
  <2>3. CASE UNCHANGED <<pc, spoiled>>
    BY <2>1, <2>3 DEF SavesInv, Budget, At
<2>4. CASE Goto(w, "tmpOpen") /\ spoiled' \in {0, spoiled}
    <3>1. Affords(w, "tmpOpen")
      BY <2>1, <2>4, Weights DEF Affords, SavesInv, TypeOK
    <3>2. QED
      BY <2>4, <3>1, BudgetMove DEF SavesInv
  <2>5. QED
    BY <2>2, <2>3, <2>4
<1>6. ASSUME NEW w \in Workers, TmpOpen(w)
     PROVE  Budget'
  <2>1. pc[w] = "tmpOpen" /\ clock' = clock + 1 /\ puts' = puts /\ spoiled' = spoiled
    BY <1>6 DEF TmpOpen, Fail, Finish
  <2>2. Goto(w, "tmpWrite") \/ Goto(w, "idle")
    BY <1>6 DEF TmpOpen, Fail, Finish
  <2>3. CASE Goto(w, "tmpWrite")
    <3>1. Affords(w, "tmpWrite")
      BY <2>1, Weights DEF Affords, SavesInv, TypeOK
    <3>2. QED
      BY <2>3, <3>1, BudgetMove DEF SavesInv
  <2>4. CASE Goto(w, "idle")
    <3>1. Affords(w, "idle")
      BY <2>1, Weights DEF Affords, SavesInv, TypeOK
    <3>2. QED
      BY <2>4, <3>1, BudgetMove DEF SavesInv
  <2>5. QED
    BY <2>2, <2>3, <2>4
<1>7. ASSUME NEW w \in Workers, TmpWrite(w)
     PROVE  Budget'
  <2>1. pc[w] = "tmpWrite" /\ clock' = clock /\ puts' = puts /\ spoiled' = spoiled
    BY <1>7 DEF TmpWrite, Fail, Finish
  <2>2. Goto(w, "rename") \/ Goto(w, "idle")
    BY <1>7 DEF TmpWrite, Fail, Finish
  <2>3. CASE Goto(w, "rename")
    <3>1. Affords(w, "rename")
      BY <2>1, Weights DEF Affords, SavesInv, TypeOK
    <3>2. QED
      BY <2>3, <3>1, BudgetMove DEF SavesInv
  <2>4. CASE Goto(w, "idle")
    <3>1. Affords(w, "idle")
      BY <2>1, Weights DEF Affords, SavesInv, TypeOK
    <3>2. QED
      BY <2>4, <3>1, BudgetMove DEF SavesInv
  <2>5. QED
    BY <2>2, <2>3, <2>4
<1>8. ASSUME NEW w \in Workers, Rename(w)
     PROVE  Budget'
  <2>1. pc[w] = "rename" /\ clock' = clock /\ puts' = puts /\ spoiled' = spoiled
    BY <1>8 DEF Rename, Finish
  <2>2. Goto(w, "upsert") \/ Goto(w, "idle")
    BY <1>8 DEF Rename, Finish
  <2>3. CASE Goto(w, "upsert")
    <3>1. Affords(w, "upsert")
      BY <2>1, Weights DEF Affords, SavesInv, TypeOK
    <3>2. QED
      BY <2>3, <3>1, BudgetMove DEF SavesInv
  <2>4. CASE Goto(w, "idle")
    <3>1. Affords(w, "idle")
      BY <2>1, Weights DEF Affords, SavesInv, TypeOK
    <3>2. QED
      BY <2>4, <3>1, BudgetMove DEF SavesInv
  <2>5. QED
    BY <2>2, <2>3, <2>4
<1>9. ASSUME NEW w \in Workers, Upsert(w)
     PROVE  Budget'
  <2>1. pc[w] = "upsert" /\ clock' = clock /\ puts' = puts /\ spoiled' = spoiled
    BY <1>9 DEF Upsert, Fail, Finish
  <2>2. Goto(w, "putGet") \/ Goto(w, "idle")
    BY <1>9 DEF Upsert, Fail, Finish
  <2>3. CASE Goto(w, "putGet")
    <3>1. Affords(w, "putGet")
      BY <2>1, Weights DEF Affords, SavesInv, TypeOK
    <3>2. QED
      BY <2>3, <3>1, BudgetMove DEF SavesInv
  <2>4. CASE Goto(w, "idle")
    <3>1. Affords(w, "idle")
      BY <2>1, Weights DEF Affords, SavesInv, TypeOK
    <3>2. QED
      BY <2>4, <3>1, BudgetMove DEF SavesInv
  <2>5. QED
    BY <2>2, <2>3, <2>4
<1>10. ASSUME NEW w \in Workers, PutGet(w)
     PROVE  Budget'
  <2>1. pc[w] = "putGet" /\ clock' = clock /\ puts' = puts /\ spoiled' = spoiled
    BY <1>10 DEF PutGet, Answer, Finish, past
  <2>2. Goto(w, "idle")
    BY <1>10 DEF PutGet, Answer, Finish
  <2>3. CASE Goto(w, "idle")
    <3>1. Affords(w, "idle")
      BY <2>1, Weights DEF Affords, SavesInv, TypeOK
    <3>2. QED
      BY <2>3, <3>1, BudgetMove DEF SavesInv
  <2>4. QED
    BY <2>2, <2>3
<1>11. ASSUME NEW w \in Workers, DeleteCard(w)
     PROVE  Budget'
  <2>1. pc[w] = "idle" /\ clock' = clock /\ puts' = puts /\ spoiled' = spoiled
    BY <1>11 DEF DeleteCard, Begin
  <2>2. Goto(w, "delDir")
    BY <1>11 DEF DeleteCard, Begin
  <2>3. CASE Goto(w, "delDir")
    <3>1. Affords(w, "delDir")
      BY <2>1, Weights DEF Affords, SavesInv, TypeOK
    <3>2. QED
      BY <2>3, <3>1, BudgetMove DEF SavesInv
  <2>4. QED
    BY <2>2, <2>3
<1>12. ASSUME NEW w \in Workers, DeleteDir(w)
     PROVE  Budget'
  <2>1. pc[w] = "delDir" /\ clock' = clock /\ puts' = puts /\ spoiled' = spoiled
    BY <1>12 DEF DeleteDir
  <2>2. Goto(w, "delFiles") \/ Goto(w, "delRow")
    BY <1>12 DEF DeleteDir
  <2>3. CASE Goto(w, "delFiles")
    <3>1. Affords(w, "delFiles")
      BY <2>1, Weights DEF Affords, SavesInv, TypeOK
    <3>2. QED
      BY <2>3, <3>1, BudgetMove DEF SavesInv
  <2>4. CASE Goto(w, "delRow")
    <3>1. Affords(w, "delRow")
      BY <2>1, Weights DEF Affords, SavesInv, TypeOK
    <3>2. QED
      BY <2>4, <3>1, BudgetMove DEF SavesInv
  <2>5. QED
    BY <2>2, <2>3, <2>4
<1>13. ASSUME NEW w \in Workers, DeleteFile(w)
     PROVE  Budget'
  BY <1>13 DEF DeleteFile, SavesInv, Budget, At
<1>14. ASSUME NEW w \in Workers, DeleteRow(w)
     PROVE  Budget'
  <2>1. pc[w] \in {"delFiles", "delRow"} /\ clock' = clock /\ puts' = puts
        /\ spoiled' = spoiled
    BY <1>14 DEF DeleteRow, Answer, Finish, past
  <2>2. Goto(w, "idle")
    BY <1>14 DEF DeleteRow, Answer, Finish
  <2>3. CASE Goto(w, "idle")
    <3>1. Affords(w, "idle")
      BY <2>1, Weights DEF Affords, SavesInv, TypeOK
    <3>2. QED
      BY <2>3, <3>1, BudgetMove DEF SavesInv
  <2>4. QED
    BY <2>2, <2>3
<1>15. ASSUME NEW w \in Workers, GetRow(w)
     PROVE  Budget'
  <2>1. pc[w] = "idle" /\ clock' = clock /\ puts' = puts /\ spoiled' = spoiled
    BY <1>15 DEF GetRow
  <2>2. Goto(w, "getFile")
    BY <1>15 DEF GetRow
  <2>3. CASE Goto(w, "getFile")
    <3>1. Affords(w, "getFile")
      BY <2>1, Weights DEF Affords, SavesInv, TypeOK
    <3>2. QED
      BY <2>3, <3>1, BudgetMove DEF SavesInv
  <2>4. QED
    BY <2>2, <2>3
<1>16. ASSUME NEW w \in Workers, GetFile(w)
     PROVE  Budget'
  <2>1. pc[w] = "getFile" /\ clock' = clock /\ puts' = puts /\ spoiled' = spoiled
    BY <1>16 DEF GetFile, Finish
  <2>2. Goto(w, "idle")
    BY <1>16 DEF GetFile, Finish
  <2>3. CASE Goto(w, "idle")
    <3>1. Affords(w, "idle")
      BY <2>1, Weights DEF Affords, SavesInv, TypeOK
    <3>2. QED
      BY <2>3, <3>1, BudgetMove DEF SavesInv
  <2>4. QED
    BY <2>2, <2>3
<1>17. ASSUME Crash
     PROVE  Budget'
  <2>1. At(Putting)' = {} /\ At(Ticking)' = {} /\ At({"bakOpen"})' = {}
        /\ At({"bakOpen"} \cup Rotating)' = {}
    BY <1>17 DEF Crash, At, Putting, Ticking, Rotating
  <2>2. At(Rotating) \in SUBSET At({"bakOpen"} \cup Rotating)
    BY DEF At
  <2>3. Cardinality(At(Rotating)) =< Cardinality(At({"bakOpen"} \cup Rotating))
    BY <2>2, Counted, FS_Subset DEF SavesInv, Budget
  <2>4. spoiled' = spoiled + Cardinality(At(Rotating))
    BY <1>17 DEF Crash, At, Rotating
  <2>5. clock' = clock /\ puts' = puts
    BY <1>17 DEF Crash
  <2>6. IsFiniteSet(At(Putting))
    BY DEF SavesInv, Budget
  <2>7. /\ Cardinality(At(Ticking)) \in Nat /\ Cardinality(At({"bakOpen"})) \in Nat
        /\ Cardinality(At({"bakOpen"} \cup Rotating)) \in Nat
    BY <2>6, Counted
  <2>8. Cardinality(At(Rotating)) \in Nat
    BY <2>6, PuttingFinite DEF Putting, Rotating
  <2>9. clock =< 2 * puts /\ spoiled' =< puts
    BY <2>3, <2>4, <2>5, <2>7, <2>8 DEF SavesInv, Budget, TypeOK
  <2>10. clock' \in Nat /\ spoiled' \in Nat /\ puts' \in Nat
    BY <2>4, <2>5, <2>8 DEF SavesInv, TypeOK
  <2>11. /\ IsFiniteSet(At(Putting)')
         /\ Cardinality(At(Ticking)') \in Nat /\ Cardinality(At({"bakOpen"})') \in Nat
         /\ Cardinality(At({"bakOpen"} \cup Rotating)') \in Nat
         /\ Cardinality(At(Ticking)') = 0 /\ Cardinality(At({"bakOpen"})') = 0
         /\ Cardinality(At({"bakOpen"} \cup Rotating)') = 0
    BY <2>1, FS_EmptySet
  <2>12. /\ clock' + Cardinality(At(Ticking)') + Cardinality(At({"bakOpen"})') =< 2 * puts'
         /\ spoiled' + Cardinality(At({"bakOpen"} \cup Rotating)') =< puts'
    <3>1. \A n \in Nat : n + 0 + 0 = n /\ n + 0 = n
      OBVIOUS
    <3>2. /\ clock' + Cardinality(At(Ticking)') + Cardinality(At({"bakOpen"})') = clock'
          /\ spoiled' + Cardinality(At({"bakOpen"} \cup Rotating)') = spoiled'
      BY <2>10, <2>11, <3>1, Zenon
    <3>3. clock' =< 2 * puts' /\ spoiled' =< puts'
      BY <2>5, <2>9
    <3>4. QED
      BY <3>2, <3>3
  <2>13. QED
    BY <2>11, <2>12 DEF Budget
<1>18. CASE UNCHANGED vars
  BY <1>18 DEF vars, SavesInv, Budget, At
<1>19. QED
  BY <1>1, <1>2, <1>3, <1>4, <1>5, <1>6, <1>7, <1>8, <1>9, <1>10, <1>11, <1>12, <1>13, <1>14, <1>15, <1>16, <1>17, <1>18 DEF Next, Put, Delete, Get

\* So the clock has a time stamp for every file.
LEMMA BoundsStep ==
  ASSUME SavesInv, [Next]_vars
  PROVE  /\ puts' \in 0 .. MaxPuts /\ clock' \in 0 .. 2 * puts' /\ spoiled' \in 0 .. puts'
         /\ clock =< clock'
<1>1. Budget'
  BY BudgetStep
<1>2. /\ At(Ticking)' \in SUBSET At(Putting)'
      /\ At({"bakOpen"})' \in SUBSET At(Putting)'
      /\ At({"bakOpen"} \cup Rotating)' \in SUBSET At(Putting)'
  BY DEF At, Putting, Ticking, Rotating
<1>3. /\ Cardinality(At(Ticking)') \in Nat /\ Cardinality(At({"bakOpen"})') \in Nat
      /\ Cardinality(At({"bakOpen"} \cup Rotating)') \in Nat
  BY <1>1, <1>2, FS_Subset, FS_CardinalityType DEF Budget
<1>4. /\ puts \in 0 .. MaxPuts /\ clock \in Nat /\ spoiled \in Nat
      /\ Cardinality(At(Rotating)) \in Nat
  BY PuttingFinite DEF SavesInv, TypeOK, Budget, Putting, Rotating
<1> DEFINE Moves == /\ puts' \in {puts, puts + 1} /\ puts' =< MaxPuts
                    /\ clock' \in {clock, clock + 1}
                    /\ spoiled' \in {0, spoiled, spoiled + 1, spoiled + Cardinality(At(Rotating))}
<1>5. Moves
  <2>1. ASSUME NEW w \in Workers, NEW d \in Contents, PutRead(w, d)
        PROVE  Moves
    BY <1>4, <2>1, SavesAssumption DEF PutRead, Begin
  <2>2. ASSUME NEW w \in Workers,
               \/ BakOpen(w) \/ BakWrite(w) \/ PruneDir(w) \/ Prune(w)
               \/ TmpOpen(w) \/ TmpWrite(w) \/ Rename(w) \/ Upsert(w) \/ PutGet(w)
        PROVE  Moves
    BY <1>4, <2>2, SavesAssumption
       DEF BakOpen, BakWrite, PruneDir, Prune, TmpOpen, TmpWrite, Rename, Upsert, PutGet,
           Answer
  <2>3. ASSUME NEW w \in Workers, Delete(w) \/ Get(w)
        PROVE  Moves
    <3>1. puts' = puts /\ clock' = clock /\ spoiled' = spoiled
      BY <2>3 DEF Delete, Get, DeleteCard, DeleteDir, DeleteFile, DeleteRow, GetRow, GetFile,
                  Begin, Answer
    <3>2. QED
      BY <1>4, <3>1, SavesAssumption
  <2>4. CASE Crash
    BY <1>4, <2>4, SavesAssumption DEF Crash, At, Rotating
  <2>5. CASE UNCHANGED vars
    BY <1>4, <2>5, SavesAssumption DEF vars
  <2>6. QED
    BY <2>1, <2>2, <2>3, <2>4, <2>5 DEF Next, Put
<1>6. puts' \in Nat /\ clock' \in Nat /\ spoiled' \in Nat /\ clock =< clock'
  BY <1>4, <1>5
<1>7. clock' =< 2 * puts' /\ spoiled' =< puts'
  <2>1. /\ clock' + Cardinality(At(Ticking)') + Cardinality(At({"bakOpen"})') =< 2 * puts'
        /\ spoiled' + Cardinality(At({"bakOpen"} \cup Rotating)') =< puts'
    BY <1>1 DEF Budget
  <2>2. /\ clock' =< clock' + Cardinality(At(Ticking)') + Cardinality(At({"bakOpen"})')
        /\ spoiled' =< spoiled' + Cardinality(At({"bakOpen"} \cup Rotating)')
    <3>1. \A a, b, c \in Nat : a =< a + b + c /\ a =< a + b
      OBVIOUS
    <3>2. QED
      BY <1>3, <1>6, <3>1, Zenon
  <2>3. \A a, b, c \in Int : a =< b /\ b =< c => a =< c
    OBVIOUS
  <2>4. /\ clock' + Cardinality(At(Ticking)') + Cardinality(At({"bakOpen"})') \in Int
        /\ spoiled' + Cardinality(At({"bakOpen"} \cup Rotating)') \in Int
        /\ 2 * puts' \in Int /\ puts' \in Int /\ clock' \in Int /\ spoiled' \in Int
    BY <1>3, <1>6
  <2>5. QED
    BY <2>1, <2>2, <2>3, <2>4, Zenon
<1>8. puts' =< MaxPuts
  BY <1>5
<1>9. \A a, b \in Nat : a =< b => a \in 0 .. b
  OBVIOUS
<1>10. MaxPuts \in Nat
  BY SavesAssumption
<1>11. 2 * puts' \in Nat
  <2>1. \A n \in Nat : 2 * n \in Nat
    OBVIOUS
  <2>2. QED
    BY <1>6, <2>1, Zenon
<1>12. QED
  BY <1>6, <1>7, <1>8, <1>9, <1>10, <1>11, Zenon

\* A time that is read can be a time stamp.
LEMMA ClockStep ==
  ASSUME SavesInv, [Next]_vars, NEW w \in Workers, BakOpen(w) \/ TmpOpen(w)
  PROVE  clock' = clock + 1 /\ clock' \in Stamps
<1>1. /\ puts' \in 0 .. MaxPuts /\ clock' \in 0 .. 2 * puts' /\ clock \in Nat
  BY BoundsStep DEF SavesInv, TypeOK
<1>2. clock' = clock + 1
  BY DEF BakOpen, TmpOpen
<1>3. \A p, m, c \in Nat : p =< m /\ c + 1 =< 2 * p => c + 1 \in 1 .. 2 * m
  OBVIOUS
<1>4. MaxPuts \in Nat
  BY SavesAssumption
<1>5. puts' \in Nat /\ puts' =< MaxPuts /\ clock + 1 =< 2 * puts'
  <2>1. \A m, n \in Int : n \in 0 .. m => n \in Nat /\ n =< m
    OBVIOUS
  <2>2. puts' \in Nat /\ puts' =< MaxPuts
    BY <1>1, <1>4, <2>1
  <2>3. 2 * puts' \in Int /\ clock' \in Int
    BY <2>2, <1>1, <1>2
  <2>4. clock' =< 2 * puts'
    BY <1>1, <2>1, <2>3, Zenon
  <2>5. QED
    BY <1>2, <2>2, <2>4
<1>6. clock + 1 \in 1 .. 2 * MaxPuts
  BY <1>1, <1>3, <1>4, <1>5, Zenon
<1>7. QED
  BY <1>2, <1>6 DEF Stamps

\* The types of the files and the row, and of the history.
LEMMA FileTypes == ASSUME SavesInv, [Next]_vars
  PROVE  /\ card' \in Versions /\ row' \in Contents \cup {NoCard} /\ acked' \in Versions
         /\ baks' \in [Stamps -> Versions] /\ tmps' \in [Stamps -> Versions]
         /\ overlap' \in BOOLEAN
<1> USE SavesAssumption DEF Versions
<1> DEFINE Typed == /\ card \in Versions /\ row \in Contents \cup {NoCard} /\ acked \in Versions
                    /\ baks \in [Stamps -> Versions] /\ tmps \in [Stamps -> Versions]
                    /\ overlap \in BOOLEAN
<1>1. ASSUME NEW w \in Workers, NEW d \in Contents, PutRead(w, d)
     PROVE  Typed'
  BY <1>1 DEF PutRead, Finish, Fail, Begin, Answer, SavesInv, TypeOK, Locals, Putting, Present,
     Written
<1>2. ASSUME NEW w \in Workers, BakOpen(w)
     PROVE  Typed'
  BY <1>2 DEF BakOpen, Finish, Fail, Begin, Answer, SavesInv, TypeOK, Locals, Putting, Present,
     Written
<1>3. ASSUME NEW w \in Workers, BakWrite(w)
     PROVE  Typed'
  BY <1>3 DEF BakWrite, Finish, Fail, Begin, Answer, SavesInv, TypeOK, Locals, Putting, Present,
     Written
<1>4. ASSUME NEW w \in Workers, PruneDir(w)
     PROVE  Typed'
  BY <1>4 DEF PruneDir, Finish, Fail, Begin, Answer, SavesInv, TypeOK, Locals, Putting, Present,
     Written
<1>5. ASSUME NEW w \in Workers, Prune(w)
     PROVE  Typed'
  BY <1>5 DEF Prune, Finish, Fail, Begin, Answer, SavesInv, TypeOK, Locals, Putting, Present,
     Written
<1>6. ASSUME NEW w \in Workers, TmpOpen(w)
     PROVE  Typed'
  BY <1>6 DEF TmpOpen, Finish, Fail, Begin, Answer, SavesInv, TypeOK, Locals, Putting, Present,
     Written
<1>7. ASSUME NEW w \in Workers, TmpWrite(w)
     PROVE  Typed'
  BY <1>7 DEF TmpWrite, Finish, Fail, Begin, Answer, SavesInv, TypeOK, Locals, Putting, Present,
     Written
<1>8. ASSUME NEW w \in Workers, Rename(w)
     PROVE  Typed'
  <2>1. stamp[w] \in Stamps /\ tmps[stamp[w]] \in Versions
    BY <1>8, BoundsStep DEF Rename, SavesInv, TypeOK, Locals, Stamps
  <2>2. card' \in Versions /\ tmps' \in [Stamps -> Versions]
    BY <1>8, <2>1 DEF Rename, SavesInv, TypeOK
  <2>3. QED
    BY <1>8, <2>2 DEF Rename, SavesInv, TypeOK
<1>9. ASSUME NEW w \in Workers, Upsert(w)
     PROVE  Typed'
  BY <1>9 DEF Upsert, Finish, Fail, Begin, Answer, SavesInv, TypeOK, Locals, Putting, Present,
     Written
<1>10. ASSUME NEW w \in Workers, PutGet(w)
     PROVE  Typed'
  BY <1>10 DEF PutGet, Finish, Fail, Begin, Answer, SavesInv, TypeOK, Locals, Putting, Present,
     Written
<1>11. ASSUME NEW w \in Workers, DeleteCard(w)
     PROVE  Typed'
  BY <1>11 DEF DeleteCard, Finish, Fail, Begin, Answer, SavesInv, TypeOK, Locals, Putting, Present,
     Written
<1>12. ASSUME NEW w \in Workers, DeleteDir(w)
     PROVE  Typed'
  BY <1>12 DEF DeleteDir, Finish, Fail, Begin, Answer, SavesInv, TypeOK, Locals, Putting, Present,
     Written
<1>13. ASSUME NEW w \in Workers, DeleteFile(w)
     PROVE  Typed'
  BY <1>13 DEF DeleteFile, Finish, Fail, Begin, Answer, SavesInv, TypeOK, Locals, Putting, Present,
     Written
<1>14. ASSUME NEW w \in Workers, DeleteRow(w)
     PROVE  Typed'
  BY <1>14 DEF DeleteRow, Finish, Fail, Begin, Answer, SavesInv, TypeOK, Locals, Putting, Present,
     Written
<1>15. ASSUME NEW w \in Workers, GetRow(w)
     PROVE  Typed'
  BY <1>15 DEF GetRow, Finish, Fail, Begin, Answer, SavesInv, TypeOK, Locals, Putting, Present,
     Written
<1>16. ASSUME NEW w \in Workers, GetFile(w)
     PROVE  Typed'
  BY <1>16 DEF GetFile, Finish, Fail, Begin, Answer, SavesInv, TypeOK, Locals, Putting, Present,
     Written
<1>17. ASSUME Crash
     PROVE  Typed'
  BY <1>17 DEF Crash, SavesInv, TypeOK
<1>18. CASE UNCHANGED vars
  BY <1>18 DEF vars, SavesInv, TypeOK
<1>19. QED
  BY <1>1, <1>2, <1>3, <1>4, <1>5, <1>6, <1>7, <1>8, <1>9, <1>10, <1>11, <1>12, <1>13, <1>14, <1>15, <1>16, <1>17, <1>18 DEF Next, Put, Delete, Get

\* The types of the requests.
LEMMA RequestTypes == ASSUME SavesInv, [Next]_vars
  PROVE  /\ pc' \in [Workers -> {"idle", "getFile"} \cup Putting \cup Deleting]
         /\ data' \in [Workers -> Contents \cup {NoCard}]
         /\ old' \in [Workers -> Versions]
         /\ stamp' \in [Workers -> 0 .. clock']
         /\ todo' \in [Workers -> SUBSET (1 .. clock')]
<1> DEFINE Typed == /\ pc \in [Workers -> {"idle", "getFile"} \cup Putting \cup Deleting]
                    /\ data \in [Workers -> Contents \cup {NoCard}]
                    /\ old \in [Workers -> Versions]
                    /\ stamp \in [Workers -> 0 .. clock]
                    /\ todo \in [Workers -> SUBSET (1 .. clock)]
<1>0. clock \in Nat /\ clock' \in Nat /\ 0 .. clock \subseteq 0 .. clock'
      /\ 1 .. clock \subseteq 1 .. clock'
  BY BoundsStep DEF SavesInv, TypeOK
<1>1. ASSUME NEW w \in Workers, NEW d \in Contents, PutRead(w, d)
     PROVE  Typed'
  BY <1>1 DEF PutRead, SavesInv, TypeOK, Versions, Putting
<1>2. ASSUME NEW w \in Workers, BakOpen(w)
     PROVE  Typed'
  BY <1>0, <1>2 DEF BakOpen, Finish, Fail, SavesInv, TypeOK, Versions, Putting, Deleting
<1>3. ASSUME NEW w \in Workers, BakWrite(w)
     PROVE  Typed'
  BY <1>0, <1>3 DEF BakWrite, Finish, Fail, SavesInv, TypeOK, Versions, Putting, Deleting
<1>4. ASSUME NEW w \in Workers, PruneDir(w)
     PROVE  Typed'
  <2>1. Excess(Present(baks)) \subseteq 1 .. clock
    BY <1>0 DEF Excess, Present, Stamps, SavesInv, Locals
  <2>2. QED
    BY <1>4, <2>1 DEF PruneDir, SavesInv, TypeOK, Putting
<1>5. ASSUME NEW w \in Workers, Prune(w)
     PROVE  Typed'
  BY <1>0, <1>5 DEF Prune, Finish, Fail, SavesInv, TypeOK, Versions, Putting, Deleting
<1>6. ASSUME NEW w \in Workers, TmpOpen(w)
     PROVE  Typed'
  BY <1>0, <1>6 DEF TmpOpen, Finish, Fail, SavesInv, TypeOK, Versions, Putting, Deleting
<1>7. ASSUME NEW w \in Workers, TmpWrite(w)
     PROVE  Typed'
  BY <1>0, <1>7 DEF TmpWrite, Finish, Fail, SavesInv, TypeOK, Versions, Putting, Deleting
<1>8. ASSUME NEW w \in Workers, Rename(w)
     PROVE  Typed'
  BY <1>0, <1>8 DEF Rename, Finish, Fail, SavesInv, TypeOK, Versions, Putting, Deleting
<1>9. ASSUME NEW w \in Workers, Upsert(w)
     PROVE  Typed'
  BY <1>0, <1>9 DEF Upsert, Finish, Fail, SavesInv, TypeOK, Versions, Putting, Deleting
<1>10. ASSUME NEW w \in Workers, PutGet(w)
     PROVE  Typed'
  BY <1>0, <1>10 DEF PutGet, Finish, Fail, SavesInv, TypeOK, Versions, Putting, Deleting
<1>11. ASSUME NEW w \in Workers, DeleteCard(w)
     PROVE  Typed'
  BY <1>0, <1>11 DEF DeleteCard, Finish, Fail, SavesInv, TypeOK, Versions, Putting, Deleting
<1>12. ASSUME NEW w \in Workers, DeleteDir(w)
     PROVE  Typed'
  <2>1. Present(baks) \cup Present(tmps) \subseteq 1 .. clock
    BY <1>0 DEF Present, Stamps, SavesInv, Locals
  <2>2. QED
    BY <1>12, <2>1 DEF DeleteDir, SavesInv, TypeOK, Deleting
<1>13. ASSUME NEW w \in Workers, DeleteFile(w)
     PROVE  Typed'
  BY <1>0, <1>13 DEF DeleteFile, Finish, Fail, SavesInv, TypeOK, Versions, Putting, Deleting
<1>14. ASSUME NEW w \in Workers, DeleteRow(w)
     PROVE  Typed'
  BY <1>0, <1>14 DEF DeleteRow, Finish, Fail, SavesInv, TypeOK, Versions, Putting, Deleting
<1>15. ASSUME NEW w \in Workers, GetRow(w)
     PROVE  Typed'
  BY <1>0, <1>15 DEF GetRow, Finish, Fail, SavesInv, TypeOK, Versions, Putting, Deleting
<1>16. ASSUME NEW w \in Workers, GetFile(w)
     PROVE  Typed'
  BY <1>0, <1>16 DEF GetFile, Finish, Fail, SavesInv, TypeOK, Versions, Putting, Deleting
<1>17. ASSUME Crash
     PROVE  Typed'
  BY <1>17 DEF Crash, SavesInv, TypeOK, Versions
<1>18. CASE UNCHANGED vars
  BY <1>18 DEF vars, SavesInv, TypeOK
<1>19. QED
  BY <1>1, <1>2, <1>3, <1>4, <1>5, <1>6, <1>7, <1>8, <1>9, <1>10, <1>11, <1>12, <1>13, <1>14, <1>15, <1>16, <1>17, <1>18 DEF Next, Put, Delete, Get

\* Every step keeps the types.
LEMMA TypeStep == ASSUME SavesInv, [Next]_vars PROVE TypeOK'
BY BoundsStep, FileTypes, RequestTypes DEF TypeOK

-----------------------------------------------------------------------------
(* What the requests have in their locals.                                 *)

\* No file bears a time that is still to come.
LEMMA NamesStep ==
  ASSUME SavesInv, [Next]_vars
  PROVE  \A s \in (Present(baks) \cup Present(tmps))' : s =< clock'
<1> USE SavesAssumption
<1> DEFINE Names == \A s \in Present(baks) \cup Present(tmps) : s =< clock
<1>0. clock \in Nat /\ clock' \in Nat /\ clock =< clock' /\ Stamps \subseteq Nat
  BY BoundsStep DEF SavesInv, TypeOK, Stamps
<1>1. ASSUME NEW w \in Workers, NEW d \in Contents, PutRead(w, d)
     PROVE  Names'
  BY <1>0, <1>1 DEF PutRead, SavesInv, TypeOK, Locals, Present
<1>2. ASSUME NEW w \in Workers, BakOpen(w)
     PROVE  Names'
  BY <1>0, <1>2 DEF BakOpen, SavesInv, TypeOK, Locals, Present
<1>3. ASSUME NEW w \in Workers, BakWrite(w)
     PROVE  Names'
  BY <1>0, <1>3 DEF BakWrite, Written, SavesInv, TypeOK, Locals, Present
<1>4. ASSUME NEW w \in Workers, PruneDir(w)
     PROVE  Names'
  BY <1>0, <1>4 DEF PruneDir, SavesInv, TypeOK, Locals, Present
<1>5. ASSUME NEW w \in Workers, Prune(w)
     PROVE  Names'
  BY <1>0, <1>5 DEF Prune, SavesInv, TypeOK, Locals, Present
<1>6. ASSUME NEW w \in Workers, TmpOpen(w)
     PROVE  Names'
  BY <1>0, <1>6 DEF TmpOpen, SavesInv, TypeOK, Locals, Present
<1>7. ASSUME NEW w \in Workers, TmpWrite(w)
     PROVE  Names'
  BY <1>0, <1>7 DEF TmpWrite, Written, SavesInv, TypeOK, Locals, Present
<1>8. ASSUME NEW w \in Workers, Rename(w)
     PROVE  Names'
  BY <1>0, <1>8 DEF Rename, SavesInv, TypeOK, Locals, Present
<1>9. ASSUME NEW w \in Workers, Upsert(w)
     PROVE  Names'
  BY <1>0, <1>9 DEF Upsert, SavesInv, TypeOK, Locals, Present
<1>10. ASSUME NEW w \in Workers, PutGet(w)
     PROVE  Names'
  BY <1>0, <1>10 DEF PutGet, SavesInv, TypeOK, Locals, Present
<1>11. ASSUME NEW w \in Workers, DeleteCard(w)
     PROVE  Names'
  BY <1>0, <1>11 DEF DeleteCard, SavesInv, TypeOK, Locals, Present
<1>12. ASSUME NEW w \in Workers, DeleteDir(w)
     PROVE  Names'
  BY <1>0, <1>12 DEF DeleteDir, SavesInv, TypeOK, Locals, Present
<1>13. ASSUME NEW w \in Workers, DeleteFile(w)
     PROVE  Names'
  BY <1>0, <1>13 DEF DeleteFile, SavesInv, TypeOK, Locals, Present
<1>14. ASSUME NEW w \in Workers, DeleteRow(w)
     PROVE  Names'
  BY <1>0, <1>14 DEF DeleteRow, SavesInv, TypeOK, Locals, Present
<1>15. ASSUME NEW w \in Workers, GetRow(w)
     PROVE  Names'
  BY <1>0, <1>15 DEF GetRow, SavesInv, TypeOK, Locals, Present
<1>16. ASSUME NEW w \in Workers, GetFile(w)
     PROVE  Names'
  BY <1>0, <1>16 DEF GetFile, SavesInv, TypeOK, Locals, Present
<1>17. ASSUME Crash
     PROVE  Names'
  BY <1>17 DEF Crash, SavesInv, TypeOK, Locals, Present
<1>18. CASE UNCHANGED vars
  BY <1>18 DEF vars, SavesInv, TypeOK, Locals, Present
<1>19. QED
  BY <1>1, <1>2, <1>3, <1>4, <1>5, <1>6, <1>7, <1>8, <1>9, <1>10, <1>11, <1>12, <1>13, <1>14, <1>15, <1>16, <1>17, <1>18 DEF Next, Put, Delete, Get

\* Each request's locals fit the statement it is at.
LEMMA LocalsStep ==
  ASSUME SavesInv, [Next]_vars
  PROVE  Locals'
<1> USE SavesAssumption
<1> DEFINE Own(v) ==
             /\ pc[v] \in Putting => data[v] \in Contents
             /\ todo[v] # {} => pc[v] \in {"prune", "delFiles"}
             /\ pc[v] \in {"bakOpen", "bakWrite"} => old[v] \in Contents
             /\ pc[v] \in {"tmpWrite", "rename"} => stamp[v] \in 1 .. clock
             /\ pc[v] = "rename" => tmps[stamp[v]] \in {NoCard, data[v]}
           Distinct(v, u) ==
             pc[u] \in {"tmpWrite", "rename"} /\ pc[v] \in {"tmpWrite", "rename"}
               => stamp[u] # stamp[v]
           Fits == \A v \in Workers : Own(v) /\ \A u \in Workers \ {v} : Distinct(v, u)
<1>0. clock \in Nat /\ clock' \in Nat /\ clock =< clock' /\ 2 * MaxPuts \in Nat
      /\ 1 .. clock \subseteq 1 .. clock' /\ 1 .. clock \subseteq Stamps /\ clock' =< 2 * MaxPuts
  BY BoundsStep DEF SavesInv, TypeOK, Stamps
<1>1. ASSUME NEW w \in Workers, NEW d \in Contents, PutRead(w, d)
     PROVE  Fits'
  BY <1>0, <1>1 DEF PutRead, SavesInv, TypeOK, CardWhole, Versions, Locals, Putting
<1>2. ASSUME NEW w \in Workers, BakOpen(w)
     PROVE  Fits'
  BY <1>0, <1>2 DEF BakOpen, Finish, Fail, SavesInv, TypeOK, Locals, Putting, Deleting
<1>3. ASSUME NEW w \in Workers, BakWrite(w)
     PROVE  Fits'
  BY <1>0, <1>3 DEF BakWrite, Finish, Fail, SavesInv, TypeOK, Locals, Putting, Deleting
<1>4. ASSUME NEW w \in Workers, PruneDir(w)
     PROVE  Fits'
  BY <1>0, <1>4 DEF PruneDir, Finish, Fail, SavesInv, TypeOK, Locals, Putting, Deleting
<1>5. ASSUME NEW w \in Workers, Prune(w)
     PROVE  Fits'
  BY <1>0, <1>5 DEF Prune, Finish, Fail, SavesInv, TypeOK, Locals, Putting, Deleting
<1>6. ASSUME NEW w \in Workers, TmpOpen(w)
     PROVE  Fits'
  BY <1>0, <1>6 DEF TmpOpen, Finish, Fail, SavesInv, TypeOK, Locals, Putting, Deleting
<1>7. ASSUME NEW w \in Workers, TmpWrite(w)
     PROVE  Fits'
  BY <1>0, <1>7 DEF TmpWrite, Written, Present, Finish, Fail, SavesInv, TypeOK, Locals, Putting, Deleting
<1>8. ASSUME NEW w \in Workers, Rename(w)
     PROVE  Fits'
  BY <1>0, <1>8 DEF Rename, Finish, Fail, SavesInv, TypeOK, Locals, Putting, Deleting
<1>9. ASSUME NEW w \in Workers, Upsert(w)
     PROVE  Fits'
  BY <1>0, <1>9 DEF Upsert, Finish, Fail, SavesInv, TypeOK, Locals, Putting, Deleting
<1>10. ASSUME NEW w \in Workers, PutGet(w)
     PROVE  Fits'
  BY <1>0, <1>10 DEF PutGet, Finish, Fail, SavesInv, TypeOK, Locals, Putting, Deleting
<1>11. ASSUME NEW w \in Workers, DeleteCard(w)
     PROVE  Fits'
  BY <1>0, <1>11 DEF DeleteCard, Finish, Fail, SavesInv, TypeOK, Locals, Putting, Deleting
<1>12. ASSUME NEW w \in Workers, DeleteDir(w)
     PROVE  Fits'
  BY <1>0, <1>12 DEF DeleteDir, Finish, Fail, SavesInv, TypeOK, Locals, Putting, Deleting
<1>13. ASSUME NEW w \in Workers, DeleteFile(w)
     PROVE  Fits'
  BY <1>0, <1>13 DEF DeleteFile, Finish, Fail, SavesInv, TypeOK, Locals, Putting, Deleting
<1>14. ASSUME NEW w \in Workers, DeleteRow(w)
     PROVE  Fits'
  BY <1>0, <1>14 DEF DeleteRow, Finish, Fail, SavesInv, TypeOK, Locals, Putting, Deleting
<1>15. ASSUME NEW w \in Workers, GetRow(w)
     PROVE  Fits'
  BY <1>0, <1>15 DEF GetRow, Finish, Fail, SavesInv, TypeOK, Locals, Putting, Deleting
<1>16. ASSUME NEW w \in Workers, GetFile(w)
     PROVE  Fits'
  BY <1>0, <1>16 DEF GetFile, Finish, Fail, SavesInv, TypeOK, Locals, Putting, Deleting
<1>17. ASSUME Crash
     PROVE  Fits'
  BY <1>17 DEF Crash, SavesInv, TypeOK, Locals, Putting, Deleting
<1>18. ASSUME UNCHANGED vars
     PROVE  Fits'
  BY <1>18 DEF vars, SavesInv, Locals
<1>19. Fits'
  BY <1>1, <1>2, <1>3, <1>4, <1>5, <1>6, <1>7, <1>8, <1>9, <1>10, <1>11, <1>12, <1>13, <1>14, <1>15, <1>16, <1>17, <1>18 DEF Next, Put, Delete, Get
<1>20. QED
  BY <1>19, NamesStep DEF Locals

-----------------------------------------------------------------------------
(* How the backups change.                                                 *)

\* A part of a finite set is no larger.
LEMMA Smaller ==
  ASSUME NEW B, IsFiniteSet(B), NEW A \in SUBSET B
  PROVE  /\ IsFiniteSet(A)
         /\ Cardinality(A) \in Nat /\ Cardinality(B) \in Nat
         /\ Cardinality(A) =< Cardinality(B)
BY FS_Subset, FS_CardinalityType

\* The backups are finitely many numbers.
LEMMA Finite ==
  /\ Stamps \subseteq Nat /\ IsFiniteSet(Stamps)
  /\ IsFiniteSet(Present(baks)) /\ Present(baks) \subseteq Nat
  /\ IsFiniteSet(Present(baks)') /\ Present(baks)' \subseteq Nat
<1>1. 2 * MaxPuts \in Int
  BY SavesAssumption
<1>2. IsFiniteSet(Stamps)
  BY <1>1, FS_Interval DEF Stamps
<1>3. Stamps \subseteq Nat
  BY DEF Stamps
<1>4. Present(baks) \in SUBSET Stamps /\ Present(baks)' \in SUBSET Stamps
  BY DEF Present
<1>5. QED
  BY <1>2, <1>3, <1>4, Smaller

\* What Excess leaves is no more than BackupsKept: its oldest has all the others
\* above it.
LEMMA ExcessLeaves ==
  ASSUME NEW P \in SUBSET Nat, IsFiniteSet(P)
  PROVE  /\ IsFiniteSet(P \ Excess(P))
         /\ Cardinality(P \ Excess(P)) \in Nat
         /\ Cardinality(P \ Excess(P)) =< BackupsKept
<1> DEFINE L == P \ Excess(P)
<1>1. BackupsKept \in Nat \ {0}
  BY SavesAssumption
<1>2. IsFiniteSet(L) /\ Cardinality(L) \in Nat
  BY Smaller
<1>3. CASE L = {}
  BY <1>1, <1>2, <1>3, FS_EmptySet
<1>4. CASE L # {}
  <2>1. PICK m \in L : \A n \in L : m =< n
    BY <1>4, LeastNat
  <2>2. L \in SUBSET Nat /\ m \in Nat
    OBVIOUS
  <2>3. \A n \in L \ {m} : n > m
    BY <2>1, <2>2
  <2>4. L \ {m} \in SUBSET {t \in P : t > m}
    BY <2>3
  <2>5. {t \in P : t > m} \in SUBSET P
    OBVIOUS
  <2>6. /\ Cardinality({t \in P : t > m}) \in Nat
        /\ Cardinality(L \ {m}) =< Cardinality({t \in P : t > m})
    BY <2>4, <2>5, Smaller
  <2>7. ~ (Cardinality({t \in P : t > m}) >= BackupsKept)
    BY <2>1 DEF Excess
  <2>8. Cardinality(L \ {m}) = Cardinality(L) - 1
    BY <1>2, <2>1, FS_RemoveElement
  <2>9. Cardinality(L) =< BackupsKept
    BY <1>1, <1>2, <2>6, <2>7, <2>8
  <2>10. QED
    BY <1>2, <2>9
<1>5. QED
  BY <1>3, <1>4

\* Request w removes file b: a backup only if it is the oldest.
Removes(w, b) ==
  /\ todo' = [todo EXCEPT ![w] = @ \ {b}]
  /\ pc' = pc /\ card' = card /\ spoiled' = spoiled
  /\ Present(baks)' = Present(baks) \ {b}
  /\ b \in todo[w]
  /\ b \in Present(baks) => \A t \in Present(baks) : b =< t

\* pruneBackups removes the oldest file on its list.
LEMMA PruneRemoves ==
  ASSUME SavesInv, NEW w \in Workers, Prune(w), todo[w] # {}
  PROVE  Removes(w, Min(todo[w]))
<1>1. todo[w] \in SUBSET Nat
  BY DEF SavesInv, TypeOK
<1>2. Min(todo[w]) \in todo[w] /\ \A n \in todo[w] : Min(todo[w]) =< n
  BY <1>1, MinIsLeast
<1> DEFINE b == Min(todo[w])
<1> HIDE DEF b
<1>3. b \in todo[w] /\ \A n \in todo[w] : b =< n
  BY <1>2 DEF b
<1>4. /\ todo' = [todo EXCEPT ![w] = @ \ {b}]
      /\ pc' = pc /\ card' = card /\ spoiled' = spoiled
      /\ baks' = [baks EXCEPT ![b] = NoCard]
  BY DEF Prune, b
<1>5. Present(baks)' = Present(baks) \ {b}
  BY <1>4 DEF Present, SavesInv, TypeOK
<1>6. ASSUME b \in Present(baks), NEW t \in Present(baks)
      PROVE  b =< t
  <2>1. t < b => t \in todo[w]
    BY <1>3, <1>6 DEF SavesInv, OldestFirst
  <2>2. b \in Nat /\ t \in Nat
    BY <1>6, Finite
  <2>3. QED
    BY <1>3, <2>1, <2>2
<1>7. Removes(w, b)
  BY <1>3, <1>4, <1>5, <1>6 DEF Removes
<1>8. QED
  BY <1>7 DEF b

\* Delete removes in the order of the names: no backup before an older one.
LEMMA DeleteRemoves ==
  ASSUME SavesInv, NEW w \in Workers, DeleteFile(w)
  PROVE  Removes(w, FirstByName(todo[w]))
<1> DEFINE b == FirstByName(todo[w])
           named == todo[w] \cap Present(baks)
<1>1. todo[w] \in SUBSET Nat /\ todo[w] # {} /\ named \in SUBSET Nat
  BY DEF DeleteFile, SavesInv, TypeOK
<1>2. b \in todo[w] /\ (b \in Present(baks) => \A n \in named : b =< n)
  <2>1. CASE named # {}
    <3>1. b = Min(named)
      BY <2>1 DEF FirstByName
    <3>2. QED
      BY <1>1, <2>1, <3>1, MinIsLeast
  <2>2. CASE named = {}
    <3>1. b = Min(todo[w])
      BY <2>2 DEF FirstByName
    <3>2. QED
      BY <1>1, <2>2, <3>1, MinIsLeast
  <2>3. QED
    BY <2>1, <2>2
<1>3. /\ todo' = [todo EXCEPT ![w] = @ \ {b}]
      /\ pc' = pc /\ card' = card /\ spoiled' = spoiled
      /\ baks' = [baks EXCEPT ![b] = NoCard]
  BY DEF DeleteFile
<1> HIDE DEF b
<1>4. Present(baks)' = Present(baks) \ {b}
  BY <1>3 DEF Present, SavesInv, TypeOK
<1>5. ASSUME b \in Present(baks), NEW t \in Present(baks)
      PROVE  b =< t
  <2>1. t < b => t \in todo[w]
    BY <1>2, <1>5 DEF SavesInv, OldestFirst
  <2>2. b \in Nat /\ t \in Nat
    BY <1>5, Finite
  <2>3. QED
    BY <1>2, <1>5, <2>1, <2>2
<1>6. Removes(w, b)
  BY <1>2, <1>3, <1>4, <1>5 DEF Removes
<1>7. QED
  BY <1>6 DEF b

\* A step that leaves the backups and the loops over them as they are, but for
\* the loops that end.
Quiet ==
  /\ Present(baks)' = Present(baks)
  /\ \A v \in Workers :
       /\ todo'[v] \in {todo[v], {}}
       /\ pc'[v] = "prune" => pc[v] = "prune" /\ todo'[v] = todo[v]

\* The listings that succeed.
PruneLists(w) ==
  /\ pc[w] = "pruneDir" /\ pc' = [pc EXCEPT ![w] = "prune"]
  /\ todo' = [todo EXCEPT ![w] = Excess(Present(baks))]
  /\ UNCHANGED <<baks, spoiled>>

DeleteLists(w) ==
  /\ pc[w] = "delDir" /\ pc' = [pc EXCEPT ![w] = "delFiles"]
  /\ todo' = [todo EXCEPT ![w] = Present(baks) \cup Present(tmps)]
  /\ UNCHANGED baks

\* The steps that do not.
LEMMA Kinds ==
  ASSUME SavesInv, [Next]_vars
  PROVE  \/ Quiet
         \/ \E w \in Workers : /\ pc[w] = "bakOpen"
                               /\ Present(baks)' = Present(baks) \cup {clock'}
                               /\ clock' = clock + 1
                               /\ todo' = todo /\ pc' = [pc EXCEPT ![w] = "bakWrite"]
         \/ \E w \in Workers : PruneLists(w)
         \/ \E w \in Workers : DeleteLists(w)
         \/ \E w \in Workers : \E b \in todo[w] : Removes(w, b)
<1> USE SavesAssumption
<1> DEFINE Opens(w) == /\ pc[w] = "bakOpen"
                       /\ Present(baks)' = Present(baks) \cup {clock'}
                       /\ clock' = clock + 1
                       /\ todo' = todo /\ pc' = [pc EXCEPT ![w] = "bakWrite"]
<1>1. ASSUME NEW w \in Workers, NEW d \in Contents, PutRead(w, d)
      PROVE  Quiet
  BY <1>1 DEF PutRead, Quiet, Present, SavesInv, TypeOK
<1>2. ASSUME NEW w \in Workers, BakOpen(w)
      PROVE  Quiet \/ Opens(w)
  <2>1. clock' \in Stamps
    BY <1>2, ClockStep
  <2>2. CASE baks' = [baks EXCEPT ![clock'] = Torn] /\ Goto(w, "bakWrite") /\ UNCHANGED todo
    <3>1. Present(baks)' = Present(baks) \cup {clock'}
      BY <2>1, <2>2 DEF Present, SavesInv, TypeOK
    <3>2. QED
      BY <1>2, <2>2, <3>1 DEF BakOpen
  <2>3. CASE Finish(w) /\ UNCHANGED baks
    BY <2>3 DEF Finish, Quiet, SavesInv, TypeOK
  <2>4. QED
    BY <1>2, <2>2, <2>3 DEF BakOpen, Fail
<1>3. ASSUME NEW w \in Workers, BakWrite(w)
      PROVE  Quiet
  <2>1. Present(baks)' = Present(baks)
    BY <1>3 DEF BakWrite, Written, Present, SavesInv, TypeOK, Locals
  <2>2. QED
    BY <1>3, <2>1 DEF BakWrite, Fail, Finish, Quiet, SavesInv, TypeOK
<1>4. ASSUME NEW w \in Workers, Prune(w), todo[w] = {}
      PROVE  Quiet
  BY <1>4 DEF Prune, Quiet, Present, SavesInv, TypeOK
<1>5. ASSUME NEW w \in Workers,
             TmpOpen(w) \/ TmpWrite(w) \/ Rename(w) \/ Upsert(w) \/ PutGet(w)
      PROVE  Quiet
  BY <1>5 DEF TmpOpen, TmpWrite, Rename, Upsert, PutGet, Fail, Finish, Quiet, SavesInv, TypeOK
<1>6. ASSUME NEW w \in Workers, DeleteCard(w) \/ DeleteRow(w) \/ Get(w)
      PROVE  Quiet
  BY <1>6 DEF DeleteCard, DeleteRow, Get, GetRow, GetFile, Finish, Quiet, SavesInv, TypeOK
<1>7. ASSUME NEW w \in Workers, (Prune(w) /\ todo[w] # {}) \/ DeleteFile(w)
      PROVE  \E b \in todo[w] : Removes(w, b)
  BY <1>7, PruneRemoves, DeleteRemoves DEF Removes
<1>8. ASSUME Crash
      PROVE  Quiet
  BY <1>8 DEF Crash, Quiet, SavesInv, TypeOK
<1>9. ASSUME UNCHANGED vars
      PROVE  Quiet
  BY <1>9 DEF vars, Quiet
<1>10. ASSUME NEW w \in Workers, PruneDir(w)
       PROVE  Quiet \/ PruneLists(w)
  <2>1. CASE Goto(w, "tmpOpen") /\ UNCHANGED todo
    BY <1>10, <2>1 DEF PruneDir, Quiet, Present, SavesInv, TypeOK
  <2>2. QED
    BY <1>10, <2>1 DEF PruneDir, PruneLists
<1>11. ASSUME NEW w \in Workers, DeleteDir(w)
       PROVE  Quiet \/ DeleteLists(w)
  <2>1. CASE Goto(w, "delRow") /\ UNCHANGED todo
    BY <1>11, <2>1 DEF DeleteDir, Quiet, Present, SavesInv, TypeOK
  <2>2. QED
    BY <1>11, <2>1 DEF DeleteDir, DeleteLists
<1>12. QED
  BY <1>1, <1>2, <1>3, <1>4, <1>5, <1>6, <1>7, <1>8, <1>9, <1>10, <1>11 DEF Next, Put, Delete

\* Loops have removed the older backups before they remove one.
LEMMA OldestFirstStep == ASSUME SavesInv, [Next]_vars PROVE OldestFirst'
<1> USE DEF OldestFirst
<1>0. OldestFirst /\ todo \in [Workers -> SUBSET (1 .. clock)] /\ clock \in Nat
      /\ Present(baks) \subseteq Nat
  BY Finite DEF SavesInv, TypeOK
<1>1. CASE Quiet
  BY <1>0, <1>1 DEF Quiet
<1>2. ASSUME NEW w \in Workers, Present(baks)' = Present(baks) \cup {clock'},
             clock' = clock + 1, todo' = todo
      PROVE  OldestFirst'
  <2> SUFFICES ASSUME NEW v \in Workers, NEW s \in Present(baks)', NEW t \in Present(baks)',
                      s < t, t \in todo'[v]
               PROVE  s \in todo'[v]
    OBVIOUS
  <2>1. t \in 1 .. clock /\ s \in Nat
    BY <1>0, <1>2
  <2>2. s # clock' /\ t # clock'
    BY <1>0, <1>2, <2>1
  <2>3. QED
    BY <1>0, <1>2, <2>2
<1>3. ASSUME NEW w \in Workers, PruneLists(w)
      PROVE  OldestFirst'
  <2>1. todo' = [todo EXCEPT ![w] = Excess(Present(baks))] /\ Present(baks)' = Present(baks)
    BY <1>3 DEF PruneLists, Present
  <2>2. ASSUME NEW s \in Present(baks), NEW t \in Present(baks), s < t,
               t \in Excess(Present(baks))
        PROVE  s \in Excess(Present(baks))
    <3>1. Newer(t) \in SUBSET Newer(s) /\ Newer(s) \in SUBSET Present(baks)
      BY <1>0, <2>2 DEF Newer
    <3>2. /\ Cardinality(Newer(t)) \in Nat /\ Cardinality(Newer(s)) \in Nat
          /\ Cardinality(Newer(t)) =< Cardinality(Newer(s))
      BY <3>1, Smaller, Finite
    <3>3. Cardinality(Newer(t)) >= BackupsKept
      BY <2>2 DEF Excess, Newer
    <3>4. Cardinality(Newer(s)) >= BackupsKept
      BY <3>2, <3>3, SavesAssumption
    <3>5. QED
      BY <3>4 DEF Excess, Newer
  <2>3. QED
    BY <1>0, <2>1, <2>2
<1>4. ASSUME NEW w \in Workers, DeleteLists(w)
      PROVE  OldestFirst'
  <2>1. todo' = [todo EXCEPT ![w] = Present(baks) \cup Present(tmps)]
        /\ Present(baks)' = Present(baks)
    BY <1>4 DEF DeleteLists, Present
  <2>2. QED
    BY <1>0, <2>1
<1>5. ASSUME NEW w \in Workers, NEW b \in todo[w], Removes(w, b)
      PROVE  OldestFirst'
  BY <1>0, <1>5 DEF Removes
<1>6. QED
  BY <1>1, <1>2, <1>3, <1>4, <1>5, Kinds

\* A backup that is about to be pruned keeps its newer ones: whatever is removed
\* is older.
LEMMA PruneSparesStep == ASSUME SavesInv, [Next]_vars PROVE PruneSpares'
<1>0. /\ PruneSpares /\ todo \in [Workers -> SUBSET (1 .. clock)] /\ clock \in Nat
      /\ Present(baks) \subseteq Nat
      /\ pc \in [Workers -> {"idle", "getFile"} \cup Putting \cup Deleting]
  BY Finite DEF SavesInv, TypeOK
<1>1. CASE Quiet
  BY <1>0, <1>1 DEF Quiet, PruneSpares, Newer
<1>2. ASSUME NEW w \in Workers, pc[w] = "bakOpen",
             Present(baks)' = Present(baks) \cup {clock'},
             clock' = clock + 1, todo' = todo, pc' = [pc EXCEPT ![w] = "bakWrite"]
      PROVE  PruneSpares'
  <2> SUFFICES ASSUME NEW v \in Workers, pc'[v] = "prune",
                      NEW s \in todo'[v] \cap Present(baks)'
               PROVE  Cardinality(Newer(s)') >= BackupsKept
    BY DEF PruneSpares
  <2>1. s \in Present(baks) /\ s \in todo[v] /\ pc[v] = "prune"
    BY <1>0, <1>2
  <2>2. Cardinality(Newer(s)) >= BackupsKept
    BY <1>0, <2>1 DEF PruneSpares
  <2>3. Newer(s) \in SUBSET Newer(s)' /\ Newer(s)' \in SUBSET Present(baks)'
    BY <1>2 DEF Newer
  <2>4. IsFiniteSet(Newer(s)')
    BY <2>3, Smaller, Finite
  <2>5. /\ Cardinality(Newer(s)) \in Nat /\ Cardinality(Newer(s)') \in Nat
        /\ Cardinality(Newer(s)) =< Cardinality(Newer(s)')
    BY <2>3, <2>4, Smaller
  <2>6. QED
    BY <2>2, <2>5, SavesAssumption
<1>3. ASSUME NEW w \in Workers, PruneLists(w)
      PROVE  PruneSpares'
  <2>1. /\ todo' = [todo EXCEPT ![w] = Excess(Present(baks))] /\ Present(baks)' = Present(baks)
        /\ pc' = [pc EXCEPT ![w] = "prune"]
    BY <1>3 DEF PruneLists, Present
  <2>2. \A s : Newer(s)' = Newer(s)
    BY <2>1 DEF Newer
  <2>3. \A s \in Excess(Present(baks)) : Cardinality(Newer(s)) >= BackupsKept
    BY DEF Excess, Newer
  <2>4. QED
    BY <1>0, <2>1, <2>2, <2>3 DEF PruneSpares
<1>4. ASSUME NEW w \in Workers, DeleteLists(w)
      PROVE  PruneSpares'
  <2>1. /\ todo' = [todo EXCEPT ![w] = Present(baks) \cup Present(tmps)]
        /\ Present(baks)' = Present(baks)
        /\ pc' = [pc EXCEPT ![w] = "delFiles"]
    BY <1>4 DEF DeleteLists, Present
  <2>2. \A s : Newer(s)' = Newer(s)
    BY <2>1 DEF Newer
  <2>3. QED
    BY <1>0, <2>1, <2>2 DEF PruneSpares
<1>5. ASSUME NEW w \in Workers, NEW b \in todo[w], Removes(w, b)
      PROVE  PruneSpares'
  <2> SUFFICES ASSUME NEW v \in Workers, pc'[v] = "prune",
                      NEW s \in todo'[v] \cap Present(baks)'
               PROVE  Cardinality(Newer(s)') >= BackupsKept
    BY DEF PruneSpares
  <2>1. s \in Present(baks) /\ s \in todo[v] /\ pc[v] = "prune" /\ s # b
    BY <1>0, <1>5 DEF Removes
  <2>2. b \in Present(baks) => b < s
    BY <1>0, <1>5, <2>1 DEF Removes
  <2>3. Newer(s)' = Newer(s)
    BY <1>0, <1>5, <2>1, <2>2 DEF Removes, Newer
  <2>4. QED
    BY <1>0, <2>1, <2>3 DEF PruneSpares
<1>6. QED
  BY <1>1, <1>2, <1>3, <1>4, <1>5, Kinds

\* The steps that change the card or the row.
LEMMA CardSteps ==
  ASSUME [Next]_vars
  PROVE  \/ UNCHANGED <<card, row>>
         \/ \E w \in Workers : Rename(w) \/ Upsert(w) \/ DeleteCard(w) \/ DeleteRow(w)
<1>1. ASSUME NEW w \in Workers, NEW d \in Contents, PutRead(w, d)
      PROVE  UNCHANGED <<card, row>>
  BY <1>1 DEF PutRead
<1>2. ASSUME NEW w \in Workers,
             BakOpen(w) \/ BakWrite(w) \/ PruneDir(w) \/ Prune(w) \/ TmpOpen(w)
               \/ TmpWrite(w) \/ PutGet(w)
      PROVE  UNCHANGED <<card, row>>
  BY <1>2 DEF BakOpen, BakWrite, PruneDir, Prune, TmpOpen, TmpWrite, PutGet
<1>3. ASSUME NEW w \in Workers, DeleteDir(w) \/ DeleteFile(w) \/ Get(w)
      PROVE  UNCHANGED <<card, row>>
  BY <1>3 DEF DeleteDir, DeleteFile, Get, GetRow, GetFile
<1>4. CASE Crash
  BY <1>4 DEF Crash
<1>5. CASE UNCHANGED vars
  BY <1>5 DEF vars
<1>6. QED
  BY <1>1, <1>2, <1>3, <1>4, <1>5 DEF Next, Put, Delete

\* Only a temporary file that has been written becomes the card.
LEMMA WholeStep == ASSUME SavesInv, [Next]_vars PROVE CardWhole'
<1> USE SavesAssumption DEF CardWhole
<1>1. ASSUME NEW w \in Workers, Rename(w)
      PROVE  CardWhole'
  BY <1>1 DEF Rename, Present, SavesInv, Locals, Putting
<1>2. ASSUME NEW w \in Workers, DeleteCard(w)
      PROVE  CardWhole'
  BY <1>2 DEF DeleteCard
<1>3. ASSUME NEW w \in Workers, Upsert(w) \/ DeleteRow(w)
      PROVE  CardWhole'
  BY <1>3 DEF Upsert, DeleteRow, SavesInv
<1>4. CASE card' = card
  BY <1>4 DEF SavesInv
<1>5. QED
  BY <1>1, <1>2, <1>3, <1>4, CardSteps

-----------------------------------------------------------------------------
(* How many backups are left.                                              *)

\* The sets that Pruned compares are finite.
LEMMA Counts ==
  ASSUME SavesInv, NEW W
  PROVE  /\ IsFiniteSet(Left(W)) /\ Cardinality(Left(W)) \in Nat
         /\ IsFiniteSet(Left(W)') /\ Cardinality(Left(W)') \in Nat
         /\ IsFiniteSet(At(Rotating) \ W) /\ Cardinality(At(Rotating) \ W) \in Nat
         /\ spoiled \in Nat /\ BackupsKept \in Nat
<1>1. Left(W) \in SUBSET Present(baks) /\ Left(W)' \in SUBSET Present(baks)'
  BY DEF Left
<1>2. IsFiniteSet(At(Rotating)) /\ At(Rotating) \ W \in SUBSET At(Rotating)
  BY PuttingFinite DEF SavesInv, Budget, Putting, Rotating
<1>3. spoiled \in Nat /\ BackupsKept \in Nat
  BY SavesAssumption DEF SavesInv, TypeOK
<1>4. QED
  BY <1>1, <1>2, <1>3, Finite, Smaller

\* A step that makes no backup, ends no rotation and forgets no file that is to
\* be pruned.
Calm ==
  /\ At(Rotating)' = At(Rotating) /\ At({"prune"})' \subseteq At({"prune"})
  /\ spoiled' = spoiled /\ Present(baks)' \subseteq Present(baks)
  /\ \A v \in Workers :
       pc'[v] = "prune" => \A s \in Present(baks)' : s \in todo[v] => s \in todo'[v]

\* Steps that add no backup and end no rotation.
LEMMA CalmKeeps ==
  ASSUME SavesInv, Calm
  PROVE  Pruned'
<1> SUFFICES ASSUME NEW W \in SUBSET At({"prune"})'
             PROVE  Cardinality(Left(W)') =<
                      BackupsKept + spoiled' + Cardinality(At(Rotating)' \ W)
  BY DEF Pruned
<1>1. W \in SUBSET At({"prune"}) /\ \A w \in W : w \in Workers /\ pc'[w] = "prune"
  BY DEF Calm, At
<1>2. Left(W)' \in SUBSET Left(W)
  BY <1>1 DEF Calm, Left
<1>3. Cardinality(Left(W)') =< Cardinality(Left(W))
  BY <1>2, Counts, Smaller
<1>4. Cardinality(Left(W)) =< BackupsKept + spoiled + Cardinality(At(Rotating) \ W)
  BY <1>1 DEF SavesInv, Pruned
<1>5. At(Rotating)' \ W = At(Rotating) \ W /\ spoiled' = spoiled
  BY DEF Calm
<1>6. /\ Cardinality(Left(W)) \in Nat /\ Cardinality(Left(W)') \in Nat
      /\ Cardinality(At(Rotating) \ W) \in Nat /\ spoiled \in Nat /\ BackupsKept \in Nat
  BY Counts
<1>7. Cardinality(Left(W)') =< BackupsKept + spoiled + Cardinality(At(Rotating) \ W)
  BY <1>3, <1>4, <1>6
<1>8. QED
  BY <1>5, <1>7

\* A new backup comes with a rotation that has not pruned yet.
LEMMA OpenKeeps ==
  ASSUME SavesInv, NEW w \in Workers, pc[w] = "bakOpen", pc' = [pc EXCEPT ![w] = "bakWrite"],
         Present(baks)' = Present(baks) \cup {clock'}, todo' = todo, spoiled' = spoiled
  PROVE  Pruned'
<1> SUFFICES ASSUME NEW W \in SUBSET At({"prune"})'
             PROVE  Cardinality(Left(W)') =<
                      BackupsKept + spoiled' + Cardinality(At(Rotating)' \ W)
  BY DEF Pruned
<1> DEFINE c == Cardinality(Left(W))
           d == Cardinality(Left(W)')
           q == Cardinality(At(Rotating) \ W)
           r == Cardinality(At(Rotating)' \ W)
<1>1. W \in SUBSET At({"prune"}) /\ w \notin W /\ w \notin At(Rotating)
  BY DEF At, Rotating, SavesInv, TypeOK
<1>2. At(Rotating)' \ W = (At(Rotating) \ W) \cup {w}
  BY <1>1 DEF At, Rotating, SavesInv, TypeOK
<1>3. q \in Nat /\ r = q + 1
  BY <1>1, <1>2, Counts, FS_AddElement
<1>4. Left(W)' \in SUBSET (Left(W) \cup {clock'})
  BY DEF Left
<1>5. IsFiniteSet(Left(W) \cup {clock'}) /\ Cardinality(Left(W) \cup {clock'}) =< c + 1
      /\ Cardinality(Left(W) \cup {clock'}) \in Nat
  <2>1. IsFiniteSet(Left(W)) /\ c \in Nat
    BY Counts
  <2>2. /\ IsFiniteSet(Left(W) \cup {clock'})
        /\ Cardinality(Left(W) \cup {clock'}) =
             IF clock' \in Left(W) THEN c ELSE c + 1
    BY <2>1, FS_AddElement
  <2>3. QED
    BY <2>1, <2>2
<1>6. d =< Cardinality(Left(W) \cup {clock'})
  BY <1>4, <1>5, Smaller
<1>7. c =< BackupsKept + spoiled + q
  BY <1>1 DEF SavesInv, Pruned
<1>8. c \in Nat /\ d \in Nat /\ BackupsKept \in Nat /\ spoiled \in Nat
  BY Counts
<1> HIDE DEF c, d, q, r
<1>9. d =< BackupsKept + spoiled + r
  BY <1>3, <1>5, <1>6, <1>7, <1>8
<1>10. QED
  BY <1>9 DEF d, r

\* A rotation that fails before it has pruned is spoiled.
LEMMA SpoiltKeeps ==
  ASSUME SavesInv, NEW w \in Workers, pc[w] \in {"bakWrite", "pruneDir"},
         NEW label \in {"idle", "tmpOpen"}, pc' = [pc EXCEPT ![w] = label],
         baks' = baks, todo' \in {todo, [todo EXCEPT ![w] = {}]}, spoiled' = spoiled + 1
  PROVE  Pruned'
<1> SUFFICES ASSUME NEW W \in SUBSET At({"prune"})'
             PROVE  Cardinality(Left(W)') =<
                      BackupsKept + spoiled' + Cardinality(At(Rotating)' \ W)
  BY DEF Pruned
<1> DEFINE c == Cardinality(Left(W))
           q == Cardinality(At(Rotating) \ W)
           r == Cardinality(At(Rotating)' \ W)
<1>1. W \in SUBSET At({"prune"}) /\ w \notin W /\ w \in At(Rotating) \ W
  BY DEF At, Rotating, SavesInv, TypeOK
<1>2. At(Rotating)' \ W = (At(Rotating) \ W) \ {w}
  BY <1>1 DEF At, Rotating, SavesInv, TypeOK
<1>3. q \in Nat /\ r = q - 1
  BY <1>1, <1>2, Counts, FS_RemoveElement
<1>4. Left(W)' = Left(W)
  BY <1>1 DEF Left, Present, At, SavesInv, TypeOK
<1>5. c =< BackupsKept + spoiled + q
  BY <1>1 DEF SavesInv, Pruned
<1>6. c \in Nat /\ BackupsKept \in Nat /\ spoiled \in Nat
  BY Counts
<1> HIDE DEF c, q, r
<1>7. c =< BackupsKept + (spoiled + 1) + r
  BY <1>3, <1>5, <1>6
<1>8. QED
  BY <1>4, <1>7 DEF c, r

\* What is left after a request has listed the files to remove is no more than
\* BackupsKept.
LEMMA ListedKeeps ==
  ASSUME SavesInv, NEW w \in Workers, PruneLists(w)
  PROVE  Pruned'
<1> SUFFICES ASSUME NEW W \in SUBSET At({"prune"})'
             PROVE  Cardinality(Left(W)') =<
                      BackupsKept + spoiled' + Cardinality(At(Rotating)' \ W)
  BY DEF Pruned
<1>1. /\ pc[w] = "pruneDir" /\ pc' = [pc EXCEPT ![w] = "prune"] /\ spoiled' = spoiled
      /\ todo' = [todo EXCEPT ![w] = Excess(Present(baks))]
      /\ Present(baks)' = Present(baks)
  BY DEF PruneLists, Present
<1>2. At(Rotating)' = At(Rotating)
  BY <1>1 DEF At, Rotating, SavesInv, TypeOK
<1>3. Cardinality(Left(W)') =< BackupsKept + spoiled + Cardinality(At(Rotating) \ W)
  <2>1. CASE w \in W
    <3>1. Left(W)' \in SUBSET (Present(baks) \ Excess(Present(baks)))
      BY <1>1, <2>1 DEF Left, SavesInv, TypeOK
    <3>2. Present(baks) \in SUBSET Nat /\ IsFiniteSet(Present(baks))
      BY Finite
    <3>3. /\ Cardinality(Left(W)') =< Cardinality(Present(baks) \ Excess(Present(baks)))
          /\ Cardinality(Present(baks) \ Excess(Present(baks))) \in Nat
          /\ Cardinality(Present(baks) \ Excess(Present(baks))) =< BackupsKept
      BY <3>1, <3>2, ExcessLeaves, Smaller
    <3>4. QED
      BY <3>3, Counts
  <2>2. CASE w \notin W
    <3>1. W \in SUBSET At({"prune"})
      BY <1>1, <2>2 DEF At, SavesInv, TypeOK
    <3>2. Left(W)' = Left(W)
      BY <1>1, <2>2, <3>1 DEF Left, At, SavesInv, TypeOK
    <3>3. QED
      BY <3>1, <3>2 DEF SavesInv, Pruned
  <2>3. QED
    BY <2>1, <2>2
<1>4. QED
  BY <1>1, <1>2, <1>3

\* A request that has removed its list leaves the bound to the others: its list
\* is empty.
LEMMA PrunedKeeps ==
  ASSUME SavesInv, NEW w \in Workers, Prune(w), todo[w] = {}
  PROVE  Pruned'
<1> SUFFICES ASSUME NEW W \in SUBSET At({"prune"})'
             PROVE  Cardinality(Left(W)') =<
                      BackupsKept + spoiled' + Cardinality(At(Rotating)' \ W)
  BY DEF Pruned
<1>1. /\ pc[w] = "prune" /\ pc' = [pc EXCEPT ![w] = "tmpOpen"]
      /\ spoiled' = (IF overlap THEN spoiled ELSE 0)
      /\ todo' = todo /\ Present(baks)' = Present(baks)
  BY DEF Prune, Present
<1>2. W \cup {w} \in SUBSET At({"prune"}) /\ w \notin W /\ W \in SUBSET At({"prune"})
  BY <1>1 DEF At, SavesInv, TypeOK
<1>3. At(Rotating)' \ W = At(Rotating) \ (W \cup {w})
  BY <1>1, <1>2 DEF At, Rotating, SavesInv, TypeOK
<1>4. Left(W)' = Left(W \cup {w})
  BY <1>1 DEF Left
<1>5. Cardinality(Left(W \cup {w})) =<
        BackupsKept + spoiled + Cardinality(At(Rotating) \ (W \cup {w}))
  BY <1>2 DEF SavesInv, Pruned
<1>6. CASE overlap
  BY <1>1, <1>3, <1>4, <1>5, <1>6
<1>7. CASE ~overlap
  <2>1. w \in At(Putting \cup Deleting)
    BY <1>1 DEF At, Putting
  <2>2. At(Putting \cup Deleting) = {w} /\ PutAlone(w)
    BY <1>7, <2>1 DEF SavesInv, Alone
  <2>3. Cardinality(Present(baks) \ todo[w]) =< BackupsKept
    BY <1>1, <2>2 DEF PutAlone
  <2>4. Left(W \cup {w}) \in SUBSET (Present(baks) \ todo[w])
        /\ IsFiniteSet(Present(baks) \ todo[w])
    BY Finite, Smaller DEF Left
  <2>5. Cardinality(Left(W \cup {w})) =< Cardinality(Present(baks) \ todo[w])
        /\ Cardinality(Present(baks) \ todo[w]) \in Nat
    BY <2>4, Smaller
  <2>6. /\ Cardinality(Left(W \cup {w})) \in Nat
        /\ Cardinality(At(Rotating) \ (W \cup {w})) \in Nat /\ BackupsKept \in Nat
    BY Counts
  <2>7. Cardinality(Left(W \cup {w})) =<
          BackupsKept + 0 + Cardinality(At(Rotating) \ (W \cup {w}))
    BY <2>3, <2>5, <2>6
  <2>8. QED
    BY <1>1, <1>3, <1>4, <1>7, <2>7
<1>8. QED
  BY <1>6, <1>7 DEF SavesInv, TypeOK

\* When the process dies, every rotation under way is spoiled.
LEMMA CrashKeeps ==
  ASSUME SavesInv, Crash
  PROVE  Pruned'
<1>1. /\ At({"prune"})' = {} /\ At(Rotating)' = {}
      /\ spoiled' = spoiled + Cardinality(At(Rotating)) /\ baks' = baks
  BY DEF Crash, At, Rotating
<1>2. Left({})' = Present(baks) /\ Left({}) = Present(baks) /\ At(Rotating) \ {} = At(Rotating)
  BY <1>1 DEF Left, Present
<1>3. Cardinality(Left({})) =< BackupsKept + spoiled + Cardinality(At(Rotating) \ {})
  BY DEF SavesInv, Pruned
<1>4. /\ Cardinality(Left({})) \in Nat /\ Cardinality(At(Rotating) \ {}) \in Nat
      /\ spoiled \in Nat /\ BackupsKept \in Nat
  BY Counts
<1>5. Cardinality(Present(baks)) \in Nat
      /\ Cardinality(Present(baks)) =< BackupsKept + (spoiled + Cardinality(At(Rotating)))
  BY <1>2, <1>3, <1>4
<1>6. \A n, m \in Nat : n =< BackupsKept + m => n =< BackupsKept + m + 0
  BY <1>4
<1>7. spoiled + Cardinality(At(Rotating)) \in Nat
  BY <1>2, <1>4
<1>8. Cardinality(Present(baks)) =< BackupsKept + (spoiled + Cardinality(At(Rotating))) + 0
  BY <1>5, <1>6, <1>7, Zenon
<1>9. Cardinality(Left({})') =< BackupsKept + spoiled' + Cardinality(At(Rotating)' \ {})
  <2>1. At(Rotating)' \ {} = {} /\ Cardinality({}) = 0
    BY <1>1, FS_EmptySet
  <2>2. QED
    BY <1>1, <1>2, <1>8, <2>1, Zenon
<1>10. QED
  BY <1>1, <1>9 DEF Pruned

\* The number of backups that will be left stays bounded.
LEMMA PrunedStep == ASSUME SavesInv, [Next]_vars PROVE Pruned'
<1> USE DEF Calm, At, Rotating
<1>0. pc \in [Workers -> {"idle", "getFile"} \cup Putting \cup Deleting]
      /\ todo \in [Workers -> SUBSET (1 .. clock)]
  BY DEF SavesInv, TypeOK
<1>1. ASSUME NEW w \in Workers, NEW d \in Contents, PutRead(w, d)
      PROVE  Calm
  BY <1>0, <1>1 DEF PutRead, Begin
<1>2. ASSUME NEW w \in Workers, BakOpen(w)
      PROVE  Pruned'
  <2>1. CASE Fail(w) /\ UNCHANGED baks
    <3>1. Calm
      BY <1>0, <1>2, <2>1 DEF BakOpen, Fail, Finish
    <3>2. QED
      BY <3>1, CalmKeeps
  <2>2. CASE baks' = [baks EXCEPT ![clock'] = Torn] /\ Goto(w, "bakWrite") /\ UNCHANGED todo
    <3>1. clock' \in Stamps
      BY <1>2, ClockStep
    <3>2. Present(baks)' = Present(baks) \cup {clock'}
      BY <2>2, <3>1, SavesAssumption DEF Present, SavesInv, TypeOK
    <3>3. QED
      BY <1>2, <2>2, <3>2, OpenKeeps DEF BakOpen
  <2>3. QED
    BY <1>2, <2>1, <2>2 DEF BakOpen
<1>3. ASSUME NEW w \in Workers, BakWrite(w)
      PROVE  Pruned'
  <2>1. CASE Fail(w) /\ spoiled' = spoiled + 1 /\ UNCHANGED baks
    BY <1>3, <2>1, SpoiltKeeps DEF BakWrite, Fail, Finish
  <2>2. CASE baks' = Written(baks, stamp[w], old[w]) /\ Goto(w, "pruneDir")
             /\ UNCHANGED <<locals, spoiled>>
    <3>1. Present(baks)' = Present(baks)
      BY <1>3, <2>2, SavesAssumption DEF BakWrite, Written, Present, SavesInv, TypeOK, Locals
    <3>2. Calm
      BY <1>0, <1>3, <2>2, <3>1 DEF BakWrite
    <3>3. QED
      BY <3>2, CalmKeeps
  <2>3. QED
    BY <1>3, <2>1, <2>2 DEF BakWrite
<1>4. ASSUME NEW w \in Workers,
             TmpOpen(w) \/ TmpWrite(w) \/ Rename(w) \/ Upsert(w) \/ PutGet(w)
      PROVE  Calm
  BY <1>0, <1>4 DEF TmpOpen, TmpWrite, Rename, Upsert, PutGet, Answer, Fail, Finish, past, Present
<1>5. ASSUME NEW w \in Workers, DeleteCard(w) \/ DeleteDir(w) \/ DeleteRow(w) \/ Get(w)
      PROVE  Calm
  BY <1>0, <1>5 DEF DeleteCard, DeleteDir, DeleteRow, Get, GetRow, GetFile, Begin, Answer, Finish, past, Present
<1>6. ASSUME NEW w \in Workers, (Prune(w) /\ todo[w] # {}) \/ DeleteFile(w)
      PROVE  Calm
  <2>1. PICK b \in todo[w] : Removes(w, b)
    BY <1>6, PruneRemoves, DeleteRemoves DEF Removes
  <2>2. QED
    BY <1>0, <2>1 DEF Removes
<1>7. CASE UNCHANGED vars
  <2>1. Calm
    BY <1>7 DEF vars
  <2>2. QED
    BY <2>1, CalmKeeps
<1>8. ASSUME NEW w \in Workers, PruneDir(w)
      PROVE  Pruned'
  <2>1. CASE Goto(w, "prune") /\ UNCHANGED spoiled
    BY <1>0, <1>8, <2>1, ListedKeeps DEF PruneDir, PruneLists
  <2>2. CASE Goto(w, "tmpOpen") /\ spoiled' = spoiled + 1 /\ UNCHANGED todo
    BY <1>8, <2>2, SpoiltKeeps DEF PruneDir
  <2>3. QED
    BY <1>8, <2>1, <2>2 DEF PruneDir
<1>9. QED
  BY <1>1, <1>2, <1>3, <1>4, <1>5, <1>6, <1>7, <1>8, CalmKeeps, PrunedKeeps, CrashKeeps
     DEF Next, Put, Delete

-----------------------------------------------------------------------------
(* A request that has the slot for itself.                                 *)

Busy == At(Putting \cup Deleting)

\* A request that ends leaves nobody, if it was alone.
LEMMA EndKeeps ==
  ASSUME SavesInv, NEW w \in Busy, pc' = [pc EXCEPT ![w] = "idle"], overlap' = overlap,
         acked' = acked \/ (overlap => acked' = Torn)
  PROVE  Alone'
<1>1. Busy' = Busy \ {w} /\ w \in Workers
  BY DEF Busy, At, Putting, Deleting, SavesInv, TypeOK
<1>2. acked = Torn
  BY DEF SavesInv, Alone, Busy
<1>3. ~overlap => Busy = {w}
  BY DEF SavesInv, Alone, Busy
<1>4. ~overlap' => Busy' = {}
  BY <1>1, <1>3
<1>5. acked' # Torn => ~overlap'
  BY <1>2 DEF SavesInv, TypeOK
<1>6. QED
  BY <1>4, <1>5 DEF Alone, Busy

\* A request that goes on stays alone.
LEMMA GoKeeps ==
  ASSUME SavesInv, NEW w \in Busy, NEW label \in Putting \cup Deleting,
         pc' = [pc EXCEPT ![w] = label], overlap' = overlap, acked' = acked,
         ~overlap /\ PutAlone(w) /\ DeleteAlone(w) => PutAlone(w)' /\ DeleteAlone(w)'
  PROVE  Alone'
<1>1. Busy' = Busy
  BY DEF Busy, At, SavesInv, TypeOK
<1>2. acked' = Torn
  BY DEF SavesInv, Alone, Busy
<1>3. ~overlap => Busy = {w} /\ PutAlone(w) /\ DeleteAlone(w)
  BY DEF SavesInv, Alone, Busy
<1>4. ASSUME ~overlap'
      PROVE  Busy' = {w} /\ PutAlone(w)' /\ DeleteAlone(w)'
  BY <1>1, <1>3, <1>4
<1>5. ~overlap' => \A v \in Busy' : Busy' = {v} /\ PutAlone(v)' /\ DeleteAlone(v)'
  <2> SUFFICES ASSUME ~overlap', NEW v \in Busy'
               PROVE  Busy' = {v} /\ PutAlone(v)' /\ DeleteAlone(v)'
    OBVIOUS
  <2>1. v = w
    BY <1>4
  <2>2. QED
    BY <1>4, <2>1
<1>6. QED
  BY <1>2, <1>5 DEF Alone, Busy

\* So does the one that a step of somebody else, a Get, does not disturb.
LEMMA GetKeeps ==
  ASSUME SavesInv, Busy' = Busy, UNCHANGED <<files, row, overlap, acked>>,
         \A v \in Busy : /\ pc'[v] = pc[v] /\ data'[v] = data[v] /\ old'[v] = old[v]
                         /\ stamp'[v] = stamp[v] /\ todo'[v] = todo[v]
  PROVE  Alone'
<1>1. ASSUME NEW v \in Busy, PutAlone(v), DeleteAlone(v)
      PROVE  PutAlone(v)' /\ DeleteAlone(v)'
  <2>1. Present(baks)' = Present(baks) /\ Present(tmps)' = Present(tmps)
        /\ \A s : Newer(s)' = Newer(s)
    BY DEF Present, Newer
  <2>2. /\ pc'[v] = pc[v] /\ data'[v] = data[v] /\ old'[v] = old[v]
        /\ stamp'[v] = stamp[v] /\ todo'[v] = todo[v]
        /\ card' = card /\ baks' = baks /\ tmps' = tmps /\ row' = row
    OBVIOUS
  <2>3. PutAlone(v)'
    BY <1>1, <2>1, <2>2 DEF PutAlone
  <2>4. DeleteAlone(v)'
    BY <1>1, <2>1, <2>2 DEF DeleteAlone
  <2>5. QED
    BY <2>3, <2>4
<1>2. ~overlap => \A v \in Busy : Busy = {v} /\ PutAlone(v) /\ DeleteAlone(v)
  BY DEF SavesInv, Alone, Busy
<1>3. ~overlap' => \A v \in Busy' : Busy' = {v} /\ PutAlone(v)' /\ DeleteAlone(v)'
  BY <1>1, <1>2
<1>4. acked' # Torn => ~overlap' /\ Busy' = {}
  BY DEF SavesInv, Alone, Busy
<1>5. QED
  BY <1>3, <1>4 DEF Alone, Busy

\* A rotation that is alone: the version it has read is the card still, and its
\* backup is the newest.
LEMMA RotationAlone ==
  ASSUME SavesInv, [Next]_vars, NEW w \in Workers, PutAlone(w),
         BakOpen(w) \/ BakWrite(w) \/ PruneDir(w) \/ Prune(w), pc'[w] # "idle"
  PROVE  PutAlone(w)'
<1> USE SavesAssumption DEF PutAlone, Rotating
<1>0. /\ pc \in [Workers -> {"idle", "getFile"} \cup Putting \cup Deleting]
      /\ baks \in [Stamps -> Versions] /\ stamp \in [Workers -> 0 .. clock]
      /\ todo \in [Workers -> SUBSET (1 .. clock)] /\ clock \in Nat
      /\ \A s \in Present(baks) : s \in Nat /\ s =< clock
      /\ pc[w] \in {"bakOpen", "bakWrite"} => old[w] \in Contents
  BY Finite DEF SavesInv, TypeOK, Locals
<1>1. CASE BakOpen(w)
  <2>1. clock' = clock + 1 /\ clock' \in Stamps
    BY <1>1, ClockStep
  <2>2. /\ baks' = [baks EXCEPT ![clock'] = Torn] /\ card' = card
        /\ stamp' = [stamp EXCEPT ![w] = clock']
        /\ pc' = [pc EXCEPT ![w] = "bakWrite"] /\ UNCHANGED <<old, todo>>
        /\ pc[w] = "bakOpen"
    BY <1>0, <1>1 DEF BakOpen, Fail, Finish
  <2>3. Present(baks)' = Present(baks) \cup {clock'}
    BY <1>0, <2>1, <2>2 DEF Present
  <2>4. stamp'[w] \in Present(baks)' /\ stamp'[w] \notin todo'[w]
    <3>1. stamp'[w] = clock' /\ todo'[w] \subseteq 1 .. clock
      BY <1>0, <2>2
    <3>2. clock' \notin 1 .. clock
      BY <1>0, <2>1
    <3>3. QED
      BY <2>3, <3>1, <3>2
  <2>5. Newer(stamp[w])' = {}
    <3>1. stamp'[w] = clock'
      BY <1>0, <2>2
    <3>2. \A s \in Present(baks) : ~ (s > clock')
      BY <1>0, <2>1
    <3>3. ~ (clock' > clock')
      BY <1>0, <2>1
    <3>4. QED
      BY <2>3, <3>1, <3>2, <3>3 DEF Newer
  <2>6. old'[w] = card' /\ card' # NoCard
    BY <1>0, <2>2
  <2>7. QED
    BY <1>0, <2>2, <2>4, <2>5, <2>6
<1>2. CASE BakWrite(w)
  <2>1. /\ baks' = Written(baks, stamp[w], old[w]) /\ card' = card
        /\ pc' = [pc EXCEPT ![w] = "pruneDir"] /\ UNCHANGED locals
        /\ pc[w] = "bakWrite"
    BY <1>0, <1>2 DEF BakWrite, Fail, Finish
  <2>2. stamp[w] \in Present(baks) /\ stamp[w] \notin todo[w] /\ Newer(stamp[w]) = {}
        /\ old[w] = card
    BY <2>1
  <2>3. baks' = [baks EXCEPT ![stamp[w]] = card] /\ stamp[w] \in Stamps /\ card # NoCard
    BY <2>1, <2>2 DEF Written, Present
  <2>4. Present(baks)' = Present(baks) /\ baks'[stamp[w]] = card
    BY <1>0, <2>2, <2>3 DEF Present
  <2>5. Newer(stamp[w])' = {}
    BY <2>1, <2>2, <2>4 DEF Newer
  <2>6. QED
    BY <1>0, <2>1, <2>2, <2>4, <2>5
<1>3. CASE PruneDir(w) /\ Goto(w, "prune")
  <2>1. /\ todo' = [todo EXCEPT ![w] = Excess(Present(baks))] /\ baks' = baks /\ card' = card
        /\ pc' = [pc EXCEPT ![w] = "prune"] /\ stamp' = stamp /\ pc[w] = "pruneDir"
    BY <1>0, <1>3 DEF PruneDir
  <2>2. stamp[w] \in Present(baks) /\ Newer(stamp[w]) = {} /\ baks[stamp[w]] = card
    BY <2>1
  <2>3. stamp[w] \notin Excess(Present(baks))
    <3>1. Cardinality(Newer(stamp[w])) = 0
      BY <2>2, FS_EmptySet
    <3>2. ~ (Cardinality(Newer(stamp[w])) >= BackupsKept)
      BY <3>1
    <3>3. QED
      BY <3>2 DEF Excess, Newer
  <2>4. Cardinality(Present(baks) \ Excess(Present(baks))) =< BackupsKept
    BY Finite, ExcessLeaves
  <2>5. Present(baks)' = Present(baks) /\ Newer(stamp[w])' = {}
    BY <2>1, <2>2 DEF Present, Newer
  <2>6. todo'[w] = Excess(Present(baks))
    BY <1>0, <2>1
  <2>7. Cardinality(Present(baks)' \ todo'[w]) =< BackupsKept
    BY <2>4, <2>5, <2>6
  <2>8. QED
    BY <1>0, <2>1, <2>2, <2>3, <2>5, <2>6, <2>7
<1>4. CASE Prune(w) /\ todo[w] # {}
  <2>1. PICK b \in todo[w] : Removes(w, b)
    BY <1>4, PruneRemoves DEF Removes
  <2>2. pc[w] = "prune" /\ stamp' = stamp /\ data' = data /\ tmps' = tmps
        /\ card' = card /\ pc' = pc
    BY <1>4 DEF Prune
  <2>3. /\ stamp[w] \in Present(baks) /\ Newer(stamp[w]) = {} /\ baks[stamp[w]] = card
        /\ stamp[w] \notin todo[w] /\ Cardinality(Present(baks) \ todo[w]) =< BackupsKept
    BY <2>2
  <2>4. /\ Present(baks)' = Present(baks) \ {b} /\ todo' = [todo EXCEPT ![w] = @ \ {b}]
        /\ b # stamp[w]
    BY <2>1, <2>3 DEF Removes
  <2>5. Newer(stamp[w])' = {}
    BY <2>2, <2>3, <2>4 DEF Newer
  <2>6. baks'[stamp[w]] = card
    <3>1. todo[w] \in SUBSET Nat
      BY <1>0
    <3>2. Min(todo[w]) \in todo[w]
      BY <1>4, <3>1, MinIsLeast
    <3>3. Min(todo[w]) # stamp[w]
      BY <2>3, <3>2
    <3>4. baks' = [baks EXCEPT ![Min(todo[w])] = NoCard]
      BY <1>4 DEF Prune
    <3>5. QED
      BY <1>0, <2>3, <3>3, <3>4 DEF Present
  <2>7. Cardinality((Present(baks) \ todo[w])') =< BackupsKept
    <3>1. (Present(baks) \ todo[w])' \in SUBSET (Present(baks) \ todo[w])
          /\ IsFiniteSet(Present(baks) \ todo[w])
      BY <1>0, <2>4, Finite, Smaller
    <3>2. /\ Cardinality((Present(baks) \ todo[w])') =< Cardinality(Present(baks) \ todo[w])
          /\ Cardinality((Present(baks) \ todo[w])') \in Nat
          /\ Cardinality(Present(baks) \ todo[w]) \in Nat
      BY <3>1, Smaller
    <3>3. QED
      BY <2>3, <3>2
  <2>8. stamp'[w] \in Present(baks)' /\ stamp'[w] \notin todo'[w]
    BY <1>0, <2>2, <2>3, <2>4
  <2>9. QED
    BY <2>2, <2>5, <2>6, <2>7, <2>8
<1>5. CASE Prune(w) /\ todo[w] = {}
  <2>1. /\ pc[w] = "prune" /\ pc' = [pc EXCEPT ![w] = "tmpOpen"] /\ baks' = baks
        /\ card' = card /\ data' = data
    BY <1>5 DEF Prune
  <2>2. stamp[w] \in Stamps /\ baks'[stamp[w]] = card'
    BY <2>1 DEF Present
  <2>3. QED
    BY <1>0, <2>1, <2>2
<1>6. CASE PruneDir(w) /\ Goto(w, "tmpOpen")
  <2>1. /\ pc[w] = "pruneDir" /\ pc' = [pc EXCEPT ![w] = "tmpOpen"] /\ baks' = baks
        /\ card' = card /\ data' = data
    BY <1>0, <1>6 DEF PruneDir
  <2>2. stamp[w] \in Stamps /\ baks'[stamp[w]] = card'
    BY <2>1 DEF Present
  <2>3. QED
    BY <1>0, <2>1, <2>2
<1>7. QED
  BY <1>1, <1>2, <1>3, <1>4, <1>5, <1>6 DEF PruneDir

\* A Put that is alone writes what it was sent, to the card and to the row.
LEMMA WritingAlone ==
  ASSUME SavesInv, [Next]_vars, NEW w \in Workers, PutAlone(w),
         TmpOpen(w) \/ TmpWrite(w) \/ Rename(w) \/ Upsert(w), pc'[w] # "idle"
  PROVE  PutAlone(w)'
<1> USE SavesAssumption DEF PutAlone, Rotating
<1>0. /\ pc \in [Workers -> {"idle", "getFile"} \cup Putting \cup Deleting]
      /\ tmps \in [Stamps -> Versions] /\ stamp \in [Workers -> 0 .. clock]
      /\ pc[w] \in Putting => data[w] \in Contents
  BY DEF SavesInv, TypeOK, Locals
<1>1. CASE TmpOpen(w)
  <2>1. clock' \in Stamps
    BY <1>1, ClockStep
  <2>2. /\ tmps' = [tmps EXCEPT ![clock'] = Torn] /\ card' = card /\ baks' = baks
        /\ stamp' = [stamp EXCEPT ![w] = clock'] /\ data' = data /\ old' = old
        /\ pc' = [pc EXCEPT ![w] = "tmpWrite"] /\ pc[w] = "tmpOpen"
    BY <1>0, <1>1 DEF TmpOpen, Fail, Finish
  <2>3. stamp'[w] \in Present(tmps)'
    BY <1>0, <2>1, <2>2 DEF Present
  <2>4. QED
    BY <1>0, <2>2, <2>3
<1>2. CASE TmpWrite(w)
  <2>1. /\ tmps' = Written(tmps, stamp[w], data[w]) /\ card' = card /\ baks' = baks
        /\ UNCHANGED locals /\ pc' = [pc EXCEPT ![w] = "rename"] /\ pc[w] = "tmpWrite"
    BY <1>0, <1>2 DEF TmpWrite, Fail, Finish
  <2>2. tmps'[stamp[w]] = data[w]
    BY <1>0, <2>1 DEF Written, Present
  <2>3. QED
    BY <1>0, <2>1, <2>2
<1>3. CASE Rename(w)
  BY <1>0, <1>3 DEF Rename, Finish
<1>4. CASE Upsert(w)
  BY <1>0, <1>4 DEF Upsert, Fail, Finish
<1>5. QED
  BY <1>1, <1>2, <1>3, <1>4

\* A Delete that is alone and could list the files has listed every one.
LEMMA DeletionAlone ==
  ASSUME SavesInv, NEW w \in Workers, DeleteAlone(w), DeleteDir(w) \/ DeleteFile(w)
  PROVE  DeleteAlone(w)' /\ PutAlone(w)'
<1>0. /\ pc \in [Workers -> {"idle", "getFile"} \cup Putting \cup Deleting]
      /\ todo \in [Workers -> SUBSET (1 .. clock)]
      /\ baks \in [Stamps -> Versions] /\ tmps \in [Stamps -> Versions]
  BY DEF SavesInv, TypeOK
<1>1. pc'[w] \in {"delFiles", "delRow"} /\ card' = card /\ pc[w] \in Deleting
  BY <1>0 DEF DeleteDir, DeleteFile, Deleting
<1>2. card' = NoCard
  BY <1>1 DEF DeleteAlone
<1>3. pc'[w] = "delFiles" => Present(baks)' \cup Present(tmps)' \subseteq todo'[w]
  <2>1. CASE DeleteDir(w)
    BY <1>0, <2>1 DEF DeleteDir, Present
  <2>2. CASE DeleteFile(w)
    <3>1. Present(baks) \cup Present(tmps) \subseteq todo[w]
      BY <2>2 DEF DeleteFile, DeleteAlone
    <3> DEFINE s == FirstByName(todo[w])
    <3>2. /\ todo' = [todo EXCEPT ![w] = @ \ {s}]
          /\ baks' = [baks EXCEPT ![s] = NoCard] /\ tmps' = [tmps EXCEPT ![s] = NoCard]
      BY <2>2 DEF DeleteFile
    <3> HIDE DEF s
    <3>3. Present(baks)' = Present(baks) \ {s} /\ Present(tmps)' = Present(tmps) \ {s}
      BY <1>0, <3>2 DEF Present
    <3>4. QED
      BY <1>0, <3>1, <3>2, <3>3
  <2>3. QED
    BY <2>1, <2>2
<1>4. DeleteAlone(w)'
  BY <1>2, <1>3 DEF DeleteAlone
<1>5. PutAlone(w)'
  BY <1>1 DEF PutAlone, Rotating
<1>6. QED
  BY <1>4, <1>5

\* Whoever has the slot for itself knows what it has done.
LEMMA AloneStep == ASSUME SavesInv, [Next]_vars PROVE Alone'
<1>0. pc \in [Workers -> {"idle", "getFile"} \cup Putting \cup Deleting]
  BY DEF SavesInv, TypeOK
<1>1. ASSUME NEW w \in Workers, NEW d \in Contents, PutRead(w, d)
      PROVE  Alone'
  <2>1. /\ acked' = Torn /\ pc[w] = "idle"
        /\ overlap' = (\E v \in Workers \ {w} : pc[v] \in Putting \cup Deleting)
        /\ data' = [data EXCEPT ![w] = d] /\ card' = card
        /\ \/ /\ pc' = [pc EXCEPT ![w] = IF card \in {NoCard, d} THEN "tmpOpen" ELSE "bakOpen"]
              /\ old' = [old EXCEPT ![w] = card]
           \/ pc' = [pc EXCEPT ![w] = "tmpOpen"] /\ old' = [old EXCEPT ![w] = Torn]
    BY <1>1 DEF PutRead, Begin
  <2>2. ~overlap' => Busy' = {w}
    BY <1>0, <2>1 DEF Busy, At, Putting
  <2>3. /\ data'[w] = d
        /\ \/ /\ pc'[w] = IF card \in {NoCard, d} THEN "tmpOpen" ELSE "bakOpen"
              /\ old'[w] = card'
           \/ pc'[w] = "tmpOpen" /\ old'[w] = Torn
    BY <1>0, <2>1 DEF SavesInv, TypeOK
  <2>4. PutAlone(w)' /\ DeleteAlone(w)'
    BY <2>1, <2>3 DEF PutAlone, DeleteAlone, Rotating, Deleting
  <2>5. QED
    BY <2>1, <2>2, <2>4 DEF Alone, Busy
<1>2. ASSUME NEW w \in Workers, DeleteCard(w)
      PROVE  Alone'
  <2>1. /\ acked' = Torn /\ pc[w] = "idle"
        /\ overlap' = (\E v \in Workers \ {w} : pc[v] \in Putting \cup Deleting)
        /\ pc' = [pc EXCEPT ![w] = "delDir"] /\ card' = NoCard
    BY <1>2 DEF DeleteCard, Begin
  <2>2. ~overlap' => Busy' = {w}
    BY <1>0, <2>1 DEF Busy, At, Deleting
  <2>3. PutAlone(w)' /\ DeleteAlone(w)'
    BY <1>0, <2>1 DEF PutAlone, DeleteAlone, Rotating, Deleting
  <2>4. QED
    BY <2>1, <2>2, <2>3 DEF Alone, Busy
<1>3. ASSUME NEW w \in Workers, pc[w] \in Putting \cup Deleting, pc'[w] = "idle",
             BakOpen(w) \/ BakWrite(w) \/ TmpOpen(w) \/ TmpWrite(w) \/ Rename(w)
               \/ Upsert(w) \/ PutGet(w) \/ DeleteRow(w)
      PROVE  Alone'
  <2>1. w \in Busy
    BY <1>3 DEF Busy, At
  <2>2. pc' = [pc EXCEPT ![w] = "idle"]
    BY <1>0, <1>3
       DEF BakOpen, BakWrite, TmpOpen, TmpWrite, Rename, Upsert, PutGet, DeleteRow, Fail, Finish
  <2>3. overlap' = overlap /\ (acked' = acked \/ (overlap => acked' = Torn))
    BY <1>3 DEF BakOpen, BakWrite, TmpOpen, TmpWrite, Rename, Upsert, PutGet, DeleteRow, Answer,
                past
  <2>4. QED
    BY <2>1, <2>2, <2>3, EndKeeps
<1>4. ASSUME NEW w \in Workers, NEW label \in Putting \cup Deleting, w \in Busy,
             pc' = [pc EXCEPT ![w] = label], overlap' = overlap, acked' = acked,
             pc'[w] \in Putting,
             \/ BakOpen(w) \/ BakWrite(w) \/ PruneDir(w) \/ Prune(w)
             \/ TmpOpen(w) \/ TmpWrite(w) \/ Rename(w) \/ Upsert(w)
      PROVE  Alone'
  <2>1. pc'[w] # "idle" /\ DeleteAlone(w)'
    BY <1>4 DEF Putting, Deleting, DeleteAlone
  <2>2. PutAlone(w) => PutAlone(w)'
    BY <1>4, <2>1, RotationAlone, WritingAlone
  <2>3. QED
    BY <1>4, <2>1, <2>2, GoKeeps
<1>5. ASSUME NEW w \in Workers, DeleteDir(w) \/ DeleteFile(w)
      PROVE  Alone'
  <2>1. PICK label \in {"delFiles", "delRow"} :
          /\ pc' = [pc EXCEPT ![w] = label] /\ pc[w] \in Deleting
          /\ overlap' = overlap /\ acked' = acked
    BY <1>0, <1>5 DEF DeleteDir, DeleteFile, Deleting
  <2>2. w \in Busy /\ label \in Putting \cup Deleting
    BY <2>1 DEF Busy, At, Deleting
  <2>3. DeleteAlone(w) => DeleteAlone(w)' /\ PutAlone(w)'
    BY <1>5, DeletionAlone
  <2>4. QED
    BY <2>1, <2>2, <2>3, GoKeeps
<1>6. ASSUME NEW w \in Workers, Get(w)
      PROVE  Alone'
  <2>1. /\ pc[w] \notin Putting \cup Deleting
        /\ pc'[w] \notin Putting \cup Deleting
        /\ UNCHANGED <<files, row, overlap, acked>>
        /\ \A v \in Workers \ {w} :
             /\ pc'[v] = pc[v] /\ data'[v] = data[v] /\ old'[v] = old[v]
             /\ stamp'[v] = stamp[v] /\ todo'[v] = todo[v]
    BY <1>0, <1>6 DEF Get, GetRow, GetFile, Finish, Putting, Deleting, SavesInv, TypeOK
  <2>2. Busy' = Busy /\ Busy \subseteq Workers \ {w}
    BY <2>1 DEF Busy, At
  <2>3. QED
    BY <2>1, <2>2, GetKeeps
<1>7. CASE Crash
  <2>1. Busy' = {} /\ overlap' = overlap /\ acked' = acked
    BY <1>7 DEF Crash, Busy, At, Putting, Deleting
  <2>2. acked # Torn => ~overlap
    BY DEF SavesInv, Alone
  <2>3. QED
    BY <2>1, <2>2 DEF Alone, Busy
<1>8. CASE UNCHANGED vars
  <2>1. Busy' = Busy
    BY <1>8 DEF vars, Busy, At
  <2>2. QED
    BY <1>8, <2>1, GetKeeps DEF vars
<1>9. ASSUME NEW w \in Workers,
             \/ BakOpen(w) \/ BakWrite(w) \/ PruneDir(w) \/ Prune(w)
             \/ TmpOpen(w) \/ TmpWrite(w) \/ Rename(w) \/ Upsert(w)
      PROVE  Alone'
  <2>1. pc[w] \in Putting /\ w \in Busy
    BY <1>9 DEF BakOpen, BakWrite, PruneDir, Prune, TmpOpen, TmpWrite, Rename, Upsert,
                Putting, Busy, At
  <2>2. CASE pc'[w] = "idle"
    <3>1. ~PruneDir(w) /\ ~Prune(w)
      BY <1>0, <2>2 DEF PruneDir, Prune
    <3>2. QED
      BY <1>3, <1>9, <2>1, <2>2, <3>1
  <2>3. CASE pc'[w] # "idle"
    <3>1. PICK label \in Putting : pc' = [pc EXCEPT ![w] = label]
      <4>1. pc' = [pc EXCEPT ![w] = pc'[w]] /\ pc'[w] \in Putting
        BY <1>0, <1>9, <2>3
           DEF BakOpen, BakWrite, PruneDir, Prune, TmpOpen, TmpWrite, Rename, Upsert,
               Fail, Finish, Putting
      <4>2. QED
        BY <4>1
    <3>2. overlap' = overlap /\ acked' = acked /\ pc'[w] \in Putting
      BY <1>0, <1>9, <3>1
         DEF BakOpen, BakWrite, PruneDir, Prune, TmpOpen, TmpWrite, Rename, Upsert
    <3>3. QED
      BY <1>4, <1>9, <2>1, <3>1, <3>2
  <2>4. QED
    BY <2>2, <2>3
<1>10. ASSUME NEW w \in Workers, PutGet(w) \/ DeleteRow(w)
       PROVE  Alone'
  <2>1. pc[w] \in Putting \cup Deleting /\ pc'[w] = "idle"
    BY <1>0, <1>10 DEF PutGet, DeleteRow, Finish, Putting, Deleting
  <2>2. QED
    BY <1>3, <1>10, <2>1
<1>11. QED
  BY <1>1, <1>2, <1>5, <1>6, <1>7, <1>8, <1>9, <1>10 DEF Next, Put, Delete

\* The answer to a request that was alone is what card and row are.
LEMMA AckedStep == ASSUME SavesInv, [Next]_vars PROVE AckedStands' /\ DeleteClears'
<1> USE SavesAssumption DEF AckedStands, DeleteClears
<1>0. /\ AckedStands /\ DeleteClears
      /\ acked # Torn => Busy = {}
  BY DEF SavesInv, Alone, Busy
<1>1. ASSUME NEW w \in Workers, PutGet(w)
      PROVE  AckedStands' /\ DeleteClears'
  <2>1. /\ pc[w] = "putGet" /\ card' = card /\ row' = row
        /\ \/ acked' = IF overlap THEN Torn ELSE IF row = NoCard THEN Torn ELSE data[w]
           \/ acked' = acked
    BY <1>1 DEF PutGet, Answer, past
  <2>2. data[w] \in Contents /\ w \in Busy
    BY <2>1 DEF SavesInv, Locals, Putting, Busy, At
  <2>3. ~overlap => card = data[w] /\ row = data[w]
    BY <2>1, <2>2 DEF SavesInv, Alone, PutAlone, Busy
  <2>4. acked = Torn
    BY <1>0, <2>2
  <2>5. QED
    BY <2>1, <2>2, <2>3, <2>4
<1>2. ASSUME NEW w \in Workers, DeleteRow(w)
      PROVE  AckedStands' /\ DeleteClears'
  <2>1. pc[w] \in {"delFiles", "delRow"} /\ todo[w] = {} /\ UNCHANGED files
    BY <1>2 DEF DeleteRow
  <2>2. w \in Busy
    BY <2>1 DEF Busy, At, Deleting
  <2>3. acked = Torn
    BY <1>0, <2>2
  <2>4. acked' \in {Torn, NoCard}
        /\ (acked' = NoCard => ~overlap /\ row' = NoCard /\ pc[w] = "delFiles")
    BY <1>2, <2>3 DEF DeleteRow, Answer, past
  <2>5. ~overlap /\ pc[w] = "delFiles" => card = NoCard /\ Present(baks) \cup Present(tmps) = {}
    BY <2>1, <2>2 DEF SavesInv, Alone, DeleteAlone, Deleting, Busy
  <2>6. QED
    BY <2>1, <2>4, <2>5 DEF Present
<1>3. ASSUME acked' = Torn
      PROVE  AckedStands' /\ DeleteClears'
  BY <1>3
<1>4. ASSUME acked' = acked, acked # Torn => UNCHANGED <<files, row>>
      PROVE  AckedStands' /\ DeleteClears'
  BY <1>0, <1>4 DEF Present
<1>5. ASSUME NEW w \in Workers, NEW d \in Contents, PutRead(w, d)
      PROVE  acked' = Torn
  BY <1>5 DEF PutRead, Begin
<1>6. ASSUME NEW w \in Workers,
             \/ BakOpen(w) \/ BakWrite(w) \/ PruneDir(w) \/ Prune(w)
             \/ TmpOpen(w) \/ TmpWrite(w) \/ Rename(w) \/ Upsert(w)
             \/ DeleteDir(w) \/ DeleteFile(w)
      PROVE  acked' = acked /\ acked = Torn
  <2>1. w \in Busy
    BY <1>6 DEF BakOpen, BakWrite, PruneDir, Prune, TmpOpen, TmpWrite, Rename, Upsert,
                DeleteDir, DeleteFile, Busy, At, Putting, Deleting
  <2>2. acked' = acked
    BY <1>6 DEF BakOpen, BakWrite, PruneDir, Prune, TmpOpen, TmpWrite, Rename, Upsert,
                DeleteDir, DeleteFile
  <2>3. QED
    BY <1>0, <2>1, <2>2
<1>7. ASSUME NEW w \in Workers, Get(w)
      PROVE  acked' = acked /\ UNCHANGED <<files, row>>
  BY <1>7 DEF Get, GetRow, GetFile
<1>8. CASE Crash
  BY <1>4, <1>8 DEF Crash
<1>9. CASE UNCHANGED vars
  BY <1>4, <1>9 DEF vars
<1>10. ASSUME NEW w \in Workers, DeleteCard(w)
       PROVE  acked' = Torn
  BY <1>10 DEF DeleteCard, Begin
<1>11. QED
  BY <1>1, <1>2, <1>3, <1>4, <1>5, <1>6, <1>7, <1>8, <1>9, <1>10 DEF Next, Put, Delete

-----------------------------------------------------------------------------
(* The theorems.                                                           *)

\* An empty slot, nobody at work on it.
LEMMA InitHolds == ASSUME Init PROVE SavesInv
<1> USE SavesAssumption DEF Init
<1>1. TypeOK
  <2>1. 0 \in 0 .. 2 * puts /\ 0 \in 0 .. MaxPuts /\ 0 \in 0 .. puts /\ 0 \in 0 .. clock
    OBVIOUS
  <2>2. QED
    BY <2>1 DEF TypeOK, Versions
<1>2. Present(baks) = {} /\ Present(tmps) = {}
  BY DEF Present
<1>3. /\ At(Putting) = {} /\ At(Ticking) = {} /\ At({"bakOpen"}) = {} /\ At(Rotating) = {}
      /\ At({"bakOpen"} \cup Rotating) = {} /\ At(Putting \cup Deleting) = {} /\ At({"prune"}) = {}
  BY DEF At, Putting, Deleting, Ticking, Rotating
<1>4. IsFiniteSet({}) /\ Cardinality({}) = 0
  BY FS_EmptySet
<1>5. Budget
  BY <1>3, <1>4 DEF Budget
<1>6. Locals
  BY <1>2 DEF Locals, Putting
<1>7. OldestFirst /\ PruneSpares
  BY <1>2 DEF OldestFirst, PruneSpares
<1>8. Pruned
  <2>1. \A W : Left(W) = {} /\ At(Rotating) \ W = {}
    BY <1>2, <1>3 DEF Left
  <2>2. QED
    BY <1>4, <2>1 DEF Pruned
<1>9. CardWhole /\ Alone /\ AckedStands /\ DeleteClears
  BY <1>3 DEF CardWhole, Alone, AckedStands, DeleteClears
<1>10. QED
  BY <1>1, <1>5, <1>6, <1>7, <1>8, <1>9 DEF SavesInv

\* Every step keeps the invariant.
LEMMA StepKeeps == ASSUME SavesInv, [Next]_vars PROVE SavesInv'
BY TypeStep, BudgetStep, LocalsStep, WholeStep, OldestFirstStep, PruneSparesStep, PrunedStep,
   AloneStep, AckedStep DEF SavesInv

\* The inductive invariant holds of every behaviour.
THEOREM SavesInvariant == Spec => []SavesInv
<1>1. Init => SavesInv
  BY InitHolds
<1>2. SavesInv /\ [Next]_vars => SavesInv'
  BY StepKeeps
<1>3. QED
  BY <1>1, <1>2, PTL DEF Spec

\* Files, row and requests hold what their types say; two time stamps for each
\* Put are enough.
THEOREM SavesTypes == Spec => []TypeOK
<1>1. SavesInv => TypeOK
  BY DEF SavesInv
<1>2. QED
  BY <1>1, SavesInvariant, PTL

\* The card is never a truncated file, however Puts, Deletes, faults and crashes
\* interleave.
THEOREM WholeCards == Spec => []CardWhole
<1>1. SavesInv => CardWhole
  BY DEF SavesInv
<1>2. QED
  BY <1>1, SavesInvariant, PTL

\* An answered Put that nothing overlapped stands until the next request for the
\* slot.
THEOREM PutsStand == Spec => []AckedStands
<1>1. SavesInv => AckedStands
  BY DEF SavesInv
<1>2. QED
  BY <1>1, SavesInvariant, PTL

\* An answered Delete that nothing overlapped has left nothing, if it could list
\* the directory.
THEOREM DeletesClear == Spec => []DeleteClears
<1>1. SavesInv => DeleteClears
  BY DEF SavesInv
<1>2. QED
  BY <1>1, SavesInvariant, PTL

\* Without a Put under way, at most BackupsKept backups are left, and one for
\* each rotation that was spoiled.
THEOREM BoundedBackups == Spec => []BackupsBounded
<1>1. ASSUME SavesInv, \A w \in Workers : pc[w] \notin Putting
      PROVE  Cardinality(Present(baks)) =< BackupsKept + spoiled
  <2>1. At(Rotating) \ {} = {} /\ {} \in SUBSET At({"prune"})
    BY <1>1 DEF At, Rotating, Putting
  <2>2. Left({}) = Present(baks)
    BY DEF Left
  <2>3. Cardinality(Left({})) =< BackupsKept + spoiled + Cardinality(At(Rotating) \ {})
    BY <1>1, <2>1 DEF SavesInv, Pruned
  <2>4. Cardinality(At(Rotating) \ {}) = 0
    BY <2>1, FS_EmptySet
  <2>5. /\ Cardinality(Left({})) \in Nat /\ spoiled \in Nat /\ BackupsKept \in Nat
    BY <1>1, Counts
  <2>6. QED
    BY <2>2, <2>3, <2>4, <2>5
<1>2. SavesInv => BackupsBounded
  BY <1>1 DEF BackupsBounded
<1>3. QED
  BY <1>2, SavesInvariant, PTL

\* Pruning removes a backup only while BackupsKept newer ones exist, also when
\* other requests are pruning the backups it has listed.
THEOREM PruningKeepsLast == Spec => PruneKeepsLast
<1>1. ASSUME SavesInv, [Next]_vars, NEW s \in Stamps, baks[s] # NoCard, baks'[s] = NoCard,
             \A w \in Workers : pc[w] \notin Deleting
      PROVE  Cardinality({t \in Present(baks) : t > s}) >= BackupsKept
  <2>1. s \in Present(baks) /\ s \notin Present(baks)'
    BY <1>1 DEF Present
  <2>2. PICK w \in Workers : \E b \in todo[w] : Removes(w, b)
    BY <1>1, <2>1, Kinds DEF Quiet, PruneLists, DeleteLists, Present
  <2>3. s \in todo[w]
    BY <2>1, <2>2 DEF Removes
  <2>4. pc[w] = "prune"
    BY <1>1, <2>3 DEF SavesInv, Locals, Deleting
  <2>5. QED
    BY <1>1, <2>1, <2>3, <2>4 DEF SavesInv, PruneSpares, Newer
<1> DEFINE Spares == \A s \in Stamps :
             baks[s] # NoCard /\ baks'[s] = NoCard /\ (\A w \in Workers : pc[w] \notin Deleting)
               => Cardinality({t \in Present(baks) : t > s}) >= BackupsKept
<1>2. SavesInv /\ [Next]_vars => [Spares]_<<baks, pc>>
  BY <1>1
<1> HIDE DEF Spares
<1>3. Spec => [][Spares]_<<baks, pc>>
  BY <1>2, SavesInvariant, PTL DEF Spec
<1>4. [][Spares]_<<baks, pc>> => PruneKeepsLast
  BY PTL DEF PruneKeepsLast, Spares
<1>5. QED
  BY <1>3, <1>4

\* The version that a Put replaces, alone, is among the backups, unless the Put
\* could not read it.
THEOREM KeptPrevious == Spec => PreviousKept
<1> DEFINE Kept == \/ \E s \in Stamps : baks[s] = card
                   \/ \E w \in Workers : pc[w] = "rename" /\ old[w] = Torn
           Keeps == card # NoCard /\ card' \notin {card, NoCard} /\ ~overlap => Kept
<1>1. ASSUME SavesInv, [Next]_vars, card # NoCard, card' \notin {card, NoCard}, ~overlap
      PROVE  Kept
  <2>1. PICK w \in Workers : Rename(w)
    BY <1>1, CardSteps DEF Upsert, DeleteCard, DeleteRow
  <2>2. pc[w] = "rename" /\ card' = tmps[stamp[w]]
    BY <1>1, <2>1 DEF Rename
  <2>3. w \in At(Putting \cup Deleting)
    BY <2>2 DEF At, Putting
  <2>4. PutAlone(w)
    BY <1>1, <2>3 DEF SavesInv, Alone
  <2>5. QED
    BY <1>1, <2>2, <2>4 DEF PutAlone
<1>2. SavesInv /\ [Next]_vars => [Keeps]_<<card, baks, pc, old, overlap>>
  BY <1>1
<1> HIDE DEF Keeps
<1>3. Spec => [][Keeps]_<<card, baks, pc, old, overlap>>
  BY <1>2, SavesInvariant, PTL DEF Spec
<1>4. QED
  BY <1>3 DEF PreviousKept, Keeps
=============================================================================
