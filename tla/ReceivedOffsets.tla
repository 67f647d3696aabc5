--------------------------- MODULE ReceivedOffsets ---------------------------
(***************************************************************************)
(* What mergeRange is for, with no list of ranges: an upload has received  *)
(* a set of offsets, a chunk adds its own, and the answer says whether the *)
(* file is complete.  ChunkUpload records chunks in this way; ChunkRanges  *)
(* implements it.                                                          *)
(***************************************************************************)
EXTENDS Integers

CONSTANT Size

VARIABLES
  set,   \* the offsets received
  full   \* the last answer

vars == <<set, full>>

Init == set = {} /\ full = FALSE

\* The chunk from start to end, end excluded.
Merge(start, end) ==
  /\ set' = set \cup start .. (end - 1)
  /\ full' = (set' = 0 .. (Size - 1))

Next == \E start, end \in 0 .. Size : start < end /\ Merge(start, end)

Spec == Init /\ [][Next]_vars
=============================================================================
