----------------------------- MODULE ChunkRanges -----------------------------
(***************************************************************************)
(* mergeRange of upload_chunked.go: the bookkeeping of the received ranges *)
(* of one upload.  Chunks come in any order and with any overlap, one call *)
(* at a time (the session's lock); a step is the beginning of a call, with *)
(* the sort, a round of its loop, or its end.  The loop compacts the slice *)
(* it is reading: merged is the front of m.Ranges.                         *)
(*                                                                         *)
(* The reference is the set of offsets received so far, ReceivedOffsets.   *)
(* ChunkUpload keeps only that set; this module is why it may.             *)
(***************************************************************************)
EXTENDS Integers, Sequences, Functions

CONSTANT Size   \* of the file, in blocks

ASSUME SizeAssumption == Size \in Nat \ {0}

VARIABLES
  ranges,    \* m.Ranges, a sequence of <<start, end>> with end excluded
  pc,        \* "idle", or "loop" in a call; its local variables:
  len,       \*   the length of merged, whose array is that of m.Ranges
  cur,       \*   the range that is growing
  next,      \*   the place of r, the range the loop has come to
  complete,  \* what the last call returned
  received   \* history: the offsets of all chunks recorded

vars == <<ranges, pc, len, cur, next, complete, received>>

Offsets == 0 .. (Size - 1)

Chunk == {r \in (0 .. Size) \X (0 .. Size) : r[1] < r[2]}
Block(r) == r[1] .. (r[2] - 1)

\* sort.Slice by start: it is not stable, so equal starts come in any order.
SortedByStart(rs) ==
  {[i \in DOMAIN rs |-> rs[p[i]]] :
     p \in {p \in Surjection(DOMAIN rs, DOMAIN rs) :
              \A i, j \in DOMAIN rs : i < j => rs[p[i]][1] =< rs[p[j]][1]}}

\* A bug: the start of the only range is not looked at.
CoversEnd(rs) == Len(rs) = 1 /\ rs[1][2] = Size

\* What mergeRange returns, and what uploadComplete tests again.
Covers(rs) == Len(rs) = 1 /\ rs[1][1] = 0 /\ rs[1][2] = Size

Init ==
  /\ ranges = << >> /\ complete = FALSE /\ received = {}
  /\ pc = "idle" /\ len = 0 /\ cur = <<0, 0>> /\ next = 0

\* mergeRange(&m, r[1], r[2]) up to its loop; the caller has checked that r is
\* within the file.
MergeRange(r) ==
  /\ pc = "idle"
  /\ ranges' \in SortedByStart(Append(ranges, r))
  /\ pc' = "loop" /\ len' = 0 /\ cur' = ranges'[1] /\ next' = 2
  /\ received' = received \cup Block(r)
  /\ UNCHANGED complete

\* A bug: ranges that touch are kept apart.
TouchesStrict(r) == r[1] < cur[2]

Touches(r) == r[1] =< cur[2]

Looping == pc = "loop" /\ next =< Len(ranges)

\* A bug: a range inside cur shortens it.
JoinShrinking ==
  /\ Looping /\ Touches(ranges[next])
  /\ cur' = <<cur[1], ranges[next][2]>>
  /\ next' = next + 1
  /\ UNCHANGED <<ranges, pc, len, complete, received>>

\* r touches cur, which grows if r ends later.
Join ==
  /\ Looping /\ Touches(ranges[next])
  /\ cur' = IF ranges[next][2] > cur[2] THEN <<cur[1], ranges[next][2]>> ELSE cur
  /\ next' = next + 1
  /\ UNCHANGED <<ranges, pc, len, complete, received>>

\* append(merged, cur), which writes into the array of m.Ranges.
Appended == [ranges EXCEPT ![len + 1] = cur]

\* r lies beyond cur.
Keep ==
  /\ Looping /\ ~Touches(ranges[next])
  /\ ranges' = Appended
  /\ len' = len + 1
  /\ cur' = ranges[next]
  /\ next' = next + 1
  /\ UNCHANGED <<pc, complete, received>>

Return ==
  /\ pc = "loop" /\ next > Len(ranges)
  /\ ranges' = SubSeq(Appended, 1, len + 1)
  /\ complete' = Covers(ranges')
  /\ pc' = "idle" /\ len' = 0 /\ cur' = <<0, 0>> /\ next' = 0
  /\ UNCHANGED received

Next == (\E r \in Chunk : MergeRange(r)) \/ Join \/ Keep \/ Return

Spec == Init /\ [][Next]_vars

-----------------------------------------------------------------------------
OffsetsOf(rs) == UNION {Block(rs[i]) : i \in DOMAIN rs}

\* After every call the ranges cover exactly the offsets received: no order,
\* overlap, nesting or tie of the sort makes mergeRange lose or invent one,
\* although it compacts the slice it is reading.
RangesExact == pc = "idle" => OffsetsOf(ranges) = received

\* After every call the ranges are in the one form in which "a single range from
\* 0 to size" is the same as "everything": increasing, disjoint and with gaps
\* between them.
RangesCanonical ==
  pc = "idle" =>
    /\ \A i \in DOMAIN ranges : ranges[i] \in Chunk
    /\ \A i \in 1 .. Len(ranges) - 1 : ranges[i][2] < ranges[i + 1][1]

\* "complete" is answered exactly when every offset has been received
\* ("returns whether [0, size) is fully covered", upload_chunked.go:87).
CompleteExact == pc = "idle" => (complete <=> received = Offsets)

-----------------------------------------------------------------------------
(* The inductive invariant.                                                *)

\* The first n ranges are apart, in order.
Apart(n) == \A i, j \in 1 .. n : i < j => ranges[i][2] < ranges[j][1]

\* The offset is in merged, in cur or in the ranges the loop has still to reach.
Found(x) ==
  \/ x \in Block(cur)
  \/ \E i \in (1 .. len) \cup (next .. Len(ranges)) : x \in Block(ranges[i])

\* In the loop, merged stays behind the range being read and ends before cur,
\* cur starts before the ranges to come, which are sorted, and nothing is lost.
Merging ==
  /\ next \in 2 .. Len(ranges) + 1 /\ len \in 0 .. next - 2 /\ cur \in Chunk
  /\ Apart(len) /\ \A i \in 1 .. len : ranges[i][2] < cur[1]
  /\ \A i \in next .. Len(ranges) : cur[1] =< ranges[i][1]
  /\ \A i, j \in next .. Len(ranges) : i < j => ranges[i][1] =< ranges[j][1]
  /\ \A x \in Offsets : x \in received <=> Found(x)

\* After a call the ranges are those received, apart; in a call, Merging holds.
RangesInv ==
  /\ ranges \in Seq(Chunk) /\ received \subseteq Offsets /\ pc \in {"idle", "loop"}
  /\ pc = "idle" => /\ Apart(Len(ranges)) /\ complete = Covers(ranges)
                    /\ \A x \in Offsets :
                         x \in received <=> \E i \in 1 .. Len(ranges) : x \in Block(ranges[i])
  /\ pc = "loop" => Merging

-----------------------------------------------------------------------------
\* The offsets that m.Ranges and the locals of mergeRange stand for, and the answer
\* a call in progress will give.
Recorded ==
  {x \in Offsets : IF pc = "idle" THEN \E i \in 1 .. Len(ranges) : x \in Block(ranges[i])
                                  ELSE Found(x)}

Answer == IF pc = "idle" THEN complete ELSE Recorded = Offsets

AsSet == INSTANCE ReceivedOffsets WITH set <- Recorded, full <- Answer

\* Seen as a set of offsets, the slice changes when a chunk is appended and at no
\* other step: the sort, the rounds of the loop and the new slice leave what it
\* stands for as it is, and the answer is that of the set.
KeepsSet == AsSet!Spec
=============================================================================
