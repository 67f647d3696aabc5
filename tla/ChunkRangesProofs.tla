-------------------------- MODULE ChunkRangesProofs --------------------------
(***************************************************************************)
(* mergeRange: the proofs, for a file of any size and any number of        *)
(* chunks.  RangesInv is the invariant of its loop; the three properties   *)
(* follow from it when the loop has ended.                                 *)
(***************************************************************************)
EXTENDS ChunkRanges, SequenceTheorems, TLAPS

\* A chunk has a start, an end, and offsets of the file between them.
LEMMA ChunkParts ==
  ASSUME NEW r \in Chunk
  PROVE  /\ r[1] \in Int /\ r[2] \in Int /\ 0 =< r[1] /\ r[1] < r[2] /\ r[2] =< Size
         /\ r = <<r[1], r[2]>>
         /\ \A x \in Int : x \in Block(r) <=> r[1] =< x /\ x < r[2]
         /\ Block(r) \subseteq Offsets
BY SizeAssumption DEF Chunk, Block, Offsets

\* A pair of offsets in order is a chunk.
LEMMA ChunkOf ==
  ASSUME NEW s \in Int, NEW e \in Int, 0 =< s, s < e, e =< Size
  PROVE  /\ <<s, e>> \in Chunk
         /\ \A x \in Int : x \in Block(<<s, e>>) <=> s =< x /\ x < e
BY SizeAssumption DEF Chunk, Block

\* The sort rearranges: nothing is lost, and the starts are in order.
LEMMA Sorted ==
  ASSUME NEW rs \in Seq(Chunk), NEW t \in SortedByStart(rs)
  PROVE  /\ t \in Seq(Chunk) /\ Len(t) = Len(rs)
         /\ \A i, j \in 1 .. Len(t) : i < j => t[i][1] =< t[j][1]
         /\ \A i \in 1 .. Len(rs) : \E j \in 1 .. Len(t) : t[j] = rs[i]
         /\ \A j \in 1 .. Len(t) : \E i \in 1 .. Len(rs) : t[j] = rs[i]
<1>1. PICK p \in Surjection(DOMAIN rs, DOMAIN rs) :
        /\ t = [i \in DOMAIN rs |-> rs[p[i]]]
        /\ \A i, j \in DOMAIN rs : i < j => rs[p[i]][1] =< rs[p[j]][1]
  BY DEF SortedByStart
<1>2. DOMAIN rs = 1 .. Len(rs) /\ Len(rs) \in Nat /\ \A i \in 1 .. Len(rs) : rs[i] \in Chunk
  OBVIOUS
<1>3. /\ p \in [1 .. Len(rs) -> 1 .. Len(rs)]
      /\ \A i \in 1 .. Len(rs) : \E j \in 1 .. Len(rs) : p[j] = i
  BY <1>1, <1>2 DEF Surjection
<1>4. t = [i \in 1 .. Len(rs) |-> rs[p[i]]]
  BY <1>1, <1>2
<1>5. t \in [1 .. Len(rs) -> Chunk]
  BY <1>2, <1>3, <1>4
<1>6. t \in Seq(Chunk) /\ Len(t) = Len(rs)
  BY <1>2, <1>5, IsASeq, LenProperties
<1>7. \A i \in 1 .. Len(rs) : t[i] = rs[p[i]]
  BY <1>4
<1>8. QED
  BY <1>1, <1>2, <1>3, <1>6, <1>7

\* What the invariant says of the ranges, part by part.
LEMMA RangesParts ==
  ASSUME RangesInv
  PROVE  /\ ranges \in Seq(Chunk) /\ Len(ranges) \in Nat
         /\ \A i \in 1 .. Len(ranges) :
              /\ ranges[i] \in Chunk
              /\ ranges[i][1] \in Int /\ ranges[i][2] \in Int
              /\ ranges[i][1] < ranges[i][2]
<1>1. ranges \in Seq(Chunk)
  BY DEF RangesInv
<1>2. Len(ranges) \in Nat /\ \A i \in 1 .. Len(ranges) : ranges[i] \in Chunk
  BY <1>1, LenProperties, ElementOfSeq
<1>3. QED
  BY <1>1, <1>2, ChunkParts

\* A call begins: the sorted slice holds the old ranges and the new one.
LEMMA MergeRangeKeeps ==
  ASSUME RangesInv, NEW r \in Chunk, MergeRange(r)
  PROVE  RangesInv'
<1> DEFINE A == Append(ranges, r)
<1>1. /\ ranges \in Seq(Chunk) /\ Len(ranges) \in Nat
      /\ pc = "idle" /\ ranges' \in SortedByStart(A)
      /\ pc' = "loop" /\ len' = 0 /\ cur' = ranges'[1] /\ next' = 2
      /\ received' = received \cup Block(r)
  BY RangesParts DEF MergeRange
<1>2. /\ A \in Seq(Chunk) /\ Len(A) = Len(ranges) + 1
      /\ \A i \in 1 .. Len(ranges) : A[i] = ranges[i]
      /\ A[Len(ranges) + 1] = r
  BY <1>1, AppendProperties
<1> HIDE DEF A
<1>3. /\ ranges' \in Seq(Chunk) /\ Len(ranges') = Len(A)
      /\ \A i, j \in 1 .. Len(ranges') : i < j => ranges'[i][1] =< ranges'[j][1]
      /\ \A i \in 1 .. Len(A) : \E j \in 1 .. Len(ranges') : ranges'[j] = A[i]
      /\ \A j \in 1 .. Len(ranges') : \E i \in 1 .. Len(A) : ranges'[j] = A[i]
  BY <1>1, <1>2, Sorted
<1> DEFINE n == Len(ranges')
<1>3a. n \in Nat /\ n >= 1
  BY <1>1, <1>2, <1>3
<1>4. received \subseteq Offsets /\ received' \subseteq Offsets
  BY <1>1, ChunkParts DEF RangesInv
<1>5. cur' \in Chunk /\ next' \in 2 .. Len(ranges') + 1
  BY <1>1, <1>2, <1>3
<1>6. ASSUME NEW x \in Offsets
      PROVE  x \in received' <=> Found(x)'
  <2>1. x \in received <=> \E i \in 1 .. Len(ranges) : x \in Block(ranges[i])
    BY <1>1 DEF RangesInv
  <2>2. x \in received' <=> \E i \in 1 .. Len(A) : x \in Block(A[i])
    <3>1. CASE x \in Block(r)
      <4>1. Len(A) \in 1 .. Len(A) /\ A[Len(A)] = r
        BY <1>1, <1>2
      <4>2. QED
        BY <1>1, <3>1, <4>1
    <3>2. CASE x \notin Block(r)
      <4>1. \A i \in 1 .. Len(A) : i \in 1 .. Len(ranges) \/ A[i] = r
        BY <1>1, <1>2
      <4>2. 1 .. Len(ranges) \subseteq 1 .. Len(A)
        BY <1>1, <1>2
      <4>3. QED
        BY <1>1, <1>2, <2>1, <3>2, <4>1, <4>2
    <3>3. QED
      BY <3>1, <3>2
  <2>3. (\E i \in 1 .. Len(A) : x \in Block(A[i]))
          <=> \E j \in 1 .. Len(ranges') : x \in Block(ranges'[j])
    BY <1>3
  <2>4. /\ 1 \in 1 .. n
        /\ \A j \in 1 .. n : j = 1 \/ j \in 2 .. n
        /\ 2 .. n \subseteq 1 .. n
        /\ 1 .. 0 = {}
    <3> HIDE DEF n
    <3> QED
      BY <1>3a
  <2>5. (\E j \in 1 .. Len(ranges') : x \in Block(ranges'[j]))
          <=> \/ x \in Block(cur')
              \/ \E j \in (1 .. len') \cup (next' .. Len(ranges')) : x \in Block(ranges'[j])
    BY <1>1, <2>4
  <2>6. QED
    BY <2>2, <2>3, <2>5 DEF Found
<1>7. Merging'
  <2>1. len' \in 0 .. next' - 2 /\ 1 .. len' = {}
    BY <1>1
  <2>2. Apart(len)' /\ \A i \in 1 .. len' : ranges'[i][2] < cur'[1]
    BY <2>1 DEF Apart
  <2>3. \A i \in next' .. Len(ranges') : i \in 1 .. Len(ranges') /\ 1 \in 1 .. Len(ranges') /\ 1 < i
    <3>1. \A i \in 2 .. n : i \in 1 .. n /\ 1 \in 1 .. n /\ 1 < i
      <4> HIDE DEF n
      <4> QED
        BY <1>3a
    <3>2. QED
      BY <1>1, <3>1
  <2>4. \A i \in next' .. Len(ranges') : cur'[1] =< ranges'[i][1]
    BY <1>1, <1>3, <2>3
  <2>5. \A i, j \in next' .. Len(ranges') : i < j => ranges'[i][1] =< ranges'[j][1]
    BY <1>3, <2>3
  <2>6. QED
    BY <1>5, <1>6, <2>1, <2>2, <2>4, <2>5 DEF Merging
<1>8. QED
  BY <1>1, <1>3, <1>4, <1>7 DEF RangesInv

\* In the loop: the places that are written and those still to be read.
LEMMA LoopParts ==
  ASSUME RangesInv, pc = "loop"
  PROVE  /\ Merging
         /\ len \in Nat /\ next \in Int /\ len + 1 < next /\ next =< Len(ranges) + 1
         /\ cur \in Chunk /\ cur[1] \in Int /\ cur[2] \in Int /\ cur[1] < cur[2]
         /\ 1 .. len \subseteq 1 .. Len(ranges) /\ len + 1 \in 1 .. Len(ranges)
         /\ next .. Len(ranges) \subseteq 1 .. Len(ranges)
<1>1. Merging /\ Len(ranges) \in Nat
  BY RangesParts DEF RangesInv
<1>2. next \in 2 .. Len(ranges) + 1 /\ len \in 0 .. next - 2 /\ cur \in Chunk
  BY <1>1 DEF Merging
<1>3. QED
  BY <1>1, <1>2, ChunkParts

\* A range that touches cur joins it, and only its offsets are added.
LEMMA JoinKeeps ==
  ASSUME RangesInv, Join
  PROVE  RangesInv'
<1> DEFINE r == ranges[next]
<1>1. /\ pc = "loop" /\ next =< Len(ranges) /\ r[1] =< cur[2]
      /\ cur' = IF r[2] > cur[2] THEN <<cur[1], r[2]>> ELSE cur
      /\ next' = next + 1
      /\ UNCHANGED <<ranges, pc, len, complete, received>>
  BY DEF Join, Looping, Touches
<1>2. /\ Merging
      /\ len \in Nat /\ next \in Int /\ len + 1 < next /\ next =< Len(ranges) + 1
      /\ cur \in Chunk /\ cur[1] \in Int /\ cur[2] \in Int /\ cur[1] < cur[2]
      /\ Len(ranges) \in Nat
  BY <1>1, LoopParts, RangesParts
<1>3. next \in 1 .. Len(ranges) /\ next \in next .. Len(ranges)
  BY <1>1, <1>2
<1>4. r \in Chunk /\ r[1] \in Int /\ r[2] \in Int /\ r[1] < r[2] /\ r[2] =< Size
  BY <1>3, RangesParts, ChunkParts
<1>5. cur[1] =< r[1] /\ 0 =< cur[1]
  BY <1>2, <1>3, ChunkParts DEF Merging
<1>6. /\ cur' \in Chunk /\ cur'[1] = cur[1]
      /\ \A x \in Int : x \in Block(cur') <=> (x \in Block(cur) \/ x \in Block(r))
  <2>1. /\ \A x \in Int : x \in Block(cur) <=> cur[1] =< x /\ x < cur[2]
        /\ \A x \in Int : x \in Block(r) <=> r[1] =< x /\ x < r[2]
    BY <1>2, <1>4, ChunkParts
  <2> HIDE DEF r
  <2>2. CASE r[2] > cur[2]
    <3>1. cur' = <<cur[1], r[2]>> /\ cur[1] < r[2]
      BY <1>1, <1>2, <1>4, <2>2
    <3>2. cur' \in Chunk /\ \A x \in Int : x \in Block(cur') <=> cur[1] =< x /\ x < r[2]
      BY <1>2, <1>4, <1>5, <3>1, ChunkOf
    <3>3. \A x \in Int : (cur[1] =< x /\ x < r[2])
                          <=> ((cur[1] =< x /\ x < cur[2]) \/ (r[1] =< x /\ x < r[2]))
      BY <1>1, <1>2, <1>4, <1>5, <2>2
    <3>4. QED
      BY <2>1, <3>1, <3>2, <3>3
  <2>3. CASE ~(r[2] > cur[2])
    <3>1. cur' = cur
      BY <1>1, <2>3
    <3>2. \A x \in Int : (r[1] =< x /\ x < r[2]) => (cur[1] =< x /\ x < cur[2])
      BY <1>2, <1>4, <1>5, <2>3
    <3>3. QED
      BY <1>2, <2>1, <3>1, <3>2
  <2>4. QED
    BY <2>2, <2>3
<1>7. ASSUME NEW x \in Offsets
      PROVE  x \in received' <=> Found(x)'
  <2>1. x \in Int /\ (x \in received <=> Found(x))
    BY <1>2 DEF Merging, Offsets
  <2>2. \A i : i \in (1 .. len) \cup (next .. Len(ranges))
                <=> (i = next \/ i \in (1 .. len) \cup (next + 1 .. Len(ranges)))
    BY <1>2, <1>3
  <2>3. Found(x) <=> \/ x \in Block(cur) \/ x \in Block(r)
                     \/ \E i \in (1 .. len) \cup (next + 1 .. Len(ranges)) : x \in Block(ranges[i])
    BY <2>2 DEF Found
  <2>4. Found(x)' <=> \/ x \in Block(cur')
                      \/ \E i \in (1 .. len) \cup (next + 1 .. Len(ranges)) : x \in Block(ranges[i])
    BY <1>1 DEF Found
  <2>5. QED
    BY <1>1, <1>6, <2>1, <2>3, <2>4
<1>8. Merging'
  <2>1. next' \in 2 .. Len(ranges) + 1 /\ len' \in 0 .. next' - 2
    BY <1>1, <1>2
  <2>2. Apart(len)' /\ \A i \in 1 .. len' : ranges'[i][2] < cur'[1]
    BY <1>1, <1>2, <1>6 DEF Merging, Apart
  <2>3. \A i \in next' .. Len(ranges) : i \in next .. Len(ranges)
    BY <1>1, <1>2
  <2>4. /\ \A i \in next' .. Len(ranges) : cur'[1] =< ranges[i][1]
        /\ \A i, j \in next' .. Len(ranges) : i < j => ranges[i][1] =< ranges[j][1]
    BY <1>2, <1>6, <2>3 DEF Merging
  <2>5. QED
    BY <1>1, <1>6, <1>7, <2>1, <2>2, <2>4 DEF Merging
<1>9. QED
  BY <1>1, <1>8 DEF RangesInv

\* Appending cur writes behind the range being read: merged gets it, and the
\* ranges still to be read are as they were.
LEMMA AppendedParts ==
  ASSUME RangesInv, pc = "loop"
  PROVE  /\ Appended \in Seq(Chunk) /\ Len(Appended) = Len(ranges)
         /\ \A i \in (1 .. len) \cup (next .. Len(ranges)) : Appended[i] = ranges[i]
         /\ Appended[len + 1] = cur
<1>1. /\ ranges \in Seq(Chunk) /\ len + 1 \in 1 .. Len(ranges) /\ cur \in Chunk
      /\ len \in Nat /\ next \in Int /\ len + 1 < next
      /\ 1 .. len \subseteq 1 .. Len(ranges) /\ next .. Len(ranges) \subseteq 1 .. Len(ranges)
  BY LoopParts, RangesParts
<1>2. /\ Appended \in Seq(Chunk) /\ Len(Appended) = Len(ranges)
      /\ \A j \in 1 .. Len(ranges) : Appended[j] = IF j = len + 1 THEN cur ELSE ranges[j]
  BY <1>1, ExceptSeq DEF Appended
<1>3. \A i \in (1 .. len) \cup (next .. Len(ranges)) : i \in 1 .. Len(ranges) /\ i # len + 1
  BY <1>1
<1>4. QED
  BY <1>1, <1>2, <1>3

\* The places of merged with cur at its end are in order, apart.
LEMMA AppendedApart ==
  ASSUME RangesInv, pc = "loop"
  PROVE  /\ \A i, j \in 1 .. len + 1 : i < j => Appended[i][2] < Appended[j][1]
         /\ \A i \in 1 .. len + 1 : Appended[i][2] =< cur[2]
<1>1. /\ Merging /\ len \in Nat /\ Len(ranges) \in Nat
      /\ cur[1] \in Int /\ cur[2] \in Int /\ cur[1] < cur[2]
      /\ \A i \in 1 .. len : i \in 1 .. Len(ranges)
  BY LoopParts, RangesParts
<1>2. /\ \A i \in 1 .. len : Appended[i] = ranges[i]
      /\ Appended[len + 1] = cur
  BY AppendedParts
<1>3. /\ \A i, j \in 1 .. len : i < j => ranges[i][2] < ranges[j][1]
      /\ \A i \in 1 .. len : ranges[i][2] < cur[1] /\ ranges[i][2] \in Int
  BY <1>1, RangesParts DEF Merging, Apart
<1>4. \A i \in 1 .. len + 1 : i \in 1 .. len \/ i = len + 1
  BY <1>1
<1>5. \A i, j \in 1 .. len + 1 : i < j => i \in 1 .. len
  BY <1>1
<1>6. \A i, j \in 1 .. len + 1 : i < j => Appended[i][2] < Appended[j][1]
  BY <1>2, <1>3, <1>4, <1>5
<1>7. \A i \in 1 .. len : ranges[i][2] =< cur[2]
  BY <1>1, <1>3
<1>8. QED
  BY <1>1, <1>2, <1>4, <1>6, <1>7

\* A range beyond cur starts a new one; cur is appended to merged.
LEMMA KeepKeeps ==
  ASSUME RangesInv, Keep
  PROVE  RangesInv'
<1> DEFINE r == ranges[next]
<1>1. /\ pc = "loop" /\ next =< Len(ranges) /\ ~(r[1] =< cur[2])
      /\ ranges' = Appended /\ len' = len + 1 /\ cur' = r /\ next' = next + 1
      /\ UNCHANGED <<pc, complete, received>>
  BY DEF Keep, Looping, Touches
<1>2. /\ Merging
      /\ len \in Nat /\ next \in Int /\ len + 1 < next /\ next =< Len(ranges) + 1
      /\ cur \in Chunk /\ cur[1] \in Int /\ cur[2] \in Int /\ cur[1] < cur[2]
      /\ Len(ranges) \in Nat
  BY <1>1, LoopParts, RangesParts
<1>3. next \in 1 .. Len(ranges) /\ next \in next .. Len(ranges)
  BY <1>1, <1>2
<1>4. r \in Chunk /\ r[1] \in Int /\ cur[2] < r[1]
  <2>1. r \in Chunk /\ r[1] \in Int
    BY <1>3, RangesParts
  <2>2. QED
    BY <1>1, <1>2, <2>1
<1>5. /\ ranges' \in Seq(Chunk) /\ Len(ranges') = Len(ranges)
      /\ \A i \in (1 .. len) \cup (next .. Len(ranges)) : ranges'[i] = ranges[i]
      /\ ranges'[len + 1] = cur
  BY <1>1, AppendedParts
<1>6. ASSUME NEW x \in Offsets
      PROVE  x \in received' <=> Found(x)'
  <2>1. x \in received <=> Found(x)
    BY <1>2 DEF Merging
  <2>2. /\ \A i : i \in (1 .. len) \cup (next .. Len(ranges))
                  <=> (i = next \/ i \in (1 .. len) \cup (next + 1 .. Len(ranges)))
        /\ \A i : i \in (1 .. len + 1) \cup (next + 1 .. Len(ranges))
                  <=> (i = len + 1 \/ i \in (1 .. len) \cup (next + 1 .. Len(ranges)))
    BY <1>2, <1>3
  <2>3. Found(x) <=> \/ x \in Block(cur) \/ x \in Block(r)
                     \/ \E i \in (1 .. len) \cup (next + 1 .. Len(ranges)) : x \in Block(ranges[i])
    BY <2>2 DEF Found
  <2>4. Found(x)' <=> \/ x \in Block(r)
                      \/ \E i \in (1 .. len + 1) \cup (next + 1 .. Len(ranges)) : x \in Block(ranges'[i])
    BY <1>1, <1>5 DEF Found
  <2>5. (\E i \in (1 .. len + 1) \cup (next + 1 .. Len(ranges)) : x \in Block(ranges'[i]))
          <=> \/ x \in Block(cur)
              \/ \E i \in (1 .. len) \cup (next + 1 .. Len(ranges)) : x \in Block(ranges[i])
    BY <1>5, <2>2
  <2>6. QED
    BY <1>1, <2>1, <2>3, <2>4, <2>5
<1>7. Merging'
  <2>1. next' \in 2 .. Len(ranges') + 1 /\ len' \in 0 .. next' - 2 /\ cur' \in Chunk
    BY <1>1, <1>2, <1>4, <1>5
  <2>2. Apart(len)'
    BY <1>1, AppendedApart DEF Apart
  <2>3. \A i \in 1 .. len' : ranges'[i][2] < cur'[1]
    <3>1. \A i \in 1 .. len + 1 : Appended[i][2] =< cur[2]
      BY <1>1, AppendedApart
    <3>2. \A i \in 1 .. len + 1 : Appended[i][2] \in Int
      <4>1. \A i \in 1 .. len + 1 : i \in 1 .. Len(Appended)
        BY <1>1, <1>2, <1>5
      <4>2. QED
        BY <1>1, <1>5, <4>1, ElementOfSeq, ChunkParts
    <3>3. \A i \in 1 .. len + 1 : Appended[i][2] < r[1]
      BY <1>2, <1>4, <3>1, <3>2
    <3>4. QED
      BY <1>1, <3>3
  <2>4. \A i \in next' .. Len(ranges') : i \in next .. Len(ranges) /\ next < i
    BY <1>1, <1>2, <1>5
  <2>5. /\ \A i \in next' .. Len(ranges') : cur'[1] =< ranges'[i][1]
        /\ \A i, j \in next' .. Len(ranges') : i < j => ranges'[i][1] =< ranges'[j][1]
    <3>1. \A i, j \in next .. Len(ranges) : i < j => ranges[i][1] =< ranges[j][1]
      BY <1>2 DEF Merging
    <3>2. QED
      BY <1>1, <1>3, <1>5, <2>4, <3>1
  <2>6. QED
    BY <1>6, <2>1, <2>2, <2>3, <2>5 DEF Merging
<1>8. QED
  BY <1>1, <1>5, <1>7 DEF RangesInv

\* The call returns merged, with the last cur at its end.
LEMMA ReturnKeeps ==
  ASSUME RangesInv, Return
  PROVE  RangesInv'
<1>1. /\ pc = "loop" /\ next > Len(ranges)
      /\ ranges' = SubSeq(Appended, 1, len + 1)
      /\ complete' = Covers(ranges') /\ pc' = "idle"
      /\ received' = received
  BY DEF Return
<1>2. /\ Merging /\ Len(ranges) \in Nat
      /\ len \in Nat /\ next \in Int /\ len + 1 \in 1 .. Len(ranges)
  BY <1>1, LoopParts, RangesParts
<1>3. /\ Appended \in Seq(Chunk) /\ Len(Appended) = Len(ranges)
      /\ \A i \in 1 .. len : Appended[i] = ranges[i]
      /\ Appended[len + 1] = cur
  BY <1>1, AppendedParts
<1>4. \A i \in 1 .. len + 1 : Appended[i] \in Chunk
  <2>1. \A i \in 1 .. len + 1 : i \in 1 .. Len(Appended)
    BY <1>2, <1>3
  <2>2. QED
    BY <1>3, <2>1, ElementOfSeq
<1>5. /\ ranges' \in Seq(Chunk) /\ Len(ranges') = len + 1
      /\ \A i \in 1 .. len + 1 : ranges'[i] = Appended[i]
  BY <1>1, <1>2, <1>4, SubSeqProperties
<1>6. Apart(Len(ranges))'
  BY <1>1, <1>5, AppendedApart DEF Apart
<1>7. ASSUME NEW x \in Offsets
      PROVE  x \in received' <=> \E i \in 1 .. Len(ranges') : x \in Block(ranges'[i])
  <2>1. x \in received <=> Found(x)
    BY <1>2 DEF Merging
  <2>2. /\ \A i : i \in (1 .. len) \cup (next .. Len(ranges)) <=> i \in 1 .. len
        /\ \A i : i \in 1 .. len + 1 <=> (i = len + 1 \/ i \in 1 .. len)
    BY <1>1, <1>2
  <2>3. Found(x) <=> x \in Block(cur) \/ \E i \in 1 .. len : x \in Block(ranges[i])
    BY <2>2 DEF Found
  <2>4. (\E i \in 1 .. Len(ranges') : x \in Block(ranges'[i]))
          <=> x \in Block(cur) \/ \E i \in 1 .. len : x \in Block(ranges[i])
    BY <1>3, <1>5, <2>2
  <2>5. QED
    BY <1>1, <2>1, <2>3, <2>4
<1>8. QED
  BY <1>1, <1>5, <1>6, <1>7 DEF RangesInv

\* RangesInv is an invariant of mergeRange: the slice that is compacted while it
\* is read never loses a range that is still to be read.
THEOREM RangesInvariant == Spec => []RangesInv
<1>1. Init => RangesInv
  <2>1. SUFFICES ASSUME Init PROVE RangesInv
    OBVIOUS
  <2>2. ranges = << >> /\ received = {} /\ pc = "idle" /\ (complete = FALSE)
    BY <2>1, Zenon DEF Init
  <2>3. ranges \in Seq(Chunk) /\ Len(ranges) = 0
    BY <2>2, EmptySeq
  <2>4. 1 .. 0 = {} /\ 0 # 1
    OBVIOUS
  <2>5. Apart(Len(ranges)) /\ ~Covers(ranges) /\ Covers(ranges) \in BOOLEAN
    BY <2>3, <2>4 DEF Apart, Covers
  <2>6. complete = Covers(ranges)
    BY <2>2, <2>5
  <2>7. QED
    BY <2>2, <2>3, <2>4, <2>5, <2>6 DEF RangesInv
<1>2. RangesInv /\ [Next]_vars => RangesInv'
  <2>1. SUFFICES ASSUME RangesInv, [Next]_vars PROVE RangesInv'
    OBVIOUS
  <2>2. CASE \E r \in Chunk : MergeRange(r)
    BY <2>1, <2>2, MergeRangeKeeps
  <2>3. CASE Join
    BY <2>1, <2>3, JoinKeeps
  <2>4. CASE Keep
    BY <2>1, <2>4, KeepKeeps
  <2>5. CASE Return
    BY <2>1, <2>5, ReturnKeeps
  <2>6. CASE UNCHANGED vars
    BY <2>1, <2>6 DEF vars, RangesInv, Merging, Apart, Found, Covers
  <2>7. QED
    BY <2>1, <2>2, <2>3, <2>4, <2>5, <2>6 DEF Next
<1>3. QED
  BY <1>1, <1>2, PTL DEF Spec

\* Between calls the ranges hold exactly the offsets received.
LEMMA ExactWhenIdle ==
  ASSUME RangesInv, pc = "idle"
  PROVE  OffsetsOf(ranges) = received
<1>1. /\ ranges \in Seq(Chunk) /\ DOMAIN ranges = 1 .. Len(ranges)
      /\ \A i \in 1 .. Len(ranges) : ranges[i] \in Chunk
  BY RangesParts, LenProperties
<1>2. \A i \in 1 .. Len(ranges) : Block(ranges[i]) \subseteq Offsets
  BY <1>1, ChunkParts
<1>3. received \subseteq Offsets
  BY DEF RangesInv
<1>4. \A x \in Offsets :
         x \in received <=> \E i \in 1 .. Len(ranges) : x \in Block(ranges[i])
  BY DEF RangesInv
<1>5. QED
  BY <1>1, <1>2, <1>3, <1>4 DEF OffsetsOf

\* Ranges that are apart are everything only as a single range: the offset at
\* the end of a first range that has a successor would be missing.
LEMMA CompleteWhenIdle ==
  ASSUME RangesInv, pc = "idle"
  PROVE  Covers(ranges) <=> received = Offsets
<1>1. /\ Len(ranges) \in Nat
      /\ \A i \in 1 .. Len(ranges) : ranges[i] \in Chunk
      /\ \A i, j \in 1 .. Len(ranges) : i < j => ranges[i][2] < ranges[j][1]
      /\ received \subseteq Offsets
      /\ \A x \in Offsets :
           x \in received <=> \E i \in 1 .. Len(ranges) : x \in Block(ranges[i])
  BY RangesParts DEF RangesInv, Apart
<1>2. \A i \in 1 .. Len(ranges) :
        /\ ranges[i][1] \in Int /\ ranges[i][2] \in Int
        /\ 0 =< ranges[i][1] /\ ranges[i][1] < ranges[i][2] /\ ranges[i][2] =< Size
        /\ \A x \in Int : x \in Block(ranges[i]) <=> ranges[i][1] =< x /\ x < ranges[i][2]
  BY <1>1, ChunkParts
<1>3. Size \in Nat /\ Size > 0 /\ \A x : x \in Offsets <=> x \in Int /\ 0 =< x /\ x < Size
  BY SizeAssumption DEF Offsets
<1>4. ASSUME Covers(ranges) PROVE received = Offsets
  <2>1. 1 \in 1 .. Len(ranges) /\ ranges[1][1] = 0 /\ ranges[1][2] = Size
    BY <1>4 DEF Covers
  <2>2. \A x \in Offsets : x \in Block(ranges[1])
    BY <1>2, <1>3, <2>1
  <2>3. QED
    BY <1>1, <2>1, <2>2
<1>5. ASSUME received = Offsets PROVE Covers(ranges)
  <2>1. \A x \in Offsets : \E i \in 1 .. Len(ranges) : ranges[i][1] =< x /\ x < ranges[i][2]
    BY <1>1, <1>2, <1>3, <1>5
  <2>2. PICK i \in 1 .. Len(ranges) : ranges[i][1] =< 0 /\ 0 < ranges[i][2]
    BY <1>3, <2>1
  <2>3. 1 \in 1 .. Len(ranges) /\ (i = 1 \/ 1 < i)
    BY <1>1
  <2>4. i = 1
    <3>1. SUFFICES ASSUME 1 < i PROVE FALSE
      BY <2>3
    <3>2. ranges[1][2] < ranges[i][1]
      BY <1>1, <2>3, <3>1
    <3>3. QED
      BY <1>2, <2>2, <2>3, <3>2
  <2>5. ranges[1][1] = 0
    BY <1>2, <2>2, <2>3, <2>4
  <2>6. ranges[1][2] = Size
    <3>1. SUFFICES ASSUME ranges[1][2] < Size PROVE FALSE
      BY <1>2, <1>3, <2>3
    <3>2. ranges[1][2] \in Offsets
      BY <1>2, <1>3, <2>3, <3>1
    <3>3. PICK j \in 1 .. Len(ranges) : ranges[j][1] =< ranges[1][2] /\ ranges[1][2] < ranges[j][2]
      BY <2>1, <3>2
    <3>4. CASE j = 1
      BY <1>2, <2>3, <3>3, <3>4
    <3>5. CASE j # 1
      <4>1. 1 < j
        BY <1>1, <3>5
      <4>2. ranges[1][2] < ranges[j][1]
        BY <1>1, <2>3, <4>1
      <4>3. QED
        BY <1>2, <2>3, <3>3, <4>2
    <3>6. QED
      BY <3>4, <3>5
  <2>7. Len(ranges) = 1
    <3>1. SUFFICES ASSUME Len(ranges) # 1 PROVE FALSE
      OBVIOUS
    <3>2. 2 \in 1 .. Len(ranges)
      <4> DEFINE n == Len(ranges)
      <4>1. n \in Nat /\ 1 \in 1 .. n /\ n # 1
        BY <1>1, <2>3, <3>1
      <4> HIDE DEF n
      <4>2. 2 \in 1 .. n
        BY <4>1
      <4>3. QED
        BY <4>2 DEF n
    <3>3. ranges[1][2] < ranges[2][1]
      BY <1>1, <2>3, <3>2
    <3>4. ranges[2][1] < ranges[2][2] /\ ranges[2][2] =< Size
      BY <1>2, <3>2
    <3>5. QED
      BY <1>2, <1>3, <2>6, <3>2, <3>3, <3>4
  <2>8. QED
    BY <2>5, <2>6, <2>7 DEF Covers
<1>6. QED
  BY <1>4, <1>5

\* No order, overlap, nesting or tie makes mergeRange lose or invent an offset.
THEOREM RangesAreExact == Spec => []RangesExact
<1>1. RangesInv => RangesExact
  BY ExactWhenIdle DEF RangesExact
<1>2. QED
  BY <1>1, RangesInvariant, PTL

\* After a call the ranges increase, with gaps between them.
THEOREM RangesAreCanonical == Spec => []RangesCanonical
<1>1. RangesInv => RangesCanonical
  <2>1. SUFFICES ASSUME RangesInv, pc = "idle" 
                 PROVE  /\ \A i \in DOMAIN ranges : ranges[i] \in Chunk
                        /\ \A i \in 1 .. Len(ranges) - 1 : ranges[i][2] < ranges[i + 1][1]
    BY DEF RangesCanonical
  <2>2. /\ DOMAIN ranges = 1 .. Len(ranges) /\ Len(ranges) \in Nat
        /\ \A i \in 1 .. Len(ranges) : ranges[i] \in Chunk
    BY <2>1, RangesParts, LenProperties
  <2>3. \A i, j \in 1 .. Len(ranges) : i < j => ranges[i][2] < ranges[j][1]
    BY <2>1 DEF RangesInv, Apart
  <2>4. \A i \in 1 .. Len(ranges) - 1 :
          i \in 1 .. Len(ranges) /\ i + 1 \in 1 .. Len(ranges) /\ i < i + 1
    BY <2>2
  <2>5. QED
    BY <2>2, <2>3, <2>4
<1>2. QED
  BY <1>1, RangesInvariant, PTL

\* mergeRange answers "complete" exactly when every offset has been received.
THEOREM CompletionIsExact == Spec => []CompleteExact
<1>1. RangesInv => CompleteExact
  <2>1. SUFFICES ASSUME RangesInv, pc = "idle" PROVE complete <=> received = Offsets
    BY DEF CompleteExact
  <2>2. complete = Covers(ranges)
    BY <2>1 DEF RangesInv
  <2>3. QED
    BY <2>1, <2>2, CompleteWhenIdle
<1>2. QED
  BY <1>1, RangesInvariant, PTL
-----------------------------------------------------------------------------
\* What the slice and the locals stand for is what has been received.
LEMMA RecordedIsReceived ==
  ASSUME RangesInv
  PROVE  /\ Recorded = received /\ received \subseteq Offsets
         /\ Answer = (received = Offsets)
<1>1. received \subseteq Offsets /\ pc \in {"idle", "loop"}
  BY DEF RangesInv
<1>2. \A x \in Offsets :
        x \in received <=> IF pc = "idle" THEN \E i \in 1 .. Len(ranges) : x \in Block(ranges[i])
                                         ELSE Found(x)
  BY <1>1 DEF RangesInv, Merging
<1>3. Recorded = received
  BY <1>1, <1>2 DEF Recorded
<1>4. CASE pc = "idle"
  <2>1. complete = Covers(ranges)
    BY <1>4 DEF RangesInv
  <2>2. Covers(ranges) <=> received = Offsets
    BY <1>4, CompleteWhenIdle
  <2>3. Covers(ranges) \in BOOLEAN
    BY DEF Covers
  <2>4. QED
    BY <1>1, <1>3, <1>4, <2>1, <2>2, <2>3 DEF Answer
<1>5. CASE pc # "idle"
  BY <1>1, <1>3, <1>5 DEF Answer
<1>6. QED
  BY <1>4, <1>5

\* mergeRange, with its sort, its loop and its compaction in place, implements the
\* set of offsets that ChunkUpload keeps in its stead.
THEOREM SetOfOffsets == Spec => KeepsSet
<1> DEFINE Fits == Recorded = received /\ Answer = (received = Offsets)
<1>a. RangesInv => Fits
  BY RecordedIsReceived
<1>1. Init => AsSet!Init
  <2>1. SUFFICES ASSUME Init PROVE Recorded = {} /\ Answer = FALSE
    BY DEF AsSet!Init
  <2>2. ranges = << >> /\ pc = "idle" /\ (complete = FALSE)
    BY <2>1, Zenon DEF Init
  <2>3. 1 .. Len(ranges) = {}
    BY <2>2, EmptySeq
  <2>4. QED
    BY <2>2, <2>3 DEF Recorded, Answer
<1>2. Fits /\ Fits' /\ [Next]_vars => [AsSet!Next]_(AsSet!vars)
  <2>1. SUFFICES ASSUME Fits, Fits', [Next]_vars
                 PROVE  AsSet!Next \/ (Recorded' = Recorded /\ Answer' = Answer)
    BY DEF AsSet!vars
  <2>2. /\ Recorded = received /\ Answer = (received = Offsets)
        /\ Recorded' = received' /\ Answer' = (received' = Offsets)
    BY <2>1 DEF Offsets
  <2>3. CASE \E r \in Chunk : MergeRange(r)
    <3>1. PICK r \in Chunk : MergeRange(r)
      BY <2>3
    <3>2. /\ r[1] \in 0 .. Size /\ r[2] \in 0 .. Size /\ r[1] < r[2]
          /\ received' = received \cup r[1] .. (r[2] - 1)
      BY <3>1 DEF MergeRange, Chunk, Block
    <3>3. AsSet!Merge(r[1], r[2])
      BY <2>2, <3>2 DEF AsSet!Merge, Offsets
    <3>4. QED
      BY <3>2, <3>3 DEF AsSet!Next
  <2>4. CASE received' = received
    BY <2>2, <2>4
  <2>5. QED
    BY <2>1, <2>3, <2>4 DEF Next, Join, Keep, Return, vars
<1>3. QED
  BY <1>a, <1>1, <1>2, RangesInvariant, PTL DEF Spec, KeepsSet, AsSet!Spec
=============================================================================
