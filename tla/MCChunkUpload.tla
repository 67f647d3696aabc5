---------------------------- MODULE MCChunkUpload ----------------------------
(***************************************************************************)
(* Instances of ChunkUpload for TLC.  An upload id is a model value; which *)
(* game it uploads and how many blocks it announces is chosen here.        *)
(***************************************************************************)
EXTENDS ChunkUpload, FiniteSets, TLC

CONSTANTS idA, idB, idC,  \* upload ids
          w1, w2, w3

SameSize    == [id \in Ids |-> 2]
\* idC announces two blocks, the others one.
DifferSize  == [id \in Ids |-> IF id = idC THEN 2 ELSE 1]
OneBlock    == [id \in Ids |-> 1]
OneSerial   == [id \in Ids |-> "SLUS"]
TwoSerials  == [id \in Ids |-> IF id = idA THEN "SLUS" ELSE "SCES"]

\* Two halves and the whole; <<1, 2>> is past the end of a one-block file.
ThreeChunks == {<<0, 1>>, <<1, 2>>, <<0, 2>>}
PastChunks  == {<<0, 1>>, <<1, 2>>, <<1, 3>>}
AllChunks   == ThreeChunks \cup PastChunks
OneChunk    == {<<0, 1>>}

SomeMutexes == 0 .. 3

\* A bound: two of the uploads begin, whichever they are.  When their inits have
\* failed nobody knows an id to go on with, and there is no other one left.
Begun == (born \cup {upload[w] : w \in Workers}) \ {NoId}
Pair  == Cardinality(Begun) =< 2

\* Requests are interchangeable; uploads of one game and size are, too.
WorkerSymmetry == Permutations(Workers)
TwinSymmetry   == Permutations(Workers) \cup Permutations({idA, idB})
=============================================================================
