-------------------------- MODULE ChunkUploadProofs --------------------------
(***************************************************************************)
(* Proofs about ChunkUpload, for any number of requests, uploads, chunks   *)
(* and sizes: UploadInv is an inductive invariant, and the safety          *)
(* properties of the module follow from it.                                *)
(*                                                                         *)
(* UploadInv has one lemma per part, which assumes all of UploadInv before *)
(* a step and shows the part after it, with one step per action.           *)
(***************************************************************************)
EXTENDS ChunkUpload, TLAPS

USE DEF disk, lockVars, history, body, removal, locals, UploadInv, TypeOK, Goto

\* A request that acts on an upload has a real upload id.
LEMMA IdsKnown ==
  ASSUME UploadInv, NEW w \in Workers
  PROVE  /\ Wants(w) \/ Arriving(w) \/ Creating(w) => upload[w] \in Ids
         /\ Chunking(w) => Wants(w)
         /\ pc[w] \in {"create", "metaOpen", "metaWrite"} => upload[w] \in Ids
  BY DEF LockInv, InitInv, DiskTypes, Wants, Holds, Inside, Chunking, Creating

\* The mutex of a session excludes: the holders of one mutex are one request.
LEMMA Exclusion == UploadInv => SoleWriter
  BY DEF LockInv, SoleWriter, Wants, Holds, Inside

\* A prefix of a chunk is part of the chunk.
LEMMA BlocksPart ==
  ASSUME NEW s \in Nat, NEW e \in Nat, NEW end \in s .. e
  PROVE  Blocks(<<s, end>>) \subseteq Blocks(<<s, e>>)
  BY DEF Blocks

\* A chunk that ends within the file lies within the file.
LEMMA BlocksWithin ==
  ASSUME UploadInv, NEW w \in Workers, NEW id \in Ids, chunk[w][2] =< SizeOf[id]
  PROVE  Blocks(chunk[w]) \subseteq Offsets(id) /\ Offsets(id) \subseteq Nat
<1>1. chunk[w][1] \in Nat /\ chunk[w][2] \in Nat /\ SizeOf[id] \in Nat
  BY ConstAssumption DEF RequestTypes
<1> QED BY <1>1 DEF Blocks, Offsets

\* When the ranges cover the file, every byte of it has been written.
LEMMA CoveredWritten ==
  ASSUME UploadInv, NEW id \in Ids, Covered(id)
  PROVE  bytes[id] = Offsets(id)
<1>1. ranges[id] \subseteq bytes[id]
  BY DEF DataInv
<1>2. bytes[id] \subseteq Offsets(id)
  BY DEF WithinSize
<1> QED BY <1>1, <1>2 DEF Covered

\* WriteAt, whole or cut short, adds offsets of the chunk and nothing else.
LEMMA ChunkWriteGrows ==
  ASSUME UploadInv, NEW w \in Workers, ChunkWrite(w)
  PROVE  /\ bytes' \in [Ids -> SUBSET Nat]
         /\ \A id \in Ids : /\ bytes[id] \subseteq bytes'[id]
                            /\ bytes'[id] \subseteq Offsets(id)
                            /\ id # upload[w] => bytes'[id] = bytes[id]
                            /\ bytes[id] = Offsets(id) => bytes'[id] = Offsets(id)
<1>1. chunk[w][1] \in Nat /\ chunk[w][2] \in Nat /\ chunk[w] = <<chunk[w][1], chunk[w][2]>>
  BY ConstAssumption DEF RequestTypes
<1>2. \A end \in chunk[w][1] .. chunk[w][2] :
         Blocks(<<chunk[w][1], end>>) \subseteq Blocks(chunk[w])
  BY <1>1, BlocksPart
<1>3. PICK S \in SUBSET Blocks(chunk[w]) : bytes' = [bytes EXCEPT ![upload[w]] = @ \cup S]
  BY <1>2 DEF ChunkWrite
<1>4. upload[w] \in Ids
  BY IdsKnown DEF ChunkWrite, Chunking
<1>5. S \subseteq Offsets(upload[w]) /\ Offsets(upload[w]) \subseteq Nat
  BY <1>4, BlocksWithin DEF ChunkWrite, DataInv, WritesSound, Chunking
<1> QED BY <1>3, <1>4, <1>5 DEF DiskTypes, WithinSize

-----------------------------------------------------------------------------

\* The types of the files' state.
LEMMA DiskTypeStep == ASSUME UploadInv, [Next]_vars PROVE DiskTypes'
<1> USE ConstAssumption DEF Offsets, Blocks, DiskTypes, RequestTypes, InitInv,
        Creating, LockInv, Wants, Holds, Inside
<1>1. ASSUME NEW w \in Workers, NEW id \in Ids, InitRequest(w, id) PROVE DiskTypes'
  BY <1>1 DEF InitRequest, InLibrary
<1>2. ASSUME NEW w \in Workers, NEW id \in Ids, NEW c \in Chunks, ChunkRequest(w, id, c) PROVE DiskTypes'
  BY <1>2 DEF ChunkRequest, UploadLock, FreshMutex
<1>3. ASSUME NEW w \in Workers, NEW id \in Ids, CompleteRequest(w, id) PROVE DiskTypes'
  BY <1>3 DEF CompleteRequest, UploadLock, FreshMutex
<1>4. ASSUME NEW w \in Workers, NEW id \in Ids, AbortRequest(w, id) PROVE DiskTypes'
  BY <1>4 DEF AbortRequest, CallRemoveAll
<1>5. ASSUME NEW w \in Workers, Acquire(w) PROVE DiskTypes'
  BY <1>5 DEF Acquire
<1>6. ASSUME NEW w \in Workers, DropLock(w) PROVE DiskTypes'
  BY <1>6 DEF DropLock, Finish
<1>7. ASSUME NEW w \in Workers, RemoveAllStart(w) PROVE DiskTypes'
  BY <1>7 DEF RemoveAllStart, Return, Finish, Files
<1>8. ASSUME NEW w \in Workers, Unlink(w) PROVE DiskTypes'
  BY <1>8 DEF Unlink
<1>9. ASSUME NEW w \in Workers, RemoveAllEnd(w) PROVE DiskTypes'
  BY <1>9 DEF RemoveAllEnd, Return, Finish, Files
<1>10. ASSUME NEW w \in Workers, SweepDir(w) PROVE DiskTypes'
  BY <1>10 DEF SweepDir
<1>11. ASSUME NEW w \in Workers, Sweep(w) PROVE DiskTypes'
  BY <1>11 DEF Sweep, CallRemoveAll, LooksStale
<1>12. ASSUME NEW w \in Workers, PeersDir(w) PROVE DiskTypes'
  BY <1>12 DEF PeersDir
<1>13. ASSUME NEW w \in Workers, Peers(w) PROVE DiskTypes'
  BY <1>13 DEF Peers, CallRemoveAll, SamePlace, Finish
<1>14. ASSUME NEW w \in Workers, Mkdir(w) PROVE DiskTypes'
  <2>1. upload[w] \in Ids
    BY <1>14, IdsKnown DEF Mkdir, Arriving
  <2> QED BY <1>14, <2>1 DEF Mkdir
<1>15. ASSUME NEW w \in Workers, CreateData(w) PROVE DiskTypes'
  <2>1. \/ UNCHANGED <<part, bytes>>
        \/ /\ part' = [part EXCEPT ![upload[w]] = "part"]
           /\ bytes' = [bytes EXCEPT ![upload[w]] = {}]
    BY <1>15 DEF CreateData
  <2>2. {} \in SUBSET Nat
    OBVIOUS
  <2>3. UNCHANGED <<dirs, meta, ranges, history>>
    BY <1>15 DEF CreateData
  <2>4. part' \in [Ids -> {"none", "part", "library", "gone"}]
    BY <2>1
  <2>5. bytes' \in [Ids -> SUBSET Nat]
    BY <2>1, <2>2
  <2> QED BY <2>3, <2>4, <2>5
<1>16. ASSUME NEW w \in Workers, InitMetaOpen(w) PROVE DiskTypes'
  BY <1>16 DEF InitMetaOpen, CallRemoveAll
<1>17. ASSUME NEW w \in Workers, InitMetaWrite(w) PROVE DiskTypes'
  <2>1. upload[w] \in Ids
    BY <1>17, IdsKnown DEF InitMetaWrite
  <2>2. ranges' \in [Ids -> SUBSET Nat]
    <3>1. ranges' = [ranges EXCEPT ![upload[w]] = {}] \/ ranges' = ranges
      BY <1>17 DEF InitMetaWrite, WriteMeta
    <3>2. {} \in SUBSET Nat
      OBVIOUS
    <3> QED BY <3>1, <3>2
  <2>3. meta' \in [Ids -> {"none", "torn", "full"}]
    BY <1>17 DEF InitMetaWrite, WriteMeta
  <2> QED BY <1>17, <2>1, <2>2, <2>3 DEF InitMetaWrite
<1>18. ASSUME NEW w \in Workers, ChunkRead(w) PROVE DiskTypes'
  BY <1>18 DEF ChunkRead, UnlockAndFinish, Unlock, Finish
<1>19. ASSUME NEW w \in Workers, ChunkOpen(w) PROVE DiskTypes'
  BY <1>19 DEF ChunkOpen, UnlockAndFinish, Unlock, Finish
<1>20. ASSUME NEW w \in Workers, ChunkWrite(w) PROVE DiskTypes'
  <2>1. bytes' \in [Ids -> SUBSET Nat]
    BY <1>20, ChunkWriteGrows
  <2> QED BY <1>20, <2>1 DEF ChunkWrite
<1>21. ASSUME NEW w \in Workers, ChunkMetaOpen(w) PROVE DiskTypes'
  BY <1>21 DEF ChunkMetaOpen, UnlockAndFinish, Unlock, Finish
<1>22. ASSUME NEW w \in Workers, ChunkMetaWrite(w) PROVE DiskTypes'
  <2>1. upload[w] \in Ids
    BY <1>22, IdsKnown DEF ChunkMetaWrite, Chunking
  <2>2. Blocks(chunk[w]) \subseteq Nat
    BY <1>22, <2>1, BlocksWithin DEF ChunkMetaWrite, DataInv, WritesSound, Chunking
  <2>3. snap[w] \in SUBSET Nat
    OBVIOUS
  <2>4. ranges' \in [Ids -> SUBSET Nat]
    <3>1. ranges' = [ranges EXCEPT ![upload[w]] = snap[w]] \/ ranges' = ranges
      BY <1>22 DEF ChunkMetaWrite, WriteMeta
    <3> QED BY <3>1, <2>3
  <2>5. acked' \in [Ids -> SUBSET Nat]
    <3>1. \/ acked' = [acked EXCEPT ![upload[w]] = @ \cup Blocks(chunk[w])]
          \/ acked' = acked
      BY <1>22 DEF ChunkMetaWrite
    <3> QED BY <2>1, <2>2, <3>1
  <2>6. meta' \in [Ids -> {"none", "torn", "full"}]
    BY <1>22 DEF ChunkMetaWrite, WriteMeta
  <2> QED BY <1>22, <2>4, <2>5, <2>6 DEF ChunkMetaWrite
<1>23. ASSUME NEW w \in Workers, FinRead(w) PROVE DiskTypes'
  BY <1>23 DEF FinRead, UnlockAndFinish, Unlock, Finish, Covered
<1>24. ASSUME NEW w \in Workers, FinStat(w) PROVE DiskTypes'
  BY <1>24 DEF FinStat, CallRemoveAll, InLibrary
<1>25. ASSUME NEW w \in Workers, FinRename(w) PROVE DiskTypes'
  BY <1>25 DEF FinRename, CallRemoveAll
<1>26. ASSUME NEW w \in Workers, FinRegister(w) PROVE DiskTypes'
  BY <1>26 DEF FinRegister, CallRemoveAll
<1>27. ASSUME NEW w \in Workers, FinUnlock(w) PROVE DiskTypes'
  BY <1>27 DEF FinUnlock, Unlock
<1>28. ASSUME NEW id \in Ids, Age(id) PROVE DiskTypes'
  BY <1>28 DEF Age
<1>29. ASSUME Restart PROVE DiskTypes'
  BY <1>29 DEF Restart
<1>30. ASSUME UNCHANGED vars PROVE DiskTypes'
  BY <1>30 DEF vars
<1> QED
  BY <1>1, <1>2, <1>3, <1>4, <1>5, <1>6, <1>7, <1>8, <1>9, <1>10, <1>11,
     <1>12, <1>13, <1>14, <1>15, <1>16, <1>17, <1>18, <1>19, <1>20, <1>21,
     <1>22, <1>23, <1>24, <1>25, <1>26, <1>27, <1>28, <1>29, <1>30 DEF Next,
     Request, Step

\* The types of the lock map.
LEMMA LockTypeStep == ASSUME UploadInv, [Next]_vars PROVE LockTypes'
<1> USE ConstAssumption DEF LockTypes, RequestTypes, LockInv, Wants, Holds,
        Inside
<1>1. ASSUME NEW w \in Workers, NEW id \in Ids, InitRequest(w, id) PROVE LockTypes'
  BY <1>1 DEF InitRequest, InLibrary
<1>2. ASSUME NEW w \in Workers, NEW id \in Ids, NEW c \in Chunks, ChunkRequest(w, id, c) PROVE LockTypes'
  BY SMTT(30), <1>2 DEF ChunkRequest, UploadLock, FreshMutex
<1>3. ASSUME NEW w \in Workers, NEW id \in Ids, CompleteRequest(w, id) PROVE LockTypes'
  BY SMTT(30), <1>3 DEF CompleteRequest, UploadLock, FreshMutex
<1>4. ASSUME NEW w \in Workers, NEW id \in Ids, AbortRequest(w, id) PROVE LockTypes'
  BY <1>4 DEF AbortRequest, CallRemoveAll
<1>5. ASSUME NEW w \in Workers, Acquire(w) PROVE LockTypes'
  BY <1>5 DEF Acquire
<1>6. ASSUME NEW w \in Workers, DropLock(w) PROVE LockTypes'
  BY <1>6 DEF DropLock, Finish
<1>7. ASSUME NEW w \in Workers, RemoveAllStart(w) PROVE LockTypes'
  BY <1>7 DEF RemoveAllStart, Return, Finish, Files
<1>8. ASSUME NEW w \in Workers, Unlink(w) PROVE LockTypes'
  BY <1>8 DEF Unlink
<1>9. ASSUME NEW w \in Workers, RemoveAllEnd(w) PROVE LockTypes'
  BY <1>9 DEF RemoveAllEnd, Return, Finish, Files
<1>10. ASSUME NEW w \in Workers, SweepDir(w) PROVE LockTypes'
  BY <1>10 DEF SweepDir
<1>11. ASSUME NEW w \in Workers, Sweep(w) PROVE LockTypes'
  BY <1>11 DEF Sweep, CallRemoveAll, LooksStale
<1>12. ASSUME NEW w \in Workers, PeersDir(w) PROVE LockTypes'
  BY <1>12 DEF PeersDir
<1>13. ASSUME NEW w \in Workers, Peers(w) PROVE LockTypes'
  BY <1>13 DEF Peers, CallRemoveAll, SamePlace, Finish
<1>14. ASSUME NEW w \in Workers, Mkdir(w) PROVE LockTypes'
  <2>1. CASE Finish(w)
    BY <1>14, <2>1 DEF Mkdir, Finish
  <2>2. CASE ~Finish(w)
    BY <1>14, <2>2 DEF Mkdir
  <2> QED BY <2>1, <2>2
<1>15. ASSUME NEW w \in Workers, CreateData(w) PROVE LockTypes'
  BY <1>15 DEF CreateData, CallRemoveAll, Finish
<1>16. ASSUME NEW w \in Workers, InitMetaOpen(w) PROVE LockTypes'
  BY <1>16 DEF InitMetaOpen, CallRemoveAll
<1>17. ASSUME NEW w \in Workers, InitMetaWrite(w) PROVE LockTypes'
  BY <1>17 DEF InitMetaWrite, CallRemoveAll, WriteMeta, Finish
<1>18. ASSUME NEW w \in Workers, ChunkRead(w) PROVE LockTypes'
  BY <1>18 DEF ChunkRead, UnlockAndFinish, Unlock, Finish
<1>19. ASSUME NEW w \in Workers, ChunkOpen(w) PROVE LockTypes'
  BY <1>19 DEF ChunkOpen, UnlockAndFinish, Unlock, Finish
<1>20. ASSUME NEW w \in Workers, ChunkWrite(w) PROVE LockTypes'
  BY <1>20 DEF ChunkWrite, UnlockAndFinish, Unlock, Finish
<1>21. ASSUME NEW w \in Workers, ChunkMetaOpen(w) PROVE LockTypes'
  BY <1>21 DEF ChunkMetaOpen, UnlockAndFinish, Unlock, Finish
<1>22. ASSUME NEW w \in Workers, ChunkMetaWrite(w) PROVE LockTypes'
  BY <1>22 DEF ChunkMetaWrite, UnlockAndFinish, Unlock, Finish, WriteMeta
<1>23. ASSUME NEW w \in Workers, FinRead(w) PROVE LockTypes'
  BY <1>23 DEF FinRead, UnlockAndFinish, Unlock, Finish, Covered
<1>24. ASSUME NEW w \in Workers, FinStat(w) PROVE LockTypes'
  BY <1>24 DEF FinStat, CallRemoveAll, InLibrary
<1>25. ASSUME NEW w \in Workers, FinRename(w) PROVE LockTypes'
  BY <1>25 DEF FinRename, CallRemoveAll
<1>26. ASSUME NEW w \in Workers, FinRegister(w) PROVE LockTypes'
  BY <1>26 DEF FinRegister, CallRemoveAll
<1>27. ASSUME NEW w \in Workers, FinUnlock(w) PROVE LockTypes'
  BY <1>27 DEF FinUnlock, Unlock
<1>28. ASSUME NEW id \in Ids, Age(id) PROVE LockTypes'
  BY <1>28 DEF Age
<1>29. ASSUME Restart PROVE LockTypes'
  BY <1>29 DEF Restart
<1>30. ASSUME UNCHANGED vars PROVE LockTypes'
  BY <1>30 DEF vars
<1> QED
  BY <1>1, <1>2, <1>3, <1>4, <1>5, <1>6, <1>7, <1>8, <1>9, <1>10, <1>11,
     <1>12, <1>13, <1>14, <1>15, <1>16, <1>17, <1>18, <1>19, <1>20, <1>21,
     <1>22, <1>23, <1>24, <1>25, <1>26, <1>27, <1>28, <1>29, <1>30 DEF Next,
     Request, Step

\* The types of the requests' local variables.
LEMMA RequestTypeStep == ASSUME UploadInv, [Next]_vars PROVE RequestTypes'
<1> USE ConstAssumption DEF RequestTypes, Labels
<1>1. ASSUME NEW w \in Workers, NEW id \in Ids, InitRequest(w, id) PROVE RequestTypes'
  BY <1>1 DEF InitRequest, InLibrary
<1>2. ASSUME NEW w \in Workers, NEW id \in Ids, NEW c \in Chunks, ChunkRequest(w, id, c) PROVE RequestTypes'
  BY <1>2 DEF ChunkRequest, UploadLock, FreshMutex, LockTypes
<1>3. ASSUME NEW w \in Workers, NEW id \in Ids, CompleteRequest(w, id) PROVE RequestTypes'
  BY <1>3 DEF CompleteRequest, UploadLock, FreshMutex, LockTypes
<1>4. ASSUME NEW w \in Workers, NEW id \in Ids, AbortRequest(w, id) PROVE RequestTypes'
  BY <1>4 DEF AbortRequest, CallRemoveAll
<1>5. ASSUME NEW w \in Workers, Acquire(w) PROVE RequestTypes'
  BY <1>5 DEF Acquire
<1>6. ASSUME NEW w \in Workers, DropLock(w) PROVE RequestTypes'
  <2>1. CASE Finish(w)
    BY <1>6, <2>1 DEF DropLock, Finish
  <2>2. CASE ~Finish(w)
    BY <1>6, <2>2 DEF DropLock
  <2> QED BY <2>1, <2>2
<1>7. ASSUME NEW w \in Workers, RemoveAllStart(w) PROVE RequestTypes'
  <2>1. CASE Finish(w)
    BY <1>7, <2>1 DEF RemoveAllStart, Return, Finish, Files
  <2>2. CASE ~Finish(w)
    BY <1>7, <2>2 DEF RemoveAllStart, Return, Files
  <2> QED BY <2>1, <2>2
<1>8. ASSUME NEW w \in Workers, Unlink(w) PROVE RequestTypes'
  BY <1>8 DEF Unlink
<1>9. ASSUME NEW w \in Workers, RemoveAllEnd(w) PROVE RequestTypes'
  <2>1. CASE Finish(w)
    BY <1>9, <2>1 DEF RemoveAllEnd, Return, Finish, Files
  <2>2. CASE ~Finish(w)
    BY <1>9, <2>2 DEF RemoveAllEnd, Return, Files
  <2> QED BY <2>1, <2>2
<1>10. ASSUME NEW w \in Workers, SweepDir(w) PROVE RequestTypes'
  BY <1>10 DEF SweepDir, DiskTypes
<1>11. ASSUME NEW w \in Workers, Sweep(w) PROVE RequestTypes'
  BY <1>11 DEF Sweep, CallRemoveAll, LooksStale
<1>12. ASSUME NEW w \in Workers, PeersDir(w) PROVE RequestTypes'
  BY <1>12 DEF PeersDir, DiskTypes
<1>13. ASSUME NEW w \in Workers, Peers(w) PROVE RequestTypes'
  <2>1. CASE Finish(w)
    BY <1>13, <2>1 DEF Peers, CallRemoveAll, SamePlace, Finish
  <2>2. CASE ~Finish(w)
    BY <1>13, <2>2 DEF Peers, CallRemoveAll, SamePlace
  <2> QED BY <2>1, <2>2
<1>14. ASSUME NEW w \in Workers, Mkdir(w) PROVE RequestTypes'
  <2>1. CASE Finish(w)
    BY <1>14, <2>1 DEF Mkdir, Finish
  <2>2. CASE ~Finish(w)
    BY <1>14, <2>2 DEF Mkdir
  <2> QED BY <2>1, <2>2
<1>15. ASSUME NEW w \in Workers, CreateData(w) PROVE RequestTypes'
  <2>1. upload[w] \in Ids
    BY <1>15, IdsKnown DEF CreateData, Creating, Chunking, Wants, Holds, Inside
  <2>2. CASE Finish(w)
    BY <1>15, <2>1, <2>2 DEF CreateData, Finish
  <2>3. CASE ~Finish(w)
    BY <1>15, <2>1, <2>3 DEF CreateData, CallRemoveAll
  <2> QED BY <2>2, <2>3
<1>16. ASSUME NEW w \in Workers, InitMetaOpen(w) PROVE RequestTypes'
  <2>1. upload[w] \in Ids
    BY <1>16, IdsKnown DEF InitMetaOpen, Creating, Chunking, Wants, Holds, Inside
  <2>2. CASE upload[w] \in dirs
    BY <1>16, <2>1, <2>2 DEF InitMetaOpen, CallRemoveAll
  <2>3. CASE upload[w] \notin dirs
    BY <1>16, <2>1, <2>3 DEF InitMetaOpen, CallRemoveAll
  <2> QED BY <2>2, <2>3
<1>17. ASSUME NEW w \in Workers, InitMetaWrite(w) PROVE RequestTypes'
  <2>1. upload[w] \in Ids
    BY <1>17, IdsKnown DEF InitMetaWrite, Creating, Chunking, Wants, Holds, Inside
  <2>2. CASE Finish(w)
    BY <1>17, <2>1, <2>2 DEF InitMetaWrite, Finish
  <2>3. CASE ~Finish(w)
    BY <1>17, <2>1, <2>3 DEF InitMetaWrite, CallRemoveAll
  <2> QED BY <2>2, <2>3
<1>18. ASSUME NEW w \in Workers, ChunkRead(w) PROVE RequestTypes'
  <2>1. CASE Finish(w)
    BY <1>18, <2>1 DEF ChunkRead, Finish
  <2>2. CASE ~Finish(w)
    <3>1. ranges[upload[w]] \in SUBSET Nat
      BY <1>18, IdsKnown DEF ChunkRead, Wants, Holds, DiskTypes
    <3>2. snap' = [snap EXCEPT ![w] = ranges[upload[w]]]
      BY <1>18, <2>2 DEF ChunkRead, UnlockAndFinish
    <3>3. pc' = [pc EXCEPT ![w] = "chunkOpen"] /\ UNCHANGED <<upload, mu, chunk, todo, removal>>
      BY <1>18, <2>2 DEF ChunkRead, UnlockAndFinish
    <3> QED BY <3>1, <3>2, <3>3
  <2> QED BY <2>1, <2>2
<1>19. ASSUME NEW w \in Workers, ChunkOpen(w) PROVE RequestTypes'
  <2>1. CASE Finish(w)
    BY <1>19, <2>1 DEF ChunkOpen, UnlockAndFinish, Unlock, Finish
  <2>2. CASE ~Finish(w)
    BY <1>19, <2>2 DEF ChunkOpen, UnlockAndFinish, Unlock
  <2> QED BY <2>1, <2>2
<1>20. ASSUME NEW w \in Workers, ChunkWrite(w) PROVE RequestTypes'
  <2>1. CASE Finish(w)
    BY <1>20, <2>1 DEF ChunkWrite, UnlockAndFinish, Unlock, Finish
  <2>2. CASE ~Finish(w)
    BY <1>20, <2>2 DEF ChunkWrite, UnlockAndFinish, Unlock
  <2> QED BY <2>1, <2>2
<1>21. ASSUME NEW w \in Workers, ChunkMetaOpen(w) PROVE RequestTypes'
  <2>1. CASE Finish(w)
    BY <1>21, <2>1 DEF ChunkMetaOpen, Finish
  <2>2. CASE ~Finish(w)
    <3>1. upload[w] \in Ids
      BY <1>21, IdsKnown DEF ChunkMetaOpen, Chunking
    <3>2. snap[w] \cup Blocks(chunk[w]) \in SUBSET Nat
      BY <1>21, <3>1, BlocksWithin DEF ChunkMetaOpen, DataInv, WritesSound, Chunking
    <3>3. snap' = [snap EXCEPT ![w] = @ \cup Blocks(chunk[w])]
      BY <1>21, <2>2 DEF ChunkMetaOpen, UnlockAndFinish
    <3>4. snap' \in [Workers -> SUBSET Nat]
      BY <3>2, <3>3
    <3> QED BY <1>21, <2>2, <3>4 DEF ChunkMetaOpen, UnlockAndFinish
  <2> QED BY <2>1, <2>2
<1>22. ASSUME NEW w \in Workers, ChunkMetaWrite(w) PROVE RequestTypes'
  BY <1>22 DEF ChunkMetaWrite, UnlockAndFinish, Unlock, Finish, WriteMeta
<1>23. ASSUME NEW w \in Workers, FinRead(w) PROVE RequestTypes'
  <2>1. CASE Finish(w)
    BY <1>23, <2>1 DEF FinRead, UnlockAndFinish, Unlock, Finish, Covered
  <2>2. CASE ~Finish(w)
    BY <1>23, <2>2 DEF FinRead, UnlockAndFinish, Unlock, Covered
  <2> QED BY <2>1, <2>2
<1>24. ASSUME NEW w \in Workers, FinStat(w) PROVE RequestTypes'
  <2>1. upload[w] \in Ids
    BY <1>24, IdsKnown DEF FinStat, Creating, Chunking, Wants, Holds, Inside
  <2>2. CASE InLibrary(SerialOf[upload[w]])
    BY <1>24, <2>1, <2>2 DEF FinStat, CallRemoveAll
  <2>3. CASE ~InLibrary(SerialOf[upload[w]])
    BY <1>24, <2>1, <2>3 DEF FinStat
  <2> QED BY <2>2, <2>3
<1>25. ASSUME NEW w \in Workers, FinRename(w) PROVE RequestTypes'
  <2>1. upload[w] \in Ids
    BY <1>25, IdsKnown DEF FinRename, Creating, Chunking, Wants, Holds, Inside
  <2>2. CASE Goto(w, "finRegister") /\ UNCHANGED removal
    BY <1>25, <2>1, <2>2 DEF FinRename
  <2>3. CASE CallRemoveAll(w, upload[w], "finUnlock")
    BY <1>25, <2>1, <2>3 DEF FinRename, CallRemoveAll
  <2> QED BY <1>25, <2>2, <2>3 DEF FinRename
<1>26. ASSUME NEW w \in Workers, FinRegister(w) PROVE RequestTypes'
  <2>1. upload[w] \in Ids
    BY <1>26, IdsKnown DEF FinRegister, Wants, Holds, Inside
  <2> QED BY <1>26, <2>1 DEF FinRegister, CallRemoveAll
<1>27. ASSUME NEW w \in Workers, FinUnlock(w) PROVE RequestTypes'
  BY <1>27 DEF FinUnlock, Unlock
<1>28. ASSUME NEW id \in Ids, Age(id) PROVE RequestTypes'
  BY <1>28 DEF Age
<1>29. ASSUME Restart PROVE RequestTypes'
  BY <1>29 DEF Restart
<1>30. ASSUME UNCHANGED vars PROVE RequestTypes'
  BY <1>30 DEF vars
<1> QED
  BY <1>1, <1>2, <1>3, <1>4, <1>5, <1>6, <1>7, <1>8, <1>9, <1>10, <1>11,
     <1>12, <1>13, <1>14, <1>15, <1>16, <1>17, <1>18, <1>19, <1>20, <1>21,
     <1>22, <1>23, <1>24, <1>25, <1>26, <1>27, <1>28, <1>29, <1>30 DEF Next,
     Request, Step

\* Nothing past the announced size: chunks are checked before they are written.
LEMMA WithinSizeStep == ASSUME UploadInv, [Next]_vars PROVE WithinSize'
<1> USE ConstAssumption DEF DiskTypes, WithinSize, Offsets
<1>1. ASSUME NEW w \in Workers, NEW id \in Ids, InitRequest(w, id) PROVE WithinSize'
  BY <1>1 DEF InitRequest, InLibrary
<1>2. ASSUME NEW w \in Workers, NEW id \in Ids, NEW c \in Chunks, ChunkRequest(w, id, c) PROVE WithinSize'
  BY <1>2 DEF ChunkRequest, UploadLock, FreshMutex
<1>3. ASSUME NEW w \in Workers, NEW id \in Ids, CompleteRequest(w, id) PROVE WithinSize'
  BY <1>3 DEF CompleteRequest, UploadLock, FreshMutex
<1>4. ASSUME NEW w \in Workers, NEW id \in Ids, AbortRequest(w, id) PROVE WithinSize'
  BY <1>4 DEF AbortRequest, CallRemoveAll
<1>5. ASSUME NEW w \in Workers, Acquire(w) PROVE WithinSize'
  BY <1>5 DEF Acquire
<1>6. ASSUME NEW w \in Workers, DropLock(w) PROVE WithinSize'
  <2>1. CASE Finish(w)
    BY <1>6, <2>1 DEF DropLock, Finish
  <2>2. CASE ~Finish(w)
    BY <1>6, <2>2 DEF DropLock
  <2> QED BY <2>1, <2>2
<1>7. ASSUME NEW w \in Workers, RemoveAllStart(w) PROVE WithinSize'
  <2>1. CASE Finish(w)
    BY <1>7, <2>1 DEF RemoveAllStart, Return, Finish, Files
  <2>2. CASE ~Finish(w)
    BY <1>7, <2>2 DEF RemoveAllStart, Return, Files
  <2> QED BY <2>1, <2>2
<1>8. ASSUME NEW w \in Workers, Unlink(w) PROVE WithinSize'
  BY <1>8 DEF Unlink
<1>9. ASSUME NEW w \in Workers, RemoveAllEnd(w) PROVE WithinSize'
  <2>1. CASE Finish(w)
    BY <1>9, <2>1 DEF RemoveAllEnd, Return, Finish, Files
  <2>2. CASE ~Finish(w)
    BY <1>9, <2>2 DEF RemoveAllEnd, Return, Files
  <2> QED BY <2>1, <2>2
<1>10. ASSUME NEW w \in Workers, SweepDir(w) PROVE WithinSize'
  BY <1>10 DEF SweepDir
<1>11. ASSUME NEW w \in Workers, Sweep(w) PROVE WithinSize'
  BY <1>11 DEF Sweep, CallRemoveAll, LooksStale
<1>12. ASSUME NEW w \in Workers, PeersDir(w) PROVE WithinSize'
  BY <1>12 DEF PeersDir
<1>13. ASSUME NEW w \in Workers, Peers(w) PROVE WithinSize'
  <2>1. CASE Finish(w)
    BY <1>13, <2>1 DEF Peers, CallRemoveAll, SamePlace, Finish
  <2>2. CASE ~Finish(w)
    BY <1>13, <2>2 DEF Peers, CallRemoveAll, SamePlace
  <2> QED BY <2>1, <2>2
<1>14. ASSUME NEW w \in Workers, Mkdir(w) PROVE WithinSize'
  <2>1. CASE Finish(w)
    BY <1>14, <2>1 DEF Mkdir, Finish
  <2>2. CASE ~Finish(w)
    BY <1>14, <2>2 DEF Mkdir
  <2> QED BY <2>1, <2>2
<1>15. ASSUME NEW w \in Workers, CreateData(w) PROVE WithinSize'
  <2>1. upload[w] \in Ids
    BY <1>15, IdsKnown DEF CreateData, Creating
  <2>2. UNCHANGED <<ranges, acked>>
    BY <1>15 DEF CreateData
  <2>3. bytes' = bytes \/ bytes' = [bytes EXCEPT ![upload[w]] = {}]
    BY <1>15 DEF CreateData
  <2> QED BY <2>1, <2>2, <2>3
<1>16. ASSUME NEW w \in Workers, InitMetaOpen(w) PROVE WithinSize'
  BY <1>16 DEF InitMetaOpen, CallRemoveAll
<1>17. ASSUME NEW w \in Workers, InitMetaWrite(w) PROVE WithinSize'
  <2>1. UNCHANGED <<bytes, acked>>
    BY <1>17 DEF InitMetaWrite
  <2>2. ranges' = ranges \/ ranges' = [ranges EXCEPT ![upload[w]] = {}]
    BY <1>17 DEF InitMetaWrite, WriteMeta
  <2> QED BY <2>1, <2>2
<1>18. ASSUME NEW w \in Workers, ChunkRead(w) PROVE WithinSize'
  <2>1. CASE Finish(w)
    BY <1>18, <2>1 DEF ChunkRead, UnlockAndFinish, Unlock, Finish
  <2>2. CASE ~Finish(w)
    BY <1>18, <2>2 DEF ChunkRead, UnlockAndFinish, Unlock
  <2> QED BY <2>1, <2>2
<1>19. ASSUME NEW w \in Workers, ChunkOpen(w) PROVE WithinSize'
  <2>1. CASE Finish(w)
    BY <1>19, <2>1 DEF ChunkOpen, UnlockAndFinish, Unlock, Finish
  <2>2. CASE ~Finish(w)
    BY <1>19, <2>2 DEF ChunkOpen, UnlockAndFinish, Unlock
  <2> QED BY <2>1, <2>2
<1>20. ASSUME NEW w \in Workers, ChunkWrite(w) PROVE WithinSize'
  <2>1. UNCHANGED <<ranges, acked>>
    BY <1>20 DEF ChunkWrite
  <2> QED BY <1>20, <2>1, ChunkWriteGrows DEF WithinSize, Offsets
<1>21. ASSUME NEW w \in Workers, ChunkMetaOpen(w) PROVE WithinSize'
  <2>1. CASE Finish(w)
    BY <1>21, <2>1 DEF ChunkMetaOpen, UnlockAndFinish, Unlock, Finish
  <2>2. CASE ~Finish(w)
    BY <1>21, <2>2 DEF ChunkMetaOpen, UnlockAndFinish, Unlock
  <2> QED BY <2>1, <2>2
<1>22. ASSUME NEW w \in Workers, ChunkMetaWrite(w) PROVE WithinSize'
  <2>1. upload[w] \in Ids
    BY <1>22, IdsKnown DEF ChunkMetaWrite, Chunking
  <2>2. snap[w] \cup Blocks(chunk[w]) \subseteq Offsets(upload[w])
    BY <1>22, <2>1 DEF ChunkMetaWrite, DataInv, WritesSound, Chunking
  <2>3. ranges' = ranges \/ ranges' = [ranges EXCEPT ![upload[w]] = snap[w]]
    BY <1>22 DEF ChunkMetaWrite, WriteMeta
  <2>4. acked' = acked \/ acked' = [acked EXCEPT ![upload[w]] = @ \cup Blocks(chunk[w])]
    BY <1>22 DEF ChunkMetaWrite
  <2>5. UNCHANGED bytes
    BY <1>22 DEF ChunkMetaWrite
  <2> QED BY <2>1, <2>2, <2>3, <2>4, <2>5
<1>23. ASSUME NEW w \in Workers, FinRead(w) PROVE WithinSize'
  <2>1. CASE Finish(w)
    BY <1>23, <2>1 DEF FinRead, UnlockAndFinish, Unlock, Finish, Covered
  <2>2. CASE ~Finish(w)
    BY <1>23, <2>2 DEF FinRead, UnlockAndFinish, Unlock, Covered
  <2> QED BY <2>1, <2>2
<1>24. ASSUME NEW w \in Workers, FinStat(w) PROVE WithinSize'
  BY <1>24 DEF FinStat, CallRemoveAll, InLibrary
<1>25. ASSUME NEW w \in Workers, FinRename(w) PROVE WithinSize'
  BY <1>25 DEF FinRename, CallRemoveAll
<1>26. ASSUME NEW w \in Workers, FinRegister(w) PROVE WithinSize'
  BY <1>26 DEF FinRegister, CallRemoveAll
<1>27. ASSUME NEW w \in Workers, FinUnlock(w) PROVE WithinSize'
  BY <1>27 DEF FinUnlock, Unlock
<1>28. ASSUME NEW id \in Ids, Age(id) PROVE WithinSize'
  BY <1>28 DEF Age
<1>29. ASSUME Restart PROVE WithinSize'
  BY <1>29 DEF Restart
<1>30. ASSUME UNCHANGED vars PROVE WithinSize'
  BY <1>30 DEF vars
<1> QED
  BY <1>1, <1>2, <1>3, <1>4, <1>5, <1>6, <1>7, <1>8, <1>9, <1>10, <1>11,
     <1>12, <1>13, <1>14, <1>15, <1>16, <1>17, <1>18, <1>19, <1>20, <1>21,
     <1>22, <1>23, <1>24, <1>25, <1>26, <1>27, <1>28, <1>29, <1>30 DEF Next,
     Request, Step

\* A session is made once, and its parts appear in one order.
LEMMA LifeStep == ASSUME UploadInv, [Next]_vars PROVE LifeInv'
<1> USE ConstAssumption DEF DiskTypes, LockTypes, RequestTypes, InitInv,
        Creating, Arriving, LifeInv, LockInv, Wants, Holds, Inside
<1>1. ASSUME NEW w \in Workers, NEW id \in Ids, InitRequest(w, id) PROVE LifeInv'
  BY <1>1 DEF InitRequest, InLibrary
<1>2. ASSUME NEW w \in Workers, NEW id \in Ids, NEW c \in Chunks, ChunkRequest(w, id, c) PROVE LifeInv'
  BY <1>2 DEF ChunkRequest, UploadLock, FreshMutex
<1>3. ASSUME NEW w \in Workers, NEW id \in Ids, CompleteRequest(w, id) PROVE LifeInv'
  BY <1>3 DEF CompleteRequest, UploadLock, FreshMutex
<1>4. ASSUME NEW w \in Workers, NEW id \in Ids, AbortRequest(w, id) PROVE LifeInv'
  BY <1>4 DEF AbortRequest, CallRemoveAll
<1>5. ASSUME NEW w \in Workers, Acquire(w) PROVE LifeInv'
  BY <1>5 DEF Acquire
<1>6. ASSUME NEW w \in Workers, DropLock(w) PROVE LifeInv'
  BY <1>6 DEF DropLock, Finish
<1>7. ASSUME NEW w \in Workers, RemoveAllStart(w) PROVE LifeInv'
  BY <1>7 DEF RemoveAllStart, Return, Finish, Files
<1>8. ASSUME NEW w \in Workers, Unlink(w) PROVE LifeInv'
  BY <1>8 DEF Unlink
<1>9. ASSUME NEW w \in Workers, RemoveAllEnd(w) PROVE LifeInv'
  BY <1>9 DEF RemoveAllEnd, Return, Finish, Files
<1>10. ASSUME NEW w \in Workers, SweepDir(w) PROVE LifeInv'
  BY <1>10 DEF SweepDir
<1>11. ASSUME NEW w \in Workers, Sweep(w) PROVE LifeInv'
  BY <1>11 DEF Sweep, CallRemoveAll, LooksStale
<1>12. ASSUME NEW w \in Workers, PeersDir(w) PROVE LifeInv'
  BY <1>12 DEF PeersDir
<1>13. ASSUME NEW w \in Workers, Peers(w) PROVE LifeInv'
  BY <1>13 DEF Peers, CallRemoveAll, SamePlace, Finish
<1>14. ASSUME NEW w \in Workers, Mkdir(w) PROVE LifeInv'
  <2>1. CASE Finish(w)
    BY <1>14, <2>1 DEF Mkdir, Finish
  <2>2. CASE ~Finish(w)
    BY <1>14, <2>2 DEF Mkdir
  <2> QED BY <2>1, <2>2
<1>15. ASSUME NEW w \in Workers, CreateData(w) PROVE LifeInv'
  <2>1. CASE Finish(w)
    BY SMTT(30), <1>15, <2>1 DEF CreateData, CallRemoveAll, Finish
  <2>2. CASE ~Finish(w)
    BY SMTT(30), <1>15, <2>2 DEF CreateData, CallRemoveAll
  <2> QED BY <2>1, <2>2
<1>16. ASSUME NEW w \in Workers, InitMetaOpen(w) PROVE LifeInv'
  BY <1>16 DEF InitMetaOpen, CallRemoveAll
<1>17. ASSUME NEW w \in Workers, InitMetaWrite(w) PROVE LifeInv'
  BY <1>17 DEF InitMetaWrite, CallRemoveAll, WriteMeta, Finish
<1>18. ASSUME NEW w \in Workers, ChunkRead(w) PROVE LifeInv'
  BY <1>18 DEF ChunkRead, UnlockAndFinish, Unlock, Finish
<1>19. ASSUME NEW w \in Workers, ChunkOpen(w) PROVE LifeInv'
  BY <1>19 DEF ChunkOpen, UnlockAndFinish, Unlock, Finish
<1>20. ASSUME NEW w \in Workers, ChunkWrite(w) PROVE LifeInv'
  <2>1. upload[w] \in issued
    BY <1>20 DEF ChunkWrite
  <2>2. UNCHANGED <<dirs, meta, ranges, part, born, issued, acked>>
    BY <1>20 DEF ChunkWrite
  <2>3. \A id \in Ids : id # upload[w] => bytes'[id] = bytes[id]
    BY <1>20, ChunkWriteGrows
  <2> QED BY <2>1, <2>2, <2>3
<1>21. ASSUME NEW w \in Workers, ChunkMetaOpen(w) PROVE LifeInv'
  BY <1>21 DEF ChunkMetaOpen, UnlockAndFinish, Unlock, Finish
<1>22. ASSUME NEW w \in Workers, ChunkMetaWrite(w) PROVE LifeInv'
  <2>1. CASE Finish(w)
    BY SMTT(30), <1>22, <2>1 DEF ChunkMetaWrite, UnlockAndFinish, Unlock, Finish, WriteMeta
  <2>2. CASE ~Finish(w)
    BY SMTT(30), <1>22, <2>2 DEF ChunkMetaWrite, UnlockAndFinish, Unlock, WriteMeta
  <2> QED BY <2>1, <2>2
<1>23. ASSUME NEW w \in Workers, FinRead(w) PROVE LifeInv'
  BY <1>23 DEF FinRead, UnlockAndFinish, Unlock, Finish, Covered
<1>24. ASSUME NEW w \in Workers, FinStat(w) PROVE LifeInv'
  BY <1>24 DEF FinStat, CallRemoveAll, InLibrary
<1>25. ASSUME NEW w \in Workers, FinRename(w) PROVE LifeInv'
  BY <1>25 DEF FinRename, CallRemoveAll
<1>26. ASSUME NEW w \in Workers, FinRegister(w) PROVE LifeInv'
  BY <1>26 DEF FinRegister, CallRemoveAll
<1>27. ASSUME NEW w \in Workers, FinUnlock(w) PROVE LifeInv'
  BY <1>27 DEF FinUnlock, Unlock
<1>28. ASSUME NEW id \in Ids, Age(id) PROVE LifeInv'
  BY <1>28 DEF Age
<1>29. ASSUME Restart PROVE LifeInv'
  BY <1>29 DEF Restart
<1>30. ASSUME UNCHANGED vars PROVE LifeInv'
  BY <1>30 DEF vars
<1> QED
  BY <1>1, <1>2, <1>3, <1>4, <1>5, <1>6, <1>7, <1>8, <1>9, <1>10, <1>11,
     <1>12, <1>13, <1>14, <1>15, <1>16, <1>17, <1>18, <1>19, <1>20, <1>21,
     <1>22, <1>23, <1>24, <1>25, <1>26, <1>27, <1>28, <1>29, <1>30 DEF Next,
     Request, Step

\* No other request knows the session an init is making.
LEMMA InitStep == ASSUME UploadInv, [Next]_vars PROVE InitInv'
<1> USE ConstAssumption DEF DiskTypes, LockTypes, RequestTypes, InitInv,
        Arriving, Creating, LifeInv, LockInv, Wants, Holds, Inside
<1>1. ASSUME NEW w \in Workers, NEW id \in Ids, InitRequest(w, id) PROVE InitInv'
  BY <1>1 DEF InitRequest, InLibrary
<1>2. ASSUME NEW w \in Workers, NEW id \in Ids, NEW c \in Chunks, ChunkRequest(w, id, c) PROVE InitInv'
  BY <1>2 DEF ChunkRequest, UploadLock, FreshMutex
<1>3. ASSUME NEW w \in Workers, NEW id \in Ids, CompleteRequest(w, id) PROVE InitInv'
  BY <1>3 DEF CompleteRequest, UploadLock, FreshMutex
<1>4. ASSUME NEW w \in Workers, NEW id \in Ids, AbortRequest(w, id) PROVE InitInv'
  BY <1>4 DEF AbortRequest, CallRemoveAll
<1>5. ASSUME NEW w \in Workers, Acquire(w) PROVE InitInv'
  BY <1>5 DEF Acquire
<1>6. ASSUME NEW w \in Workers, DropLock(w) PROVE InitInv'
  <2>1. CASE Finish(w)
    BY <1>6, <2>1 DEF DropLock, Finish
  <2>2. CASE ~Finish(w)
    BY <1>6, <2>2 DEF DropLock
  <2> QED BY <2>1, <2>2
<1>7. ASSUME NEW w \in Workers, RemoveAllStart(w) PROVE InitInv'
  BY <1>7 DEF RemoveAllStart, Return, Finish, Files
<1>8. ASSUME NEW w \in Workers, Unlink(w) PROVE InitInv'
  BY <1>8 DEF Unlink
<1>9. ASSUME NEW w \in Workers, RemoveAllEnd(w) PROVE InitInv'
  BY <1>9 DEF RemoveAllEnd, Return, Finish, Files
<1>10. ASSUME NEW w \in Workers, SweepDir(w) PROVE InitInv'
  BY <1>10 DEF SweepDir
<1>11. ASSUME NEW w \in Workers, Sweep(w) PROVE InitInv'
  BY <1>11 DEF Sweep, CallRemoveAll, LooksStale
<1>12. ASSUME NEW w \in Workers, PeersDir(w) PROVE InitInv'
  BY <1>12 DEF PeersDir
<1>13. ASSUME NEW w \in Workers, Peers(w) PROVE InitInv'
  <2>1. CASE Finish(w)
    BY SMTT(30), <1>13, <2>1 DEF Peers, CallRemoveAll, SamePlace, Finish
  <2>2. CASE ~Finish(w)
    BY SMTT(30), <1>13, <2>2 DEF Peers, CallRemoveAll, SamePlace
  <2> QED BY <2>1, <2>2
<1>14. ASSUME NEW w \in Workers, Mkdir(w) PROVE InitInv'
  <2>1. CASE Finish(w)
    BY <1>14, <2>1 DEF Mkdir, Finish
  <2>2. CASE ~Finish(w)
    BY <1>14, <2>2 DEF Mkdir
  <2> QED BY <2>1, <2>2
<1>15. ASSUME NEW w \in Workers, CreateData(w) PROVE InitInv'
  <2>1. CASE Finish(w)
    BY <1>15, <2>1 DEF CreateData, CallRemoveAll, Finish
  <2>2. CASE ~Finish(w)
    BY <1>15, <2>2 DEF CreateData, CallRemoveAll
  <2> QED BY <2>1, <2>2
<1>16. ASSUME NEW w \in Workers, InitMetaOpen(w) PROVE InitInv'
  BY <1>16 DEF InitMetaOpen, CallRemoveAll
<1>17. ASSUME NEW w \in Workers, InitMetaWrite(w) PROVE InitInv'
  <2>1. CASE Finish(w)
    BY SMTT(30), <1>17, <2>1 DEF InitMetaWrite, CallRemoveAll, WriteMeta, Finish
  <2>2. CASE ~Finish(w)
    BY SMTT(30), <1>17, <2>2 DEF InitMetaWrite, CallRemoveAll, WriteMeta
  <2> QED BY <2>1, <2>2
<1>18. ASSUME NEW w \in Workers, ChunkRead(w) PROVE InitInv'
  <2>1. CASE Finish(w)
    BY <1>18, <2>1 DEF ChunkRead, UnlockAndFinish, Unlock, Finish
  <2>2. CASE ~Finish(w)
    BY <1>18, <2>2 DEF ChunkRead, UnlockAndFinish, Unlock
  <2> QED BY <2>1, <2>2
<1>19. ASSUME NEW w \in Workers, ChunkOpen(w) PROVE InitInv'
  BY <1>19 DEF ChunkOpen, UnlockAndFinish, Unlock, Finish
<1>20. ASSUME NEW w \in Workers, ChunkWrite(w) PROVE InitInv'
  BY <1>20 DEF ChunkWrite, UnlockAndFinish, Unlock, Finish
<1>21. ASSUME NEW w \in Workers, ChunkMetaOpen(w) PROVE InitInv'
  BY <1>21 DEF ChunkMetaOpen, UnlockAndFinish, Unlock, Finish
<1>22. ASSUME NEW w \in Workers, ChunkMetaWrite(w) PROVE InitInv'
  BY <1>22 DEF ChunkMetaWrite, UnlockAndFinish, Unlock, Finish, WriteMeta
<1>23. ASSUME NEW w \in Workers, FinRead(w) PROVE InitInv'
  BY <1>23 DEF FinRead, UnlockAndFinish, Unlock, Finish, Covered
<1>24. ASSUME NEW w \in Workers, FinStat(w) PROVE InitInv'
  BY SMTT(30), <1>24 DEF FinStat, CallRemoveAll, InLibrary
<1>25. ASSUME NEW w \in Workers, FinRename(w) PROVE InitInv'
  BY SMTT(30), <1>25 DEF FinRename, CallRemoveAll
<1>26. ASSUME NEW w \in Workers, FinRegister(w) PROVE InitInv'
  BY <1>26 DEF FinRegister, CallRemoveAll
<1>27. ASSUME NEW w \in Workers, FinUnlock(w) PROVE InitInv'
  BY <1>27 DEF FinUnlock, Unlock
<1>28. ASSUME NEW id \in Ids, Age(id) PROVE InitInv'
  BY <1>28 DEF Age
<1>29. ASSUME Restart PROVE InitInv'
  BY <1>29 DEF Restart
<1>30. ASSUME UNCHANGED vars PROVE InitInv'
  BY <1>30 DEF vars
<1> QED
  BY <1>1, <1>2, <1>3, <1>4, <1>5, <1>6, <1>7, <1>8, <1>9, <1>10, <1>11,
     <1>12, <1>13, <1>14, <1>15, <1>16, <1>17, <1>18, <1>19, <1>20, <1>21,
     <1>22, <1>23, <1>24, <1>25, <1>26, <1>27, <1>28, <1>29, <1>30 DEF Next,
     Request, Step

\* Whoever works on a session in place has the mutex of the map, and alone.
LEMMA LockStep == ASSUME UploadInv, [Next]_vars PROVE LockInv'
<1> USE ConstAssumption DEF DiskTypes, LockTypes, RequestTypes, LifeInv,
        InitInv, Creating, RemoveInv, Dead, LockInv, Wants, Holds, Inside
<1>1. ASSUME NEW w \in Workers, NEW id \in Ids, InitRequest(w, id) PROVE LockInv'
  BY <1>1 DEF InitRequest, InLibrary
<1>2. ASSUME NEW w \in Workers, NEW id \in Ids, NEW c \in Chunks, ChunkRequest(w, id, c) PROVE LockInv'
  BY <1>2 DEF ChunkRequest, UploadLock, FreshMutex
<1>3. ASSUME NEW w \in Workers, NEW id \in Ids, CompleteRequest(w, id) PROVE LockInv'
  BY <1>3 DEF CompleteRequest, UploadLock, FreshMutex
<1>4. ASSUME NEW w \in Workers, NEW id \in Ids, AbortRequest(w, id) PROVE LockInv'
  BY <1>4 DEF AbortRequest, CallRemoveAll
<1>5. ASSUME NEW w \in Workers, Acquire(w) PROVE LockInv'
  BY <1>5 DEF Acquire
<1>6. ASSUME NEW w \in Workers, DropLock(w) PROVE LockInv'
  <2>1. CASE Finish(w)
    <3>1. /\ \A v \in Workers \ {w} : /\ pc'[v] = pc[v] /\ ret'[v] = ret[v]
                                    /\ mu'[v] = mu[v] /\ upload'[v] = upload[v]
          /\ pc'[w] = "idle"
      BY <2>1 DEF Finish
    <3>2. UNCHANGED <<part, locked, issued>>
      BY <1>6 DEF DropLock
    <3>3. part[tgt[w]] # "part" /\ locks' = [locks EXCEPT ![tgt[w]] = NoMutex]
      BY <1>6 DEF DropLock, RemoveInv, Dead
    <3> QED BY <3>1, <3>2, <3>3
  <2>2. CASE ~Finish(w)
    BY <1>6, <2>2 DEF DropLock
  <2> QED BY <2>1, <2>2
<1>7. ASSUME NEW w \in Workers, RemoveAllStart(w) PROVE LockInv'
  BY <1>7 DEF RemoveAllStart, Return, Finish, Files
<1>8. ASSUME NEW w \in Workers, Unlink(w) PROVE LockInv'
  BY <1>8 DEF Unlink
<1>9. ASSUME NEW w \in Workers, RemoveAllEnd(w) PROVE LockInv'
  <2>1. CASE Finish(w)
    BY SMTT(30), <1>9, <2>1 DEF RemoveAllEnd, Return, Finish, Files
  <2>2. CASE ~Finish(w)
    BY SMTT(30), <1>9, <2>2 DEF RemoveAllEnd, Return, Files
  <2> QED BY <2>1, <2>2
<1>10. ASSUME NEW w \in Workers, SweepDir(w) PROVE LockInv'
  BY <1>10 DEF SweepDir
<1>11. ASSUME NEW w \in Workers, Sweep(w) PROVE LockInv'
  BY <1>11 DEF Sweep, CallRemoveAll, LooksStale
<1>12. ASSUME NEW w \in Workers, PeersDir(w) PROVE LockInv'
  BY <1>12 DEF PeersDir
<1>13. ASSUME NEW w \in Workers, Peers(w) PROVE LockInv'
  <2>1. CASE Finish(w)
    BY <1>13, <2>1 DEF Peers, CallRemoveAll, SamePlace, Finish
  <2>2. CASE ~Finish(w)
    BY <1>13, <2>2 DEF Peers, CallRemoveAll, SamePlace
  <2> QED BY <2>1, <2>2
<1>14. ASSUME NEW w \in Workers, Mkdir(w) PROVE LockInv'
  <2>1. CASE Finish(w)
    BY <1>14, <2>1 DEF Mkdir, Finish
  <2>2. CASE ~Finish(w)
    BY <1>14, <2>2 DEF Mkdir
  <2> QED BY <2>1, <2>2
<1>15. ASSUME NEW w \in Workers, CreateData(w) PROVE LockInv'
  <2>1. CASE Finish(w)
    BY SMTT(30), <1>15, <2>1 DEF CreateData, CallRemoveAll, Finish
  <2>2. CASE ~Finish(w)
    BY SMTT(30), <1>15, <2>2 DEF CreateData, CallRemoveAll
  <2> QED BY <2>1, <2>2
<1>16. ASSUME NEW w \in Workers, InitMetaOpen(w) PROVE LockInv'
  BY <1>16 DEF InitMetaOpen, CallRemoveAll
<1>17. ASSUME NEW w \in Workers, InitMetaWrite(w) PROVE LockInv'
  <2>1. CASE Finish(w)
    BY <1>17, <2>1 DEF InitMetaWrite, CallRemoveAll, WriteMeta, Finish
  <2>2. CASE ~Finish(w)
    BY <1>17, <2>2 DEF InitMetaWrite, CallRemoveAll, WriteMeta
  <2> QED BY <2>1, <2>2
<1>18. ASSUME NEW w \in Workers, ChunkRead(w) PROVE LockInv'
  BY SMTT(30), <1>18 DEF ChunkRead, UnlockAndFinish, Unlock, Finish
<1>19. ASSUME NEW w \in Workers, ChunkOpen(w) PROVE LockInv'
  <2>1. CASE Finish(w)
    BY <1>19, <2>1 DEF ChunkOpen, UnlockAndFinish, Unlock, Finish
  <2>2. CASE ~Finish(w)
    BY <1>19, <2>2 DEF ChunkOpen, UnlockAndFinish, Unlock
  <2> QED BY <2>1, <2>2
<1>20. ASSUME NEW w \in Workers, ChunkWrite(w) PROVE LockInv'
  <2>1. CASE Finish(w)
    BY SMTT(30), <1>20, <2>1 DEF ChunkWrite, UnlockAndFinish, Unlock, Finish
  <2>2. CASE ~Finish(w)
    BY SMTT(30), <1>20, <2>2 DEF ChunkWrite, UnlockAndFinish, Unlock
  <2> QED BY <2>1, <2>2
<1>21. ASSUME NEW w \in Workers, ChunkMetaOpen(w) PROVE LockInv'
  <2>1. CASE Finish(w)
    BY <1>21, <2>1 DEF ChunkMetaOpen, UnlockAndFinish, Unlock, Finish
  <2>2. CASE ~Finish(w)
    BY <1>21, <2>2 DEF ChunkMetaOpen, UnlockAndFinish, Unlock
  <2> QED BY <2>1, <2>2
<1>22. ASSUME NEW w \in Workers, ChunkMetaWrite(w) PROVE LockInv'
  BY <1>22 DEF ChunkMetaWrite, UnlockAndFinish, Unlock, Finish, WriteMeta
<1>23. ASSUME NEW w \in Workers, FinRead(w) PROVE LockInv'
  <2>1. CASE Finish(w)
    BY <1>23, <2>1 DEF FinRead, UnlockAndFinish, Unlock, Finish, Covered
  <2>2. CASE ~Finish(w)
    BY <1>23, <2>2 DEF FinRead, UnlockAndFinish, Unlock, Covered
  <2> QED BY <2>1, <2>2
<1>24. ASSUME NEW w \in Workers, FinStat(w) PROVE LockInv'
  BY SMTT(30), <1>24 DEF FinStat, CallRemoveAll, InLibrary
<1>25. ASSUME NEW w \in Workers, FinRename(w) PROVE LockInv'
  BY SMTT(30), <1>25 DEF FinRename, CallRemoveAll
<1>26. ASSUME NEW w \in Workers, FinRegister(w) PROVE LockInv'
  BY <1>26 DEF FinRegister, CallRemoveAll
<1>27. ASSUME NEW w \in Workers, FinUnlock(w) PROVE LockInv'
  BY <1>27 DEF FinUnlock, Unlock
<1>28. ASSUME NEW id \in Ids, Age(id) PROVE LockInv'
  BY <1>28 DEF Age
<1>29. ASSUME Restart PROVE LockInv'
  BY <1>29 DEF Restart
<1>30. ASSUME UNCHANGED vars PROVE LockInv'
  BY <1>30 DEF vars
<1> QED
  BY <1>1, <1>2, <1>3, <1>4, <1>5, <1>6, <1>7, <1>8, <1>9, <1>10, <1>11,
     <1>12, <1>13, <1>14, <1>15, <1>16, <1>17, <1>18, <1>19, <1>20, <1>21,
     <1>22, <1>23, <1>24, <1>25, <1>26, <1>27, <1>28, <1>29, <1>30 DEF Next,
     Request, Step

\* After os.RemoveAll the data of the session is gone, and stays gone.
LEMMA RemoveStep == ASSUME UploadInv, [Next]_vars PROVE RemoveInv'
<1> USE ConstAssumption DEF DiskTypes, LockTypes, RequestTypes, LifeInv,
        InitInv, Creating, Arriving, RemoveInv, Dead, Files, LockInv, Wants,
        Holds, Inside
<1>1. ASSUME NEW w \in Workers, NEW id \in Ids, InitRequest(w, id) PROVE RemoveInv'
  BY <1>1 DEF InitRequest, InLibrary
<1>2. ASSUME NEW w \in Workers, NEW id \in Ids, NEW c \in Chunks, ChunkRequest(w, id, c) PROVE RemoveInv'
  BY <1>2 DEF ChunkRequest, UploadLock, FreshMutex
<1>3. ASSUME NEW w \in Workers, NEW id \in Ids, CompleteRequest(w, id) PROVE RemoveInv'
  BY <1>3 DEF CompleteRequest, UploadLock, FreshMutex
<1>4. ASSUME NEW w \in Workers, NEW id \in Ids, AbortRequest(w, id) PROVE RemoveInv'
  BY <1>4 DEF AbortRequest, CallRemoveAll
<1>5. ASSUME NEW w \in Workers, Acquire(w) PROVE RemoveInv'
  BY <1>5 DEF Acquire
<1>6. ASSUME NEW w \in Workers, DropLock(w) PROVE RemoveInv'
  BY <1>6 DEF DropLock, Finish
<1>7. ASSUME NEW w \in Workers, RemoveAllStart(w) PROVE RemoveInv'
  BY <1>7 DEF RemoveAllStart, Return, Finish, Files
<1>8. ASSUME NEW w \in Workers, Unlink(w) PROVE RemoveInv'
  BY <1>8 DEF Unlink
<1>9. ASSUME NEW w \in Workers, RemoveAllEnd(w) PROVE RemoveInv'
  BY <1>9 DEF RemoveAllEnd, Return, Finish, Files
<1>10. ASSUME NEW w \in Workers, SweepDir(w) PROVE RemoveInv'
  BY <1>10 DEF SweepDir
<1>11. ASSUME NEW w \in Workers, Sweep(w) PROVE RemoveInv'
  BY <1>11 DEF Sweep, CallRemoveAll, LooksStale
<1>12. ASSUME NEW w \in Workers, PeersDir(w) PROVE RemoveInv'
  BY <1>12 DEF PeersDir
<1>13. ASSUME NEW w \in Workers, Peers(w) PROVE RemoveInv'
  BY <1>13 DEF Peers, CallRemoveAll, SamePlace, Finish
<1>14. ASSUME NEW w \in Workers, Mkdir(w) PROVE RemoveInv'
  <2>1. CASE Finish(w)
    BY <1>14, <2>1 DEF Mkdir, Finish
  <2>2. CASE ~Finish(w)
    BY <1>14, <2>2 DEF Mkdir
  <2> QED BY <2>1, <2>2
<1>15. ASSUME NEW w \in Workers, CreateData(w) PROVE RemoveInv'
  <2>1. CASE Finish(w)
    BY <1>15, <2>1 DEF CreateData, CallRemoveAll, Finish
  <2>2. CASE ~Finish(w)
    BY <1>15, <2>2 DEF CreateData, CallRemoveAll
  <2> QED BY <2>1, <2>2
<1>16. ASSUME NEW w \in Workers, InitMetaOpen(w) PROVE RemoveInv'
  BY <1>16 DEF InitMetaOpen, CallRemoveAll
<1>17. ASSUME NEW w \in Workers, InitMetaWrite(w) PROVE RemoveInv'
  BY SMTT(30), <1>17 DEF InitMetaWrite, CallRemoveAll, WriteMeta, Finish
<1>18. ASSUME NEW w \in Workers, ChunkRead(w) PROVE RemoveInv'
  BY <1>18 DEF ChunkRead, UnlockAndFinish, Unlock, Finish
<1>19. ASSUME NEW w \in Workers, ChunkOpen(w) PROVE RemoveInv'
  BY <1>19 DEF ChunkOpen, UnlockAndFinish, Unlock, Finish
<1>20. ASSUME NEW w \in Workers, ChunkWrite(w) PROVE RemoveInv'
  BY <1>20 DEF ChunkWrite, UnlockAndFinish, Unlock, Finish
<1>21. ASSUME NEW w \in Workers, ChunkMetaOpen(w) PROVE RemoveInv'
  BY <1>21 DEF ChunkMetaOpen, UnlockAndFinish, Unlock, Finish
<1>22. ASSUME NEW w \in Workers, ChunkMetaWrite(w) PROVE RemoveInv'
  BY <1>22 DEF ChunkMetaWrite, UnlockAndFinish, Unlock, Finish, WriteMeta
<1>23. ASSUME NEW w \in Workers, FinRead(w) PROVE RemoveInv'
  BY <1>23 DEF FinRead, UnlockAndFinish, Unlock, Finish, Covered
<1>24. ASSUME NEW w \in Workers, FinStat(w) PROVE RemoveInv'
  BY <1>24 DEF FinStat, CallRemoveAll, InLibrary
<1>25. ASSUME NEW w \in Workers, FinRename(w) PROVE RemoveInv'
  BY <1>25 DEF FinRename, CallRemoveAll
<1>26. ASSUME NEW w \in Workers, FinRegister(w) PROVE RemoveInv'
  BY <1>26 DEF FinRegister, CallRemoveAll
<1>27. ASSUME NEW w \in Workers, FinUnlock(w) PROVE RemoveInv'
  BY <1>27 DEF FinUnlock, Unlock
<1>28. ASSUME NEW id \in Ids, Age(id) PROVE RemoveInv'
  BY <1>28 DEF Age
<1>29. ASSUME Restart PROVE RemoveInv'
  BY <1>29 DEF Restart
<1>30. ASSUME UNCHANGED vars PROVE RemoveInv'
  BY <1>30 DEF vars
<1> QED
  BY <1>1, <1>2, <1>3, <1>4, <1>5, <1>6, <1>7, <1>8, <1>9, <1>10, <1>11,
     <1>12, <1>13, <1>14, <1>15, <1>16, <1>17, <1>18, <1>19, <1>20, <1>21,
     <1>22, <1>23, <1>24, <1>25, <1>26, <1>27, <1>28, <1>29, <1>30 DEF Next,
     Request, Step

\* What is recorded, acknowledged or published has been written.
LEMMA DataStep == ASSUME UploadInv, SoleWriter, [Next]_vars PROVE DataInv'
<1> USE ConstAssumption DEF DiskTypes, LockTypes, RequestTypes, WithinSize,
        DataInv, WritesSound, Chunking, PublishedWhole, LifeInv, InitInv,
        Creating, SoleWriter, Covered, LockInv, Wants, Holds, Inside
<1>1. ASSUME NEW w \in Workers, NEW id \in Ids, InitRequest(w, id) PROVE DataInv'
  BY <1>1 DEF InitRequest, InLibrary
<1>2. ASSUME NEW w \in Workers, NEW id \in Ids, NEW c \in Chunks, ChunkRequest(w, id, c) PROVE DataInv'
  BY <1>2 DEF ChunkRequest, UploadLock, FreshMutex
<1>3. ASSUME NEW w \in Workers, NEW id \in Ids, CompleteRequest(w, id) PROVE DataInv'
  BY <1>3 DEF CompleteRequest, UploadLock, FreshMutex
<1>4. ASSUME NEW w \in Workers, NEW id \in Ids, AbortRequest(w, id) PROVE DataInv'
  BY <1>4 DEF AbortRequest, CallRemoveAll
<1>5. ASSUME NEW w \in Workers, Acquire(w) PROVE DataInv'
  BY <1>5 DEF Acquire
<1>6. ASSUME NEW w \in Workers, DropLock(w) PROVE DataInv'
  <2>1. CASE Finish(w)
    BY <1>6, <2>1 DEF DropLock, Finish
  <2>2. CASE ~Finish(w)
    BY <1>6, <2>2 DEF DropLock
  <2> QED BY <2>1, <2>2
<1>7. ASSUME NEW w \in Workers, RemoveAllStart(w) PROVE DataInv'
  <2>1. CASE Finish(w)
    BY SMTT(30), <1>7, <2>1 DEF RemoveAllStart, Return, Finish, Files
  <2>2. CASE ~Finish(w)
    BY SMTT(30), <1>7, <2>2 DEF RemoveAllStart, Return, Files
  <2> QED BY <2>1, <2>2
<1>8. ASSUME NEW w \in Workers, Unlink(w) PROVE DataInv'
  BY <1>8 DEF Unlink
<1>9. ASSUME NEW w \in Workers, RemoveAllEnd(w) PROVE DataInv'
  <2>1. CASE Finish(w)
    BY <1>9, <2>1 DEF RemoveAllEnd, Return, Finish, Files
  <2>2. CASE ~Finish(w)
    BY <1>9, <2>2 DEF RemoveAllEnd, Return, Files
  <2> QED BY <2>1, <2>2
<1>10. ASSUME NEW w \in Workers, SweepDir(w) PROVE DataInv'
  BY <1>10 DEF SweepDir
<1>11. ASSUME NEW w \in Workers, Sweep(w) PROVE DataInv'
  BY <1>11 DEF Sweep, CallRemoveAll, LooksStale
<1>12. ASSUME NEW w \in Workers, PeersDir(w) PROVE DataInv'
  BY <1>12 DEF PeersDir
<1>13. ASSUME NEW w \in Workers, Peers(w) PROVE DataInv'
  <2>1. CASE Finish(w)
    BY <1>13, <2>1 DEF Peers, CallRemoveAll, SamePlace, Finish
  <2>2. CASE ~Finish(w)
    BY <1>13, <2>2 DEF Peers, CallRemoveAll, SamePlace
  <2> QED BY <2>1, <2>2
<1>14. ASSUME NEW w \in Workers, Mkdir(w) PROVE DataInv'
  <2>1. CASE Finish(w)
    BY <1>14, <2>1 DEF Mkdir, Finish
  <2>2. CASE ~Finish(w)
    BY <1>14, <2>2 DEF Mkdir
  <2> QED BY <2>1, <2>2
<1>15. ASSUME NEW w \in Workers, CreateData(w) PROVE DataInv'
  <2>1. CASE Finish(w)
    BY <1>15, <2>1 DEF CreateData, Finish
  <2>2. CASE ~Finish(w)
    <3>1. upload[w] \in Ids /\ bytes[upload[w]] = {}
      BY <1>15, IdsKnown DEF CreateData, Creating, LifeInv, InitInv
    <3>2. bytes' = [bytes EXCEPT ![upload[w]] = {}]
      BY <1>15, <2>2 DEF CreateData
    <3>3. bytes' = bytes
      BY <3>1, <3>2
    <3>4. \A v \in Workers : pc'[v] = pc[v] \/ pc'[v] \in {"metaOpen", "removeAll"}
      BY <1>15, <2>2 DEF CreateData, CallRemoveAll
    <3>5. UNCHANGED <<ranges, acked, snap, chunk, upload>>
      BY <1>15, <2>2 DEF CreateData, CallRemoveAll
    <3>6. \A id \in Ids : part'[id] = part[id] \/ part'[id] = "part"
      BY <1>15, <2>2 DEF CreateData
    <3>7. (\A id \in Ids : ranges[id] \cup acked[id] \subseteq bytes[id])' /\ PublishedWhole'
      BY <3>3, <3>5, <3>6 DEF DataInv, PublishedWhole, Offsets
    <3>8. ASSUME NEW v \in Workers PROVE WritesSound(v)'
      <4>1. CASE pc'[v] \in {"metaOpen", "removeAll"}
        BY <4>1 DEF WritesSound, Chunking
      <4>2. CASE pc'[v] = pc[v]
        <5>1. WritesSound(v) /\ (Chunking(v) => upload[v] \in Ids)
          BY IdsKnown DEF DataInv
        <5> QED BY <4>2, <5>1, <3>3, <3>5, <3>6 DEF WritesSound, Chunking, Offsets, Blocks
      <4> QED BY <3>4, <4>1, <4>2
    <3> QED BY <3>7, <3>8 DEF DataInv
  <2> QED BY <2>1, <2>2
<1>16. ASSUME NEW w \in Workers, InitMetaOpen(w) PROVE DataInv'
  BY <1>16 DEF InitMetaOpen, CallRemoveAll
<1>17. ASSUME NEW w \in Workers, InitMetaWrite(w) PROVE DataInv'
  <2>1. ranges' = ranges \/ ranges' = [ranges EXCEPT ![upload[w]] = {}]
    BY <1>17 DEF InitMetaWrite, WriteMeta
  <2>2. UNCHANGED <<bytes, part, acked>>
    BY <1>17 DEF InitMetaWrite
  <2>3. (\A id \in Ids : ranges[id] \cup acked[id] \subseteq bytes[id])' /\ PublishedWhole'
    <3>1. \A id \in Ids : ranges'[id] \subseteq ranges[id]
      BY <2>1
    <3>2. (\A id \in Ids : ranges[id] \cup acked[id] \subseteq bytes[id])'
      BY <2>2, <3>1 DEF DataInv
    <3>3. PublishedWhole'
      BY <2>2 DEF DataInv, PublishedWhole, Offsets
    <3> QED BY <3>2, <3>3
  <2>4. pc'[w] \in {"idle", "removeAll"}
    BY <1>17 DEF InitMetaWrite, CallRemoveAll, Finish
  <2>5. ASSUME NEW v \in Workers, v # w PROVE WritesSound(v)'
    <3>1. pc'[v] = pc[v] /\ snap'[v] = snap[v] /\ chunk'[v] = chunk[v] /\ upload'[v] = upload[v]
      BY <1>17, <2>5 DEF InitMetaWrite, CallRemoveAll, Finish
    <3> QED BY <3>1, <2>2 DEF DataInv, WritesSound, Chunking, Offsets, Blocks
  <2>6. WritesSound(w)'
    BY <2>4 DEF WritesSound, Chunking
  <2> QED BY <2>3, <2>5, <2>6 DEF DataInv
<1>18. ASSUME NEW w \in Workers, ChunkRead(w) PROVE DataInv'
  <2>1. CASE Finish(w)
    BY <1>18, <2>1 DEF ChunkRead, UnlockAndFinish, Unlock, Finish
  <2>2. CASE ~Finish(w)
    BY <1>18, <2>2 DEF ChunkRead, UnlockAndFinish, Unlock
  <2> QED BY <2>1, <2>2
<1>19. ASSUME NEW w \in Workers, ChunkOpen(w) PROVE DataInv'
  <2>1. CASE Finish(w)
    BY <1>19, <2>1 DEF ChunkOpen, UnlockAndFinish, Unlock, Finish
  <2>2. CASE ~Finish(w)
    BY <1>19, <2>2 DEF ChunkOpen, UnlockAndFinish, Unlock
  <2> QED BY <2>1, <2>2
<1>20. ASSUME NEW w \in Workers, ChunkWrite(w) PROVE DataInv'
  <2>1. UNCHANGED <<ranges, acked, part>>
    BY <1>20 DEF ChunkWrite
  <2>2. \A id \in Ids : bytes[id] \subseteq bytes'[id]
    BY <1>20, ChunkWriteGrows
  <2>3. (\A id \in Ids : ranges[id] \cup acked[id] \subseteq bytes[id])'
    BY <2>1, <2>2 DEF DataInv
  <2>4. \A id \in Ids : bytes[id] = Offsets(id) => bytes'[id] = Offsets(id)
    BY <1>20, ChunkWriteGrows
  <2>5. PublishedWhole'
    BY <2>1, <2>4 DEF DataInv, PublishedWhole, Offsets
  <2>6. ASSUME NEW v \in Workers, v # w PROVE WritesSound(v)'
    <3>1. pc'[v] = pc[v] /\ snap'[v] = snap[v] /\ chunk'[v] = chunk[v] /\ upload'[v] = upload[v]
      BY <1>20, <2>6 DEF ChunkWrite, UnlockAndFinish, Finish
    <3> QED BY <3>1, <2>1, <2>2, <2>4, IdsKnown
            DEF DataInv, WritesSound, Chunking, Wants, Holds, Inside, Offsets, Blocks
  <2>7. WritesSound(w)'
    <3>1. CASE Finish(w)
      BY <3>1 DEF Finish, WritesSound, Chunking
    <3>2. CASE ~Finish(w)
      <4>1. bytes' = [bytes EXCEPT ![upload[w]] = @ \cup Blocks(chunk[w])]
        BY <1>20, <3>2 DEF ChunkWrite, UnlockAndFinish
      <4>2. pc'[w] = "chunkMetaOpen" /\ UNCHANGED <<snap, chunk, upload>>
        BY <1>20, <3>2 DEF ChunkWrite, UnlockAndFinish
      <4>3. upload[w] \in Ids
        BY <1>20, IdsKnown DEF ChunkWrite, Chunking
      <4> QED BY <1>20, <4>1, <4>2, <4>3, <2>2
              DEF ChunkWrite, DataInv, WritesSound, Chunking, Blocks
    <3> QED BY <3>1, <3>2
  <2> QED BY <2>3, <2>5, <2>6, <2>7 DEF DataInv
<1>21. ASSUME NEW w \in Workers, ChunkMetaOpen(w) PROVE DataInv'
  <2>1. CASE Finish(w)
    BY <1>21, <2>1 DEF ChunkMetaOpen, UnlockAndFinish, Unlock, Finish
  <2>2. CASE ~Finish(w)
    BY <1>21, <2>2 DEF ChunkMetaOpen, UnlockAndFinish, Unlock
  <2> QED BY <2>1, <2>2
<1>22. ASSUME NEW w \in Workers, ChunkMetaWrite(w) PROVE DataInv'
  <2>1. upload[w] \in Ids
    BY <1>22, IdsKnown DEF ChunkMetaWrite, Chunking
  <2>2. Blocks(chunk[w]) \cup snap[w] \subseteq bytes[upload[w]]
    BY <1>22 DEF ChunkMetaWrite, DataInv, WritesSound, Chunking
  <2>3. (\A id \in Ids : ranges[id] \cup acked[id] \subseteq bytes[id])'
    BY SMTT(30), <1>22, <2>1, <2>2 DEF ChunkMetaWrite, WriteMeta, DataInv
  <2>4. PublishedWhole'
    BY <1>22 DEF ChunkMetaWrite, DataInv, PublishedWhole, Offsets
  <2>5. ASSUME NEW v \in Workers PROVE WritesSound(v)'
    BY <1>22 DEF ChunkMetaWrite, DataInv, WritesSound, Chunking, UnlockAndFinish, Finish,
              Offsets, Blocks
  <2> QED BY <2>3, <2>4, <2>5 DEF DataInv
<1>23. ASSUME NEW w \in Workers, FinRead(w) PROVE DataInv'
  <2>1. CASE Finish(w)
    BY <1>23, <2>1 DEF FinRead, Finish, UnlockAndFinish
  <2>2. CASE ~Finish(w)
    <3>1. upload[w] \in Ids
      BY <1>23, IdsKnown DEF FinRead, Wants, Holds
    <3>2. Covered(upload[w])
      BY <1>23, <2>2 DEF FinRead, UnlockAndFinish
    <3>3. bytes[upload[w]] = Offsets(upload[w])
      BY <3>1, <3>2, CoveredWritten
    <3>4. UNCHANGED <<ranges, acked, snap, chunk, upload, bytes, part>>
      BY <1>23, <2>2 DEF FinRead, UnlockAndFinish
    <3>5. pc' = [pc EXCEPT ![w] = "finStat"]
      BY <1>23, <2>2 DEF FinRead, UnlockAndFinish
    <3> QED BY <3>1, <3>3, <3>4, <3>5
            DEF DataInv, WritesSound, PublishedWhole, Chunking, Offsets, Blocks
  <2> QED BY <2>1, <2>2
<1>24. ASSUME NEW w \in Workers, FinStat(w) PROVE DataInv'
  BY <1>24 DEF FinStat, CallRemoveAll, InLibrary
<1>25. ASSUME NEW w \in Workers, FinRename(w) PROVE DataInv'
  BY <1>25 DEF FinRename, CallRemoveAll
<1>26. ASSUME NEW w \in Workers, FinRegister(w) PROVE DataInv'
  BY <1>26 DEF FinRegister, CallRemoveAll
<1>27. ASSUME NEW w \in Workers, FinUnlock(w) PROVE DataInv'
  BY <1>27 DEF FinUnlock, Unlock
<1>28. ASSUME NEW id \in Ids, Age(id) PROVE DataInv'
  BY <1>28 DEF Age
<1>29. ASSUME Restart PROVE DataInv'
  BY <1>29 DEF Restart
<1>30. ASSUME UNCHANGED vars PROVE DataInv'
  BY <1>30 DEF vars
<1> QED
  BY <1>1, <1>2, <1>3, <1>4, <1>5, <1>6, <1>7, <1>8, <1>9, <1>10, <1>11,
     <1>12, <1>13, <1>14, <1>15, <1>16, <1>17, <1>18, <1>19, <1>20, <1>21,
     <1>22, <1>23, <1>24, <1>25, <1>26, <1>27, <1>28, <1>29, <1>30 DEF Next,
     Request, Step

\* No acknowledged chunk is dropped from meta.json.
LEMMA AckStep == ASSUME UploadInv, SoleWriter, [Next]_vars PROVE AckInv'
<1> USE ConstAssumption DEF DiskTypes, LockTypes, RequestTypes, AckInv,
        AckedRecorded, DataInv, Chunking, LifeInv, InitInv, Creating,
        SoleWriter, Blocks, LockInv, Wants, Holds, Inside
<1>1. ASSUME NEW w \in Workers, NEW id \in Ids, InitRequest(w, id) PROVE AckInv'
  BY <1>1 DEF InitRequest, InLibrary
<1>2. ASSUME NEW w \in Workers, NEW id \in Ids, NEW c \in Chunks, ChunkRequest(w, id, c) PROVE AckInv'
  BY <1>2 DEF ChunkRequest, UploadLock, FreshMutex
<1>3. ASSUME NEW w \in Workers, NEW id \in Ids, CompleteRequest(w, id) PROVE AckInv'
  BY <1>3 DEF CompleteRequest, UploadLock, FreshMutex
<1>4. ASSUME NEW w \in Workers, NEW id \in Ids, AbortRequest(w, id) PROVE AckInv'
  BY <1>4 DEF AbortRequest, CallRemoveAll
<1>5. ASSUME NEW w \in Workers, Acquire(w) PROVE AckInv'
  BY <1>5 DEF Acquire
<1>6. ASSUME NEW w \in Workers, DropLock(w) PROVE AckInv'
  <2>1. CASE Finish(w)
    BY <1>6, <2>1 DEF DropLock, Finish
  <2>2. CASE ~Finish(w)
    BY <1>6, <2>2 DEF DropLock
  <2> QED BY <2>1, <2>2
<1>7. ASSUME NEW w \in Workers, RemoveAllStart(w) PROVE AckInv'
  <2>1. CASE Finish(w)
    BY SMTT(30), <1>7, <2>1 DEF RemoveAllStart, Return, Finish, Files
  <2>2. CASE ~Finish(w)
    BY SMTT(30), <1>7, <2>2 DEF RemoveAllStart, Return, Files
  <2> QED BY <2>1, <2>2
<1>8. ASSUME NEW w \in Workers, Unlink(w) PROVE AckInv'
  <2>1. UNCHANGED <<ranges, acked, pc, upload, snap, chunk>>
    BY <1>8 DEF Unlink
  <2>2. \A id \in Ids : part'[id] = "part" => part[id] = "part"
    BY <1>8 DEF Unlink
  <2>3. \A id \in Ids : meta'[id] = "full" => meta[id] = "full"
    BY <1>8 DEF Unlink
  <2> QED BY <2>1, <2>2, <2>3
<1>9. ASSUME NEW w \in Workers, RemoveAllEnd(w) PROVE AckInv'
  <2>1. CASE Finish(w)
    BY <1>9, <2>1 DEF RemoveAllEnd, Return, Finish, Files
  <2>2. CASE ~Finish(w)
    BY <1>9, <2>2 DEF RemoveAllEnd, Return, Files
  <2> QED BY <2>1, <2>2
<1>10. ASSUME NEW w \in Workers, SweepDir(w) PROVE AckInv'
  BY <1>10 DEF SweepDir
<1>11. ASSUME NEW w \in Workers, Sweep(w) PROVE AckInv'
  BY <1>11 DEF Sweep, CallRemoveAll, LooksStale
<1>12. ASSUME NEW w \in Workers, PeersDir(w) PROVE AckInv'
  BY <1>12 DEF PeersDir
<1>13. ASSUME NEW w \in Workers, Peers(w) PROVE AckInv'
  <2>1. CASE Finish(w)
    BY <1>13, <2>1 DEF Peers, CallRemoveAll, SamePlace, Finish
  <2>2. CASE ~Finish(w)
    BY <1>13, <2>2 DEF Peers, CallRemoveAll, SamePlace
  <2> QED BY <2>1, <2>2
<1>14. ASSUME NEW w \in Workers, Mkdir(w) PROVE AckInv'
  <2>1. CASE Finish(w)
    BY <1>14, <2>1 DEF Mkdir, Finish
  <2>2. CASE ~Finish(w)
    BY <1>14, <2>2 DEF Mkdir
  <2> QED BY <2>1, <2>2
<1>15. ASSUME NEW w \in Workers, CreateData(w) PROVE AckInv'
  <2>1. upload[w] \in Ids \ issued
    BY <1>15 DEF CreateData
  <2>2. UNCHANGED <<meta, ranges, acked>>
    BY <1>15 DEF CreateData
  <2>3. \A id \in Ids : id # upload[w] => part'[id] = part[id]
    BY <1>15 DEF CreateData
  <2>4. AckedRecorded'
    BY <2>1, <2>2, <2>3
  <2>5. pc'[w] \in {"idle", "metaOpen", "removeAll"}
    BY <1>15 DEF CreateData, CallRemoveAll, Finish
  <2>6. \A v \in Workers : v # w =>
           pc'[v] = pc[v] /\ snap'[v] = snap[v] /\ chunk'[v] = chunk[v] /\ upload'[v] = upload[v]
    BY <1>15 DEF CreateData, CallRemoveAll, Finish
  <2> QED BY SMTT(30), <2>1, <2>2, <2>3, <2>4, <2>5, <2>6
<1>16. ASSUME NEW w \in Workers, InitMetaOpen(w) PROVE AckInv'
  <2>1. UNCHANGED <<ranges, part, acked, upload, snap, chunk>>
    BY <1>16 DEF InitMetaOpen
  <2>2. \A id \in Ids : meta'[id] = "full" => meta[id] = "full"
    BY <1>16 DEF InitMetaOpen
  <2>3. \A v \in Workers : pc'[v] = pc[v] \/ pc'[v] \in {"metaWrite", "removeAll"}
    BY <1>16 DEF InitMetaOpen, CallRemoveAll
  <2> QED BY <2>1, <2>2, <2>3
<1>17. ASSUME NEW w \in Workers, InitMetaWrite(w) PROVE AckInv'
  <2>1. upload[w] \in Ids /\ acked[upload[w]] = {}
    BY <1>17 DEF InitMetaWrite
  <2>2. /\ UNCHANGED <<part, acked>>
        /\ \A id \in Ids \ {upload[w]} : meta'[id] = meta[id] /\ ranges'[id] = ranges[id]
    BY <1>17, <2>1 DEF InitMetaWrite, WriteMeta
  <2>3. AckedRecorded'
    BY <2>1, <2>2
  <2>4. pc'[w] \in {"idle", "removeAll"}
    BY <1>17 DEF InitMetaWrite, CallRemoveAll, Finish
  <2>5. \A v \in Workers \ {w} : /\ pc'[v] = pc[v] /\ snap'[v] = snap[v]
                                 /\ chunk'[v] = chunk[v] /\ upload'[v] = upload[v]
    BY <1>17 DEF InitMetaWrite, CallRemoveAll, Finish
  <2>6. ASSUME NEW v \in Workers
        PROVE  /\ Chunking(v)' /\ part'[upload'[v]] = "part"
                    => acked'[upload'[v]] \subseteq snap'[v]
               /\ pc'[v] = "chunkMetaWrite" => Blocks(chunk'[v]) \subseteq snap'[v]
    <3>1. CASE v = w
      BY <2>4, <3>1 DEF Chunking
    <3>2. CASE v # w
      BY <2>2, <2>5, <3>2 DEF Chunking
    <3> QED BY <3>1, <3>2
  <2> QED BY <2>3, <2>6 DEF Blocks
<1>18. ASSUME NEW w \in Workers, ChunkRead(w) PROVE AckInv'
  <2>1. CASE Finish(w)
    BY <1>18, <2>1 DEF ChunkRead, UnlockAndFinish, Unlock, Finish
  <2>2. CASE ~Finish(w)
    BY <1>18, <2>2 DEF ChunkRead, UnlockAndFinish, Unlock
  <2> QED BY <2>1, <2>2
<1>19. ASSUME NEW w \in Workers, ChunkOpen(w) PROVE AckInv'
  <2>1. CASE Finish(w)
    BY <1>19, <2>1 DEF ChunkOpen, UnlockAndFinish, Unlock, Finish
  <2>2. CASE ~Finish(w)
    BY <1>19, <2>2 DEF ChunkOpen, UnlockAndFinish, Unlock
  <2> QED BY <2>1, <2>2
<1>20. ASSUME NEW w \in Workers, ChunkWrite(w) PROVE AckInv'
  <2>1. CASE Finish(w)
    BY <1>20, <2>1 DEF ChunkWrite, UnlockAndFinish, Unlock, Finish
  <2>2. CASE ~Finish(w)
    BY <1>20, <2>2 DEF ChunkWrite, UnlockAndFinish, Unlock
  <2> QED BY <2>1, <2>2
<1>21. ASSUME NEW w \in Workers, ChunkMetaOpen(w) PROVE AckInv'
  <2>1. CASE Finish(w)
    <3>1. /\ UNCHANGED <<part, ranges, acked>>
          /\ \A id \in Ids : meta'[id] = "full" => meta[id] = "full"
      BY <1>21 DEF ChunkMetaOpen
    <3>2. AckedRecorded'
      BY <3>1
    <3> QED BY <2>1, <3>1, <3>2 DEF Finish
  <2>2. CASE ~Finish(w)
    <3>1. /\ UNCHANGED <<part, ranges, acked, upload, chunk>>
          /\ \A id \in Ids : meta'[id] = "full" => meta[id] = "full"
          /\ pc' = [pc EXCEPT ![w] = "chunkMetaWrite"]
          /\ snap' = [snap EXCEPT ![w] = @ \cup Blocks(chunk[w])]
      BY <1>21, <2>2 DEF ChunkMetaOpen, UnlockAndFinish
    <3>2. AckedRecorded'
      BY <3>1
    <3>3. pc[w] = "chunkMetaOpen"
      BY <1>21 DEF ChunkMetaOpen
    <3>4. ASSUME NEW v \in Workers
          PROVE  /\ Chunking(v)' /\ part'[upload'[v]] = "part"
                      => acked'[upload'[v]] \subseteq snap'[v]
                 /\ pc'[v] = "chunkMetaWrite" => Blocks(chunk'[v]) \subseteq snap'[v]
      BY <3>1, <3>3 DEF Chunking
    <3> QED BY <3>2, <3>4 DEF Blocks
  <2> QED BY <2>1, <2>2
<1>22. ASSUME NEW w \in Workers, ChunkMetaWrite(w) PROVE AckInv'
  <2>1. upload[w] \in Ids
    BY <1>22 DEF ChunkMetaWrite
  <2>2. acked[upload[w]] \cup Blocks(chunk[w]) \subseteq snap[w] \/ part[upload[w]] # "part"
    BY <1>22 DEF ChunkMetaWrite
  <2>3. \/ UNCHANGED <<meta, ranges, acked>>
        \/ /\ \/ meta[upload[w]] = "none" /\ UNCHANGED <<meta, ranges>>
              \/ ranges' = [ranges EXCEPT ![upload[w]] = snap[w]]
           /\ \A id \in Ids : id # upload[w] => meta'[id] = meta[id]
           /\ acked' = [acked EXCEPT ![upload[w]] = @ \cup Blocks(chunk[w])]
    BY <1>22 DEF ChunkMetaWrite, WriteMeta
  <2>4. UNCHANGED part
    BY <1>22 DEF ChunkMetaWrite
  <2>5. AckedRecorded'
    BY <2>1, <2>2, <2>3, <2>4
  <2>6. pc'[w] = "idle"
    BY <1>22 DEF ChunkMetaWrite, UnlockAndFinish, Finish
  <2>7. \A v \in Workers : v # w =>
           pc'[v] = pc[v] /\ snap'[v] = snap[v] /\ chunk'[v] = chunk[v] /\ upload'[v] = upload[v]
    BY <1>22 DEF ChunkMetaWrite, UnlockAndFinish, Finish
  <2>8. \A id \in Ids : id # upload[w] => acked'[id] = acked[id]
    BY <2>1, <2>3
  <2>9. pc[w] = "chunkMetaWrite"
    BY <1>22 DEF ChunkMetaWrite
  <2> QED BY <2>4, <2>5, <2>6, <2>7, <2>8, <2>9
<1>23. ASSUME NEW w \in Workers, FinRead(w) PROVE AckInv'
  <2>1. CASE Finish(w)
    BY <1>23, <2>1 DEF FinRead, UnlockAndFinish, Unlock, Finish, Covered
  <2>2. CASE ~Finish(w)
    BY <1>23, <2>2 DEF FinRead, UnlockAndFinish, Unlock, Covered
  <2> QED BY <2>1, <2>2
<1>24. ASSUME NEW w \in Workers, FinStat(w) PROVE AckInv'
  BY <1>24 DEF FinStat, CallRemoveAll, InLibrary
<1>25. ASSUME NEW w \in Workers, FinRename(w) PROVE AckInv'
  BY SMTT(30), <1>25 DEF FinRename, CallRemoveAll
<1>26. ASSUME NEW w \in Workers, FinRegister(w) PROVE AckInv'
  BY <1>26 DEF FinRegister, CallRemoveAll
<1>27. ASSUME NEW w \in Workers, FinUnlock(w) PROVE AckInv'
  BY <1>27 DEF FinUnlock, Unlock
<1>28. ASSUME NEW id \in Ids, Age(id) PROVE AckInv'
  BY <1>28 DEF Age
<1>29. ASSUME Restart PROVE AckInv'
  BY <1>29 DEF Restart
<1>30. ASSUME UNCHANGED vars PROVE AckInv'
  BY <1>30 DEF vars
<1> QED
  BY <1>1, <1>2, <1>3, <1>4, <1>5, <1>6, <1>7, <1>8, <1>9, <1>10, <1>11,
     <1>12, <1>13, <1>14, <1>15, <1>16, <1>17, <1>18, <1>19, <1>20, <1>21,
     <1>22, <1>23, <1>24, <1>25, <1>26, <1>27, <1>28, <1>29, <1>30 DEF Next,
     Request, Step

\* A step that publishes nothing, adds no file to a published session and does not
\* take its worker off a removal, or brings the removal to its end.
LEMMA CleanKeeps ==
  ASSUME UploadInv, ~Restarts, NEW w \in Workers,
         \A id \in dirs' : part'[id] = "library" => /\ id \in dirs /\ part[id] = "library"
                                                    /\ Files(id)' \subseteq Files(id)
                                                    /\ Clears(w, id) => Clears(w, id)',
         \A v \in Workers \ {w} : /\ pc'[v] = pc[v] /\ upload'[v] = upload[v]
                                  /\ tgt'[v] = tgt[v] /\ list'[v] = list[v]
  PROVE  CleanInv'
<1> SUFFICES ASSUME NEW id \in dirs', part'[id] = "library"
             PROVE  \E v \in Workers : Clears(v, id)'
  BY DEF CleanInv
<1>1. PICK v \in Workers : Clears(v, id)
  BY DEF CleanInv
<1>2. CASE v = w
  BY <1>1, <1>2
<1>3. CASE v # w
  <2>1. /\ pc'[v] = pc[v] /\ upload'[v] = upload[v] /\ tgt'[v] = tgt[v] /\ list'[v] = list[v]
        /\ Files(id)' \subseteq Files(id)
    BY <1>3
  <2> QED BY <1>1, <2>1 DEF Clears
<1> QED BY <1>2, <1>3

\* Somebody removes the directory of a published session.  FinRename excludes the
\* others, and from then on no chunk gets past ChunkOpen.
LEMMA CleanStep == ASSUME UploadInv, SoleWriter, [Next]_vars PROVE CleanInv'
<1> SUFFICES ASSUME ~Restarts PROVE CleanInv'
  BY DEF CleanInv
<1> USE DEF DiskTypes, RequestTypes
<1>1. ASSUME NEW w \in Workers, Request(w) PROVE CleanInv'
  <2>1. pc[w] = "idle" /\ UNCHANGED disk
    BY <1>1 DEF Request, InitRequest, ChunkRequest, CompleteRequest, AbortRequest, UploadLock
  <2>2. \A v \in Workers \ {w} : /\ pc'[v] = pc[v] /\ upload'[v] = upload[v]
                                 /\ tgt'[v] = tgt[v] /\ list'[v] = list[v]
    BY <1>1 DEF Request, InitRequest, ChunkRequest, CompleteRequest, AbortRequest, UploadLock,
                CallRemoveAll
  <2> QED BY <2>1, <2>2, CleanKeeps DEF Files, Clears
<1>2. ASSUME NEW w \in Workers, Acquire(w) PROVE CleanInv'
  BY <1>2, CleanKeeps DEF Acquire, Files, Clears
<1>3. ASSUME NEW w \in Workers,
             \/ DropLock(w) \/ SweepDir(w) \/ Sweep(w) \/ PeersDir(w) \/ Peers(w)
             \/ ChunkRead(w) \/ ChunkOpen(w) \/ FinRead(w) \/ FinStat(w) \/ FinUnlock(w)
      PROVE  CleanInv'
  <2>1. pc[w] \notin {"finRegister", "removeAll", "unlink"} /\ UNCHANGED disk
    BY <1>3 DEF DropLock, SweepDir, Sweep, PeersDir, Peers, ChunkRead, ChunkOpen, FinRead,
                FinStat, FinUnlock
  <2>2. \A v \in Workers \ {w} : /\ pc'[v] = pc[v] /\ upload'[v] = upload[v]
                                 /\ tgt'[v] = tgt[v] /\ list'[v] = list[v]
    BY <1>3 DEF DropLock, SweepDir, Sweep, PeersDir, Peers, ChunkRead, ChunkOpen, FinRead,
                FinStat, FinUnlock, CallRemoveAll, Finish, UnlockAndFinish
  <2> QED BY <2>1, <2>2, CleanKeeps DEF Files, Clears
<1>4. ASSUME NEW w \in Workers,
             Mkdir(w) \/ CreateData(w) \/ InitMetaOpen(w) \/ InitMetaWrite(w)
      PROVE  CleanInv'
  <2>1. pc[w] \in {"peers", "create", "metaOpen", "metaWrite"}
    BY <1>4 DEF Mkdir, CreateData, InitMetaOpen, InitMetaWrite
  <2>2. upload[w] \in Ids /\ part[upload[w]] # "library"
    BY <2>1 DEF InitInv, LifeInv, Arriving, Creating
  <2>3. /\ dirs' \subseteq dirs \cup {upload[w]}
        /\ \A id \in Ids \ {upload[w]} : part'[id] = part[id] /\ meta'[id] = meta[id]
        /\ part'[upload[w]] # "library"
    BY <1>4, <2>2 DEF Mkdir, CreateData, InitMetaOpen, InitMetaWrite, WriteMeta
  <2>4. \A v \in Workers \ {w} : /\ pc'[v] = pc[v] /\ upload'[v] = upload[v]
                                 /\ tgt'[v] = tgt[v] /\ list'[v] = list[v]
    BY <1>4 DEF Mkdir, CreateData, InitMetaOpen, InitMetaWrite, CallRemoveAll, Finish
  <2>5. \A id \in dirs' : part'[id] = "library" => id \in dirs /\ part[id] = "library"
                                                   /\ Files(id)' = Files(id)
    BY <2>2, <2>3 DEF Files
  <2> QED BY <2>1, <2>4, <2>5, CleanKeeps DEF Clears
<1>5. ASSUME NEW w \in Workers, ChunkWrite(w) \/ ChunkMetaOpen(w) \/ ChunkMetaWrite(w)
      PROVE  CleanInv'
  <2>1. pc[w] \in {"chunkWrite", "chunkMetaOpen", "chunkMetaWrite"}
    BY <1>5 DEF ChunkWrite, ChunkMetaOpen, ChunkMetaWrite
  <2>2. upload[w] \in Ids /\ part[upload[w]] # "library"
    BY <2>1, IdsKnown DEF DataInv, WritesSound, Chunking
  <2>3. /\ UNCHANGED <<dirs, part>>
        /\ \A id \in Ids \ {upload[w]} : meta'[id] = meta[id]
    BY <1>5, <2>2 DEF ChunkWrite, ChunkMetaOpen, ChunkMetaWrite, WriteMeta
  <2>4. \A v \in Workers \ {w} : /\ pc'[v] = pc[v] /\ upload'[v] = upload[v]
                                 /\ tgt'[v] = tgt[v] /\ list'[v] = list[v]
    BY <1>5 DEF ChunkWrite, ChunkMetaOpen, ChunkMetaWrite, Finish, UnlockAndFinish
  <2>5. \A id \in dirs' : part'[id] = "library" => id \in dirs /\ part[id] = "library"
                                                   /\ Files(id)' = Files(id)
    BY <2>2, <2>3 DEF Files
  <2> QED BY <2>1, <2>4, <2>5, CleanKeeps DEF Clears
<1>6. ASSUME NEW w \in Workers, FinRename(w) PROVE CleanInv'
  <2>1. upload[w] \in Ids
    BY <1>6, IdsKnown DEF FinRename, Wants, Holds, Inside
  <2>2. CASE CallRemoveAll(w, upload[w], "finUnlock") /\ UNCHANGED part
    BY <1>6, <2>2, CleanKeeps DEF FinRename, Files, Clears, CallRemoveAll
  <2>3. CASE part[upload[w]] = "part" /\ Goto(w, "finRegister") /\ UNCHANGED removal
    <3>1. /\ pc' = [pc EXCEPT ![w] = "finRegister"]
          /\ UNCHANGED <<dirs, meta, upload, tgt, list>>
          /\ \A id \in Ids \ {upload[w]} : part'[id] = "library" => part[id] = "library"
      BY <1>6, <2>3 DEF FinRename, CallRemoveAll
    <3> SUFFICES ASSUME NEW id \in dirs', part'[id] = "library"
                 PROVE  \E v \in Workers : Clears(v, id)'
      BY DEF CleanInv
    <3>2. CASE id = upload[w]
      BY <3>1, <3>2 DEF Clears
    <3>3. CASE id # upload[w]
      <4>1. PICK v \in Workers : Clears(v, id)
        BY <3>1, <3>3 DEF CleanInv
      <4>2. v # w
        BY <1>6, <4>1 DEF FinRename, Clears
      <4>3. part[id] = "library" /\ Files(id)' = Files(id)
        BY <3>1, <3>3 DEF Files
      <4>4. pc'[v] = pc[v]
        BY <3>1, <4>2
      <4> QED BY <3>1, <4>1, <4>3, <4>4 DEF Clears
    <3> QED BY <3>2, <3>3
  <2> QED BY <1>6, <2>2, <2>3 DEF FinRename
<1>7. ASSUME NEW w \in Workers, FinRegister(w) PROVE CleanInv'
  <2>1. /\ pc'[w] = "removeAll" /\ tgt'[w] = upload[w] /\ UNCHANGED <<dirs, meta, list, upload>>
        /\ \A id \in Ids : part'[id] = part[id] \/ part'[id] = "gone"
        /\ \A v \in Workers \ {w} : pc'[v] = pc[v] /\ tgt'[v] = tgt[v]
    BY <1>7 DEF FinRegister, CallRemoveAll
  <2>2. \A id \in Ids : Clears(w, id) => Clears(w, id)'
    BY <1>7, <2>1 DEF FinRegister, Clears
  <2>3. \A id \in Ids : part'[id] = "library" => part[id] = "library" /\ Files(id)' = Files(id)
    BY <2>1 DEF Files
  <2> QED BY <2>1, <2>2, <2>3, CleanKeeps
<1>8. ASSUME NEW w \in Workers, RemoveAllStart(w) \/ Unlink(w) \/ RemoveAllEnd(w)
      PROVE  CleanInv'
  <2>1. \A v \in Workers \ {w} : /\ pc'[v] = pc[v] /\ upload'[v] = upload[v]
                                 /\ tgt'[v] = tgt[v] /\ list'[v] = list[v]
    BY <1>8 DEF RemoveAllStart, Unlink, RemoveAllEnd, Return, Finish
  <2>2. /\ dirs' \subseteq dirs
        /\ \A id \in Ids : /\ part'[id] = part[id] \/ (part[id] = "part" /\ part'[id] = "gone")
                           /\ meta'[id] = meta[id] \/ meta'[id] = "none"
    <3>1. CASE RemoveAllStart(w) \/ RemoveAllEnd(w)
      <4>1. part' = part /\ meta' = meta
        BY <3>1 DEF RemoveAllStart, RemoveAllEnd
      <4>2. dirs' \subseteq dirs
        BY <3>1 DEF RemoveAllStart, RemoveAllEnd
      <4> QED BY Zenon, <4>1, <4>2
    <3>2. CASE Unlink(w)
      <4>1. /\ dirs' = dirs
            /\ \/ meta' = [meta EXCEPT ![tgt[w]] = "none"] /\ part' = part
               \/ /\ part' = [part EXCEPT ![tgt[w]] = IF @ = "part" THEN "gone" ELSE @]
                  /\ meta' = meta
        BY <3>2 DEF Unlink
      <4> QED BY <4>1
    <3> QED BY <1>8, <3>1, <3>2
  <2>3. \A id \in Ids : part'[id] = "library" => /\ part[id] = "library"
                                                 /\ Files(id)' \subseteq Files(id)
    BY <2>2 DEF Files
  <2>4. ASSUME NEW id \in dirs', part'[id] = "library", Clears(w, id) PROVE Clears(w, id)'
    <3>1. tgt[w] = id /\ pc[w] \in {"removeAll", "unlink"}
      BY <1>8, <2>4 DEF RemoveAllStart, Unlink, RemoveAllEnd, Clears
    <3>2. CASE RemoveAllStart(w)
      BY <3>1, <3>2, <2>4 DEF RemoveAllStart, Clears, Files
    <3>3. CASE Unlink(w)
      BY <3>1, <3>3, <2>2, <2>3, <2>4 DEF Unlink, Clears, Files
    <3>4. CASE RemoveAllEnd(w)
      BY <3>1, <3>4, <2>4 DEF RemoveAllEnd, Clears
    <3> QED BY <1>8, <3>2, <3>3, <3>4
  <2> QED BY <2>1, <2>2, <2>3, <2>4, CleanKeeps
<1>9. ASSUME NEW id \in Ids, Age(id) PROVE CleanInv'
  BY <1>9 DEF Age, CleanInv, Clears, Files
<1>10. ASSUME Restart PROVE CleanInv'
  BY <1>10 DEF Restart
<1>11. ASSUME UNCHANGED vars PROVE CleanInv'
  BY <1>11 DEF vars, CleanInv, Clears, Files
<1> QED
  BY <1>1, <1>2, <1>3, <1>4, <1>5, <1>6, <1>7, <1>8, <1>9, <1>10, <1>11 DEF Next, Step

-----------------------------------------------------------------------------
\* Before the first request the invariant holds.
LEMMA InitHolds == Init => UploadInv
<1> SUFFICES ASSUME Init PROVE UploadInv
  OBVIOUS
<1> USE ConstAssumption DEF Init
<1>1. TypeOK
  BY DEF DiskTypes, LockTypes, RequestTypes, WithinSize, Labels, Offsets
<1>2. LifeInv /\ InitInv /\ RemoveInv
  BY DEF LifeInv, InitInv, RemoveInv, Arriving, Creating
<1>3. LockInv
  BY DEF LockInv, Wants, Holds, Inside
<1>4. DataInv /\ AckInv
  BY DEF DataInv, WritesSound, PublishedWhole, AckInv, AckedRecorded, Chunking
<1>5. CleanInv
  BY DEF CleanInv
<1> QED BY <1>1, <1>2, <1>3, <1>4, <1>5

\* Every step keeps it.
LEMMA StepKeeps == UploadInv /\ [Next]_vars => UploadInv'
  BY Exclusion, DiskTypeStep, LockTypeStep, RequestTypeStep, WithinSizeStep, LifeStep,
     InitStep, LockStep, RemoveStep, DataStep, AckStep, CleanStep

\* The inductive invariant holds in every reachable state.
THEOREM UploadInvariant == Spec => []UploadInv
  BY InitHolds, StepKeeps, PTL DEF Spec

\* Types, and nothing past the end of the file.
THEOREM TypeCorrect == Spec => []TypeOK
<1>1. UploadInv => TypeOK
  OBVIOUS
<1> QED BY <1>1, UploadInvariant, PTL

\* Mutual exclusion on a session's files, although sessions and their map
\* entries are taken away without the lock.
THEOREM MutualExclusion == Spec => []SoleWriter
  BY Exclusion, UploadInvariant, PTL

\* No acknowledged chunk is forgotten.
THEOREM NothingForgotten == Spec => []AckedRecorded
<1>1. UploadInv => AckedRecorded
  BY DEF AckInv
<1> QED BY <1>1, UploadInvariant, PTL

\* The library holds whole files only.
THEOREM WholeFiles == Spec => []PublishedWhole
<1>1. UploadInv => PublishedWhole
  BY DEF DataInv
<1> QED BY <1>1, UploadInvariant, PTL

\* A published session that nobody deals with has no directory.
THEOREM CleanLibrary == Spec => []PublishedClean
<1>1. UploadInv => PublishedClean
  <2> SUFFICES ASSUME UploadInv, ~Restarts, NEW id \in Ids, part[id] = "library", id \in dirs
               PROVE  ~Quiet(id)
    BY DEF PublishedClean
  <2> QED BY DEF CleanInv, Clears, Quiet
<1> QED BY <1>1, UploadInvariant, PTL

\* Whoever publishes a session, or another request, is going to remove its
\* directory.
THEOREM CleaningGoesOn == Spec => []CleanInv
<1>1. UploadInv => CleanInv
  OBVIOUS
<1> QED BY <1>1, UploadInvariant, PTL
=============================================================================
