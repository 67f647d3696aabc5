-------------------------- MODULE RefinementProofs --------------------------
(***************************************************************************)
(* ChunkUpload implements UploadPromise: for any sessions, sizes, chunks,  *)
(* requests and mutexes, the initial states are initial states of the      *)
(* promise, and every step is one of its steps or changes nothing it       *)
(* speaks of.                                                              *)
(***************************************************************************)
EXTENDS ChunkUploadProofs

USE DEF disk, lockVars, history, body, removal, locals, UploadInv, TypeOK, Goto

promised == <<Phase, bytes, acked>>

\* Steps that touch neither data.part nor the acknowledgements.
LEMMA SilentRequests ==
  ASSUME NEW w \in Workers, Request(w) \/ Acquire(w)
  PROVE  UNCHANGED <<part, bytes, acked>>
  BY DEF Request, InitRequest, ChunkRequest, CompleteRequest, AbortRequest,
         UploadLock, Acquire, disk, history

\* The steps the promise does not speak of.
LEMMA SilentSteps ==
  ASSUME NEW w \in Workers, Step(w), ~Unlink(w), ~CreateData(w), ~ChunkWrite(w),
         ~ChunkMetaWrite(w), ~FinRename(w), ~FinRegister(w)
  PROVE  UNCHANGED <<part, bytes, acked>>
<1> USE DEF disk, history
<1>1. ASSUME DropLock(w) \/ RemoveAllStart(w) \/ RemoveAllEnd(w)
      PROVE  UNCHANGED <<part, bytes, acked>>
  BY <1>1 DEF DropLock, RemoveAllStart, RemoveAllEnd
<1>2. ASSUME \/ SweepDir(w) \/ Sweep(w) \/ PeersDir(w) \/ Peers(w) \/ Mkdir(w)
             \/ InitMetaOpen(w) \/ InitMetaWrite(w)
      PROVE  UNCHANGED <<part, bytes, acked>>
  BY <1>2 DEF SweepDir, Sweep, PeersDir, Peers, Mkdir, InitMetaOpen, InitMetaWrite
<1>3. ASSUME ChunkRead(w) \/ ChunkOpen(w) \/ ChunkMetaOpen(w)
      PROVE  UNCHANGED <<part, bytes, acked>>
  BY <1>3 DEF ChunkRead, ChunkOpen, ChunkMetaOpen
<1>4. ASSUME FinRead(w) \/ FinStat(w) \/ FinUnlock(w)
      PROVE  UNCHANGED <<part, bytes, acked>>
  BY <1>4 DEF FinRead, FinStat, FinUnlock
<1>5. QED
  BY <1>1, <1>2, <1>3, <1>4 DEF Step

\* Phase is a function of the place of the inode.
LEMMA Silent ==
  ASSUME UNCHANGED <<part, bytes, acked>>
  PROVE  UNCHANGED promised
  BY DEF promised, Phase

\* Each phase stands for the place of the inode.
LEMMA PhaseOf ==
  ASSUME UploadInv, NEW id \in Ids
  PROVE  /\ Phase[id] = "absent" <=> part[id] = "none"
         /\ Phase[id] = "open" <=> part[id] = "part"
         /\ Phase[id] = "published" <=> part[id] = "library"
         /\ Phase[id] = "gone" <=> part[id] = "gone"
  BY DEF Phase, UploadInv, TypeOK, DiskTypes

\* os.RemoveAll discards one session at most.
LEMMA UnlinkKeeps ==
  ASSUME UploadInv, NEW w \in Workers, Unlink(w)
  PROVE  Promise!Discard \/ UNCHANGED promised
<1>1. PICK f \in list[w] :
        \/ UNCHANGED part
        \/ part' = [part EXCEPT ![tgt[w]] = IF @ = "part" THEN "gone" ELSE @]
  BY DEF Unlink
<1>2. UNCHANGED <<bytes, acked>>
  BY DEF Unlink, history
<1>3. CASE part' = part
  BY <1>2, <1>3, Silent
<1>4. CASE part' # part
  <2> DEFINE lost == {id \in Ids : part[id] = "part" /\ id = tgt[w]}
  <2>1. lost \in SUBSET {id \in Ids : Phase[id] \in {"open", "published"}}
    BY PhaseOf
  <2>2. Phase' = [id \in Ids |-> IF id \in lost THEN "gone" ELSE Phase[id]]
    BY <1>1, <1>4 DEF Phase, UploadInv, TypeOK, DiskTypes
  <2>3. QED
    BY <1>2, <2>1, <2>2 DEF Promise!Discard
<1>5. QED
  BY <1>3, <1>4

\* A failed registration takes the game of the serial out of the library.
LEMMA FinRegisterKeeps ==
  ASSUME UploadInv, NEW w \in Workers, FinRegister(w)
  PROVE  Promise!Discard \/ UNCHANGED promised
<1> DEFINE serial == SerialOf[upload[w]]
<1>1. UNCHANGED <<bytes, acked>>
  BY DEF FinRegister, history
<1>2. CASE UNCHANGED part
  BY <1>1, <1>2, Silent
<1>3. CASE part' = [i \in Ids |-> IF part[i] = "library" /\ SerialOf[i] = serial
                                    THEN "gone" ELSE part[i]]
  <2> DEFINE lost == {i \in Ids : part[i] = "library" /\ SerialOf[i] = serial}
  <2>1. lost \in SUBSET {id \in Ids : Phase[id] \in {"open", "published"}}
    BY PhaseOf
  <2>2. Phase' = [id \in Ids |-> IF id \in lost THEN "gone" ELSE Phase[id]]
    BY <1>3 DEF Phase
  <2>3. QED
    BY <1>1, <2>1, <2>2 DEF Promise!Discard
<1>4. QED
  BY <1>2, <1>3 DEF FinRegister

\* data.part is made once, empty.
LEMMA CreateDataKeeps ==
  ASSUME UploadInv, NEW w \in Workers, CreateData(w)
  PROVE  (\E id \in Ids : Promise!Open(id)) \/ UNCHANGED promised
<1> DEFINE id == upload[w]
<1>1. UNCHANGED acked
  BY DEF CreateData, history
<1>2. id \in Ids /\ part[id] = "none" /\ bytes[id] = {}
  BY DEF CreateData, UploadInv, InitInv, LifeInv, Creating
<1>3. CASE UNCHANGED <<part, bytes>>
  BY <1>1, <1>3, Silent
<1>4. CASE /\ part' = [part EXCEPT ![id] = "part"]
           /\ bytes' = [bytes EXCEPT ![id] = {}]
  <2>1. UNCHANGED bytes
    BY <1>2, <1>4 DEF UploadInv, TypeOK, DiskTypes
  <2>2. Phase' = [Phase EXCEPT ![id] = "open"]
    BY <1>2, <1>4 DEF Phase, UploadInv, TypeOK, DiskTypes
  <2>3. Phase[id] = "absent"
    BY <1>2, PhaseOf
  <2>4. Promise!Open(id)
    BY <1>1, <2>1, <2>2, <2>3 DEF Promise!Open
  <2>5. QED
    BY <1>2, <2>4
<1>5. QED
  BY <1>3, <1>4 DEF CreateData

\* A chunk adds bytes of the file, and to no published one.
LEMMA ChunkWriteKeeps ==
  ASSUME UploadInv, NEW w \in Workers, ChunkWrite(w)
  PROVE  (\E id \in Ids : Promise!Write(id)) \/ UNCHANGED promised
<1> DEFINE id == upload[w]
<1>1. UNCHANGED <<part, acked>> /\ UNCHANGED Phase
  BY DEF ChunkWrite, history, Phase
<1>2. id \in Ids
  BY IdsKnown DEF ChunkWrite, Chunking
<1>3. /\ bytes[id] \subseteq bytes'[id]
      /\ bytes'[id] \subseteq Offsets(id)
      /\ bytes' = [bytes EXCEPT ![id] = bytes'[id]]
  BY <1>2, ChunkWriteGrows DEF DiskTypes
<1>4. Phase[id] \in {"open", "gone"}
  <2>1. part[id] \notin {"none", "library"}
    BY <1>2 DEF ChunkWrite, DataInv, WritesSound, Chunking, LockInv, LifeInv, Wants,
                Holds, Inside
  <2>2. QED
    BY <1>2, <2>1, PhaseOf DEF DiskTypes
<1>5. QED
  BY <1>1, <1>2, <1>3, <1>4 DEF Promise!Write, Offsets

\* What is acknowledged has been written.
LEMMA ChunkMetaWriteKeeps ==
  ASSUME UploadInv, NEW w \in Workers, ChunkMetaWrite(w)
  PROVE  (\E id \in Ids : Promise!Ack(id)) \/ UNCHANGED promised
<1> DEFINE id == upload[w]
<1>1. UNCHANGED <<part, bytes>> /\ UNCHANGED Phase
  BY DEF ChunkMetaWrite, Phase
<1>2. id \in Ids
  BY IdsKnown DEF ChunkMetaWrite, Chunking
<1>3. CASE UNCHANGED acked
  BY <1>1, <1>3, Silent
<1>4. CASE acked' = [acked EXCEPT ![id] = @ \cup Blocks(chunk[w])]
  <2>1. acked[id] \cup Blocks(chunk[w]) \subseteq bytes[id]
    BY <1>2 DEF ChunkMetaWrite, DataInv, WritesSound
  <2>2. acked'[id] = acked[id] \cup Blocks(chunk[w])
    BY <1>2, <1>4 DEF DiskTypes
  <2>3. acked' = [acked EXCEPT ![id] = acked'[id]]
    BY <1>4, <2>2
  <2>4. Promise!Ack(id)
    BY <1>1, <2>1, <2>2, <2>3 DEF Promise!Ack
  <2>5. QED
    BY <1>2, <2>4
<1>5. QED
  BY <1>3, <1>4 DEF ChunkMetaWrite

\* complete publishes a file with every byte in it, in place of the game of the
\* serial, if there is one.
LEMMA FinRenameKeeps ==
  ASSUME UploadInv, NEW w \in Workers, FinRename(w)
  PROVE  (\E id \in Ids : Promise!Publish(id)) \/ UNCHANGED promised
<1> DEFINE id == upload[w]
<1>1. UNCHANGED <<bytes, acked>>
  BY DEF FinRename
<1>2. id \in Ids
  BY IdsKnown DEF FinRename, LockInv, Wants, Holds, Inside
<1>3. CASE UNCHANGED part
  BY <1>1, <1>3, Silent
<1>4. CASE /\ part[id] = "part"
           /\ part' = [i \in Ids |->
                IF i = id THEN "library"
                ELSE IF part[i] = "library" /\ SerialOf[i] = SerialOf[id] THEN "gone"
                ELSE part[i]]
  <2>1. bytes[id] = Offsets(id)
    BY DEF FinRename, DataInv, WritesSound
  <2>2. Phase[id] = "open"
    BY <1>2, <1>4, PhaseOf
  <2>3. Phase' = [i \in Ids |->
           IF i = id THEN "published"
           ELSE IF Phase[i] = "published" /\ SerialOf[i] = SerialOf[id] THEN "gone"
           ELSE Phase[i]]
    BY <1>4 DEF Phase
  <2>4. Promise!Publish(id)
    BY <1>1, <2>1, <2>2, <2>3 DEF Promise!Publish, Offsets
  <2>5. QED
    BY <1>2, <2>4
<1>5. QED
  BY <1>3, <1>4 DEF FinRename

-----------------------------------------------------------------------------
\* Chunked uploads keep what UploadPromise promises a client.
THEOREM Refinement == Spec => KeepsPromise
<1>1. Init => Promise!Init
  BY DEF Init, Promise!Init, Phase
<1>2. UploadInv /\ [Next]_vars => [Promise!Next]_(Promise!vars)
  <2> SUFFICES ASSUME UploadInv, [Next]_vars
               PROVE  Promise!Next \/ UNCHANGED promised
    BY DEF promised, Promise!vars
  <2>1. ASSUME NEW w \in Workers, Request(w) \/ Acquire(w)
        PROVE  UNCHANGED promised
    BY <2>1, SilentRequests, Silent
  <2>2. ASSUME NEW w \in Workers, Step(w)
        PROVE  Promise!Next \/ UNCHANGED promised
    <3>1. CASE Unlink(w) \/ FinRegister(w)
      BY <3>1, UnlinkKeeps, FinRegisterKeeps DEF Promise!Next
    <3>2. CASE CreateData(w) \/ FinRename(w)
      BY <3>2, CreateDataKeeps, FinRenameKeeps DEF Promise!Next
    <3>3. CASE ChunkWrite(w) \/ ChunkMetaWrite(w)
      BY <3>3, ChunkWriteKeeps, ChunkMetaWriteKeeps DEF Promise!Next
    <3>4. QED
      BY <2>2, <3>1, <3>2, <3>3, SilentSteps, Silent
  <2>3. CASE (\E id \in Ids : Age(id)) \/ Restart \/ UNCHANGED vars
    BY <2>3, Silent DEF Age, Restart, vars
  <2>4. QED
    BY <2>1, <2>2, <2>3 DEF Next
<1>3. QED
  BY <1>1, <1>2, UploadInvariant, PTL DEF Spec, KeepsPromise, Promise!Spec
=============================================================================
