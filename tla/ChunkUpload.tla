----------------------------- MODULE ChunkUpload -----------------------------
(***************************************************************************)
(* Chunked uploads: upload_chunked.go, the per-session locks of handler.go *)
(* and the file moves of finalizeUpload in upload.go.                      *)
(*                                                                         *)
(* Several requests (Workers, one goroutine each) act at once on the       *)
(* session directories <library>/.uploads/<id>, each of which holds        *)
(* meta.json and data.part.  A step of this module is one system call or   *)
(* one critical section of uploadMu, so that                               *)
(*   - os.WriteFile is two steps (truncate, write): between them other     *)
(*     requests read a torn meta.json;                                     *)
(*   - os.RemoveAll is a listing, one unlink per file and a final rmdir;   *)
(*   - uploadLock is a map access followed by a wait for the mutex found.  *)
(*                                                                         *)
(* Data abstraction.  The fields of meta.json that never change (serial,   *)
(* size) belong to the identity of the session: SerialOf and SizeOf.  The  *)
(* ranges of meta.json are the set of byte offsets they cover (module      *)
(* ChunkRanges shows that mergeRange computes exactly that union and that  *)
(* "one range, [0, size)" means "every offset").  The inode created as     *)
(* data.part is created once per session, so part[id] says where it is.    *)
(* Database rows and titles are the subject of module Library: here only   *)
(* the outcome of the registration matters.                                *)
(***************************************************************************)
EXTENDS Integers

CONSTANTS
  Ids,        \* upload ids; 16 random bytes each, so never reused
  SerialOf,   \* the library name a session uploads to
  SizeOf,     \* the size announced at init
  Chunks,     \* the chunks clients send: <<start, end>>, end excluded
  Workers,    \* request goroutines
  Mutexes,    \* identities of *sync.Mutex values
  NoMutex,
  NoId,
  Ageing,     \* bound: the sessions that may get older than staleUploadAfter
  DiskFaults, \* TRUE: creating, truncating, writing and renaming may fail (disk full)
  Restarts    \* TRUE: the process may die and start again

ASSUME ConstAssumption ==
  /\ NoId \notin Ids
  /\ SizeOf \in [Ids -> Nat \ {0}]
  /\ Chunks \subseteq {c \in Nat \X Nat : c[1] < c[2]}
  /\ Mutexes \subseteq Nat
  /\ NoMutex \notin Mutexes
  /\ DiskFaults \in BOOLEAN
  /\ Restarts \in BOOLEAN

VARIABLES
  dirs,    \* ids whose directory exists under .uploads
  meta,    \* meta.json of each session: "none", "torn" (truncated) or "full"
  ranges,  \* the offsets its ranges cover, when it is full
  part,    \* the inode made as data.part: "none" (not made yet), "part" (still
           \* there), "library" (renamed to <serial>.iso) or "gone" (unlinked)
  bytes,   \* offsets of that inode that have been written
  locks,   \* h.uploadLocks
  locked,  \* the mutexes that are locked
  pc,      \* next statement of each request; its local variables:
  upload,  \*   the upload id
  mu,      \*   the mutex uploadLock has found
  chunk,   \*   offset and end of the body
  snap,    \*   the ranges read from meta.json
  todo,    \*   entries that a loop over os.ReadDir has not reached
  tgt,     \*   the session os.RemoveAll removes,
  list,    \*   the names it has listed and not unlinked,
  ret,     \*   and the statement that follows it
  born,    \* ids whose directory has been made
  issued,  \* ids a client has received in a 201
  aged,    \* sessions created more than staleUploadAfter ago
  acked    \* offsets of chunks answered 200

disk     == <<dirs, meta, ranges, part, bytes>>
lockVars == <<locks, locked>>
history  == <<born, issued, aged, acked>>
body     == <<chunk, snap>>
removal  == <<tgt, list, ret>>
locals   == <<upload, mu, body, todo, removal>>
vars     == <<disk, lockVars, pc, locals, history>>

-----------------------------------------------------------------------------
Offsets(id) == 0 .. (SizeOf[id] - 1)
Blocks(c)   == c[1] .. (c[2] - 1)

\* Names in a session directory, as os.ReadDir lists them.
Files(id) == (IF meta[id] # "none" THEN {"meta.json"} ELSE {}) \cup
             (IF part[id] = "part" THEN {"data.part"} ELSE {})

\* os.Stat(<library>/<serial>.iso) finds a file.
InLibrary(serial) == \E id \in Ids : part[id] = "library" /\ SerialOf[id] = serial

Init ==
  /\ dirs = {}
  /\ meta = [id \in Ids |-> "none"]
  /\ ranges = [id \in Ids |-> {}]
  /\ part = [id \in Ids |-> "none"]
  /\ bytes = [id \in Ids |-> {}]
  /\ locks = [id \in Ids |-> NoMutex]
  /\ locked = {}
  /\ pc = [w \in Workers |-> "idle"]
  /\ upload = [w \in Workers |-> NoId]
  /\ mu = [w \in Workers |-> NoMutex]
  /\ chunk = [w \in Workers |-> <<0, 0>>]
  /\ snap = [w \in Workers |-> {}]
  /\ todo = [w \in Workers |-> {}]
  /\ tgt = [w \in Workers |-> NoId]
  /\ list = [w \in Workers |-> {}]
  /\ ret = [w \in Workers |-> "idle"]
  /\ born = {} /\ issued = {} /\ aged = {}
  /\ acked = [id \in Ids |-> {}]

Goto(w, label) == pc' = [pc EXCEPT ![w] = label]

\* The handler writes its response and returns.
Finish(w) ==
  /\ Goto(w, "idle")
  /\ upload' = [upload EXCEPT ![w] = NoId]
  /\ mu' = [mu EXCEPT ![w] = NoMutex]
  /\ chunk' = [chunk EXCEPT ![w] = <<0, 0>>]
  /\ snap' = [snap EXCEPT ![w] = {}]
  /\ todo' = [todo EXCEPT ![w] = {}]
  /\ tgt' = [tgt EXCEPT ![w] = NoId]
  /\ list' = [list EXCEPT ![w] = {}]
  /\ ret' = [ret EXCEPT ![w] = "idle"]

-----------------------------------------------------------------------------
(* The locks of handler.go.                                                *)

\* A mutex nothing refers to.  The smallest one, so that a state has one form.
FreshMutex(m) ==
  LET Unused(n) == /\ n \notin locked
                   /\ \A id \in Ids : locks[id] # n
                   /\ \A w \in Workers : mu[w] # n
  IN  Unused(m) /\ \A n \in Mutexes : Unused(n) => m =< n

\* A bug: uploadLock makes a mutex without looking for the session's.
UploadLockAlwaysNew(w, id, c, label) ==
  /\ \E m \in Mutexes :
        /\ FreshMutex(m)
        /\ locks' = [locks EXCEPT ![id] = m]
        /\ mu' = [mu EXCEPT ![w] = m]
  /\ upload' = [upload EXCEPT ![w] = id]
  /\ chunk' = [chunk EXCEPT ![w] = c]
  /\ Goto(w, label)
  /\ UNCHANGED <<disk, locked, snap, todo, removal, history>>

\* uploadLock up to l.Lock(): find the mutex of the session or make one.
UploadLock(w, id, c, label) ==
  /\ \E m \in Mutexes :
        /\ IF locks[id] # NoMutex
             THEN m = locks[id] /\ UNCHANGED locks
             ELSE FreshMutex(m) /\ locks' = [locks EXCEPT ![id] = m]
        /\ mu' = [mu EXCEPT ![w] = m]
  /\ upload' = [upload EXCEPT ![w] = id]
  /\ chunk' = [chunk EXCEPT ![w] = c]
  /\ Goto(w, label)
  /\ UNCHANGED <<disk, locked, snap, todo, removal, history>>

\* A bug: the lock does not exclude anyone.
AcquireShared(w) ==
  /\ pc[w] \in {"chunkLock", "finLock"}
  /\ locked' = locked \cup {mu[w]}
  /\ Goto(w, IF pc[w] = "chunkLock" THEN "chunkRead" ELSE "finRead")
  /\ UNCHANGED <<disk, locks, locals, history>>

\* l.Lock() returns.
Acquire(w) ==
  /\ pc[w] \in {"chunkLock", "finLock"}
  /\ mu[w] \notin locked
  /\ locked' = locked \cup {mu[w]}
  /\ Goto(w, IF pc[w] = "chunkLock" THEN "chunkRead" ELSE "finRead")
  /\ UNCHANGED <<disk, locks, locals, history>>

Unlock(w) == locked' = locked \ {mu[w]} /\ UNCHANGED locks

UnlockAndFinish(w) == Unlock(w) /\ Finish(w)

\* dropUploadLock, called after a session directory has been removed.
DropLock(w) ==
  /\ pc[w] \in {"drop", "sweepDrop", "peersDrop"}
  /\ locks' = [locks EXCEPT ![tgt[w]] = NoMutex]
  /\ \/ pc[w] = "drop" /\ Finish(w)
     \/ pc[w] = "sweepDrop" /\ Goto(w, "sweep") /\ UNCHANGED locals
     \/ pc[w] = "peersDrop" /\ Goto(w, "peers") /\ UNCHANGED locals
  /\ UNCHANGED <<disk, locked, history>>

-----------------------------------------------------------------------------
(* os.RemoveAll of a session directory.  Errors are ignored by all callers. *)

CallRemoveAll(w, id, return) ==
  /\ Goto(w, "removeAll")
  /\ tgt' = [tgt EXCEPT ![w] = id]
  /\ ret' = [ret EXCEPT ![w] = return]
  /\ UNCHANGED list

\* After os.RemoveAll; only complete and the drops still have work to do.
Return(w) ==
  \/ ret[w] = "idle" /\ Finish(w)
  \/ ret[w] # "idle" /\ Goto(w, ret[w]) /\ UNCHANGED locals

\* The first rmdir succeeds on an empty (or missing) directory; otherwise list it.
RemoveAllStart(w) ==
  /\ pc[w] = "removeAll"
  /\ \/ /\ Files(tgt[w]) = {}
        /\ dirs' = dirs \ {tgt[w]}
        /\ Return(w)
     \/ /\ Files(tgt[w]) # {}
        /\ list' = [list EXCEPT ![w] = Files(tgt[w])]
        /\ Goto(w, "unlink")
        /\ UNCHANGED <<dirs, upload, mu, body, todo, tgt, ret>>
  /\ UNCHANGED <<meta, ranges, part, bytes, lockVars, history>>

Unlink(w) ==
  /\ pc[w] = "unlink"
  /\ \E f \in list[w] :
        /\ list' = [list EXCEPT ![w] = @ \ {f}]
        /\ IF f = "meta.json"
             THEN meta' = [meta EXCEPT ![tgt[w]] = "none"] /\ UNCHANGED part
             ELSE /\ part' = [part EXCEPT ![tgt[w]] = IF @ = "part" THEN "gone" ELSE @]
                  /\ UNCHANGED meta
  /\ UNCHANGED <<dirs, ranges, bytes, lockVars, pc, upload, mu, body, todo, tgt, ret, history>>

\* The last rmdir fails, unnoticed, when a file has appeared meanwhile.
RemoveAllEnd(w) ==
  /\ pc[w] = "unlink"
  /\ list[w] = {}
  /\ dirs' = IF Files(tgt[w]) = {} THEN dirs \ {tgt[w]} ELSE dirs
  /\ Return(w)
  /\ UNCHANGED <<meta, ranges, part, bytes, lockVars, history>>

-----------------------------------------------------------------------------
(* uploadInit.                                                             *)

\* The id stands for the request (its serial and size) until the directory
\* is made.  A game that exists is answered 409 and changes nothing.
InitRequest(w, id) ==
  /\ pc[w] = "idle"
  /\ id \notin born
  /\ \A v \in Workers : upload[v] # id
  /\ ~InLibrary(SerialOf[id])
  /\ Goto(w, "sweepDir")
  /\ upload' = [upload EXCEPT ![w] = id]
  /\ UNCHANGED <<disk, lockVars, mu, body, todo, removal, history>>

SweepDir(w) ==
  /\ pc[w] = "sweepDir"
  /\ Goto(w, "sweep")
  /\ todo' = [todo EXCEPT ![w] = dirs]
  /\ UNCHANGED <<disk, lockVars, upload, mu, body, removal, history>>

\* readMeta failed, or m.Created < cutoff.
LooksStale(id) == meta[id] # "full" \/ id \in aged

\* One round of the loop of sweepStaleUploads, up to os.RemoveAll.
Sweep(w) ==
  /\ pc[w] = "sweep"
  /\ \E e \in todo[w] :
       /\ todo' = [todo EXCEPT ![w] = @ \ {e}]
       /\ \/ LooksStale(e) /\ CallRemoveAll(w, e, "sweepDrop")
          \/ ~LooksStale(e) /\ UNCHANGED <<pc, removal>>
  /\ UNCHANGED <<disk, lockVars, upload, mu, body, history>>

\* The second os.ReadDir: look for sessions of the same serial.
PeersDir(w) ==
  /\ pc[w] = "sweep"
  /\ todo[w] = {}
  /\ Goto(w, "peers")
  /\ todo' = [todo EXCEPT ![w] = dirs]
  /\ UNCHANGED <<disk, lockVars, upload, mu, body, removal, history>>

SamePlace(e, id) == meta[e] = "full" /\ SerialOf[e] = SerialOf[id]

\* A bug: the replaced session's lock is dropped before its directory goes.
PeersDropFirst(w) ==
  /\ pc[w] = "peers"
  /\ \E e \in todo[w] :
       \/ /\ ~SamePlace(e, upload[w])
          /\ todo' = [todo EXCEPT ![w] = @ \ {e}]
          /\ UNCHANGED <<pc, locks, upload, mu, body, removal>>
       \/ /\ SamePlace(e, upload[w])
          /\ SizeOf[e] = SizeOf[upload[w]]
          /\ locks' = [locks EXCEPT ![e] = NoMutex]
          /\ todo' = [todo EXCEPT ![w] = @ \ {e}]
          /\ CallRemoveAll(w, e, "peersDrop")
          /\ UNCHANGED <<upload, mu, body>>
       \/ /\ SamePlace(e, upload[w])
          /\ SizeOf[e] # SizeOf[upload[w]]
          /\ Finish(w) /\ UNCHANGED locks
  /\ UNCHANGED <<disk, locked, history>>

\* Skip other games and unreadable sessions, replace a session of the same
\* size, answer 409 to one of another size.
Peers(w) ==
  /\ pc[w] = "peers"
  /\ \E e \in todo[w] :
       \/ /\ ~SamePlace(e, upload[w])
          /\ todo' = [todo EXCEPT ![w] = @ \ {e}]
          /\ UNCHANGED <<pc, upload, mu, body, removal>>
       \/ /\ SamePlace(e, upload[w])
          /\ SizeOf[e] = SizeOf[upload[w]]
          /\ todo' = [todo EXCEPT ![w] = @ \ {e}]
          /\ CallRemoveAll(w, e, "peersDrop")
          /\ UNCHANGED <<upload, mu, body>>
       \/ /\ SamePlace(e, upload[w])
          /\ SizeOf[e] # SizeOf[upload[w]]
          /\ Finish(w)
  /\ UNCHANGED <<disk, lockVars, history>>

\* newUploadID and MkdirAll; when one of them fails there is nothing to remove.
Mkdir(w) ==
  /\ pc[w] = "peers"
  /\ todo[w] = {}
  /\ \/ /\ Goto(w, "create")
        /\ dirs' = dirs \cup {upload[w]}
        /\ born' = born \cup {upload[w]}
        /\ UNCHANGED locals
     \/ DiskFaults /\ Finish(w) /\ UNCHANGED <<dirs, born>>
  /\ UNCHANGED <<meta, ranges, part, bytes, lockVars, issued, aged, acked>>

\* OpenFile(O_CREATE) and Truncate.  A failed OpenFile leaves the directory (500).
CreateData(w) ==
  LET id == upload[w]
  IN  /\ pc[w] = "create"
      /\ \/ /\ id \notin dirs \/ DiskFaults
            /\ Finish(w)
            /\ UNCHANGED <<part, bytes>>
         \/ /\ id \in dirs
            /\ part' = [part EXCEPT ![id] = "part"]
            /\ bytes' = [bytes EXCEPT ![id] = {}]
            /\ \/ Goto(w, "metaOpen") /\ UNCHANGED removal
               \/ DiskFaults /\ CallRemoveAll(w, id, "idle")
            /\ UNCHANGED <<upload, mu, body, todo>>
      /\ UNCHANGED <<dirs, meta, ranges, lockVars, history>>

\* writeMeta, first half: open meta.json with O_CREATE and O_TRUNC.
InitMetaOpen(w) ==
  LET id == upload[w]
  IN  /\ pc[w] = "metaOpen"
      /\ \/ /\ id \in dirs
            /\ meta' = [meta EXCEPT ![id] = "torn"]
            /\ Goto(w, "metaWrite")
            /\ UNCHANGED removal
         \/ /\ id \notin dirs \/ DiskFaults
            /\ CallRemoveAll(w, id, "idle")
            /\ UNCHANGED meta
      /\ UNCHANGED <<dirs, ranges, part, bytes, lockVars, upload, mu, body, todo, history>>

\* A write through an open descriptor; lost when the name has been unlinked.
WriteMeta(id, rs) ==
  \/ meta[id] = "none" /\ UNCHANGED <<meta, ranges>>
  \/ /\ meta[id] # "none"
     /\ meta' = [meta EXCEPT ![id] = "full"]
     /\ ranges' = [ranges EXCEPT ![id] = rs]

\* writeMeta, second half, and the 201.
InitMetaWrite(w) ==
  /\ pc[w] = "metaWrite"
  /\ \/ /\ WriteMeta(upload[w], {})
        /\ issued' = issued \cup {upload[w]}
        /\ Finish(w)
     \/ /\ DiskFaults
        /\ CallRemoveAll(w, upload[w], "idle")
        /\ UNCHANGED <<meta, ranges, issued, upload, mu, body, todo>>
  /\ UNCHANGED <<dirs, part, bytes, lockVars, born, aged, acked>>

-----------------------------------------------------------------------------
(* uploadChunk.  The body has been read before the lock is asked for.      *)

ChunkRequest(w, id, c) ==
  pc[w] = "idle" /\ id \in issued /\ UploadLock(w, id, c, "chunkLock")

\* A bug: no check that the chunk ends within the file.
ChunkReadUnbounded(w) ==
  LET id == upload[w]
      ok == meta[id] = "full"
  IN  /\ pc[w] = "chunkRead"
      /\ \/ /\ ok
            /\ Goto(w, "chunkOpen")
            /\ snap' = [snap EXCEPT ![w] = ranges[id]]
            /\ UNCHANGED <<lockVars, upload, mu, chunk, todo, removal>>
         \/ ~ok /\ UnlockAndFinish(w)
      /\ UNCHANGED <<disk, history>>

\* A bug: the early returns keep the lock.
ChunkReadKeepsLock(w) ==
  LET id == upload[w]
      ok == meta[id] = "full" /\ chunk[w][2] =< SizeOf[id]
  IN  /\ pc[w] = "chunkRead"
      /\ \/ /\ ok
            /\ Goto(w, "chunkOpen")
            /\ snap' = [snap EXCEPT ![w] = ranges[id]]
            /\ UNCHANGED <<upload, mu, chunk, todo, removal>>
         \/ ~ok /\ Finish(w)
      /\ UNCHANGED <<disk, lockVars, history>>

\* readMeta and the two early returns: 404, and 400 for a chunk past the end.
ChunkRead(w) ==
  LET id == upload[w]
      ok == meta[id] = "full" /\ chunk[w][2] =< SizeOf[id]
  IN  /\ pc[w] = "chunkRead"
      /\ \/ /\ ok
            /\ Goto(w, "chunkOpen")
            /\ snap' = [snap EXCEPT ![w] = ranges[id]]
            /\ UNCHANGED <<lockVars, upload, mu, chunk, todo, removal>>
         \/ ~ok /\ UnlockAndFinish(w)
      /\ UNCHANGED <<disk, history>>

\* OpenFile without O_CREATE: it fails once data.part has gone.
ChunkOpen(w) ==
  /\ pc[w] = "chunkOpen"
  /\ \/ /\ part[upload[w]] = "part"
        /\ Goto(w, "chunkWrite")
        /\ UNCHANGED <<lockVars, locals>>
     \/ part[upload[w]] # "part" /\ UnlockAndFinish(w)
  /\ UNCHANGED <<disk, history>>

\* A bug: the error of WriteAt is ignored.
ChunkWriteUnchecked(w) ==
  LET id == upload[w]
      c  == chunk[w]
  IN  /\ pc[w] = "chunkWrite"
      /\ \/ bytes' = [bytes EXCEPT ![id] = @ \cup Blocks(c)]
         \/ /\ DiskFaults
            /\ \E end \in c[1] .. c[2] :
                  bytes' = [bytes EXCEPT ![id] = @ \cup Blocks(<<c[1], end>>)]
      /\ Goto(w, "chunkMetaOpen")
      /\ UNCHANGED <<dirs, meta, ranges, part, lockVars, locals, history>>

\* WriteAt through the descriptor, wherever the inode now is.
ChunkWrite(w) ==
  LET id == upload[w]
      c  == chunk[w]
  IN  /\ pc[w] = "chunkWrite"
      /\ \/ /\ bytes' = [bytes EXCEPT ![id] = @ \cup Blocks(c)]
            /\ Goto(w, "chunkMetaOpen")
            /\ UNCHANGED <<lockVars, locals>>
         \/ /\ DiskFaults
            /\ \E end \in c[1] .. c[2] :
                  bytes' = [bytes EXCEPT ![id] = @ \cup Blocks(<<c[1], end>>)]
            /\ UnlockAndFinish(w)
      /\ UNCHANGED <<dirs, meta, ranges, part, history>>

\* mergeRange and the first half of writeMeta.
ChunkMetaOpen(w) ==
  LET id == upload[w]
  IN  /\ pc[w] = "chunkMetaOpen"
      /\ \/ /\ id \in dirs
            /\ meta' = [meta EXCEPT ![id] = "torn"]
            /\ Goto(w, "chunkMetaWrite")
            /\ snap' = [snap EXCEPT ![w] = @ \cup Blocks(chunk[w])]
            /\ UNCHANGED <<lockVars, upload, mu, chunk, todo, removal>>
         \/ (id \notin dirs \/ DiskFaults) /\ UnlockAndFinish(w) /\ UNCHANGED meta
      /\ UNCHANGED <<dirs, ranges, part, bytes, history>>

\* The second half of writeMeta, the 200 and the deferred unlock.
ChunkMetaWrite(w) ==
  LET id == upload[w]
  IN  /\ pc[w] = "chunkMetaWrite"
      /\ \/ /\ WriteMeta(id, snap[w])
            /\ acked' = [acked EXCEPT ![id] = @ \cup Blocks(chunk[w])]
         \/ DiskFaults /\ UNCHANGED <<meta, ranges, acked>>
      /\ UnlockAndFinish(w)
      /\ UNCHANGED <<dirs, part, bytes, born, issued, aged>>

-----------------------------------------------------------------------------
(* uploadComplete and finalizeUpload.                                      *)

CompleteRequest(w, id) ==
  pc[w] = "idle" /\ id \in issued /\ UploadLock(w, id, <<0, 0>>, "finLock")

\* A bug: only the end of the ranges is compared with the size.
CoveredAtEnd(id) == SizeOf[id] - 1 \in ranges[id]

Covered(id) == ranges[id] = Offsets(id)

FinRead(w) ==
  LET ok == meta[upload[w]] = "full" /\ Covered(upload[w])
  IN  /\ pc[w] = "finRead"
      /\ \/ ok /\ Goto(w, "finStat") /\ UNCHANGED <<lockVars, locals>>
         \/ ~ok /\ UnlockAndFinish(w)
      /\ UNCHANGED <<disk, history>>

\* A game of that name exists: 409, and the session is removed all the same.
FinStat(w) ==
  /\ pc[w] = "finStat"
  /\ IF InLibrary(SerialOf[upload[w]])
       THEN CallRemoveAll(w, upload[w], "finUnlock")
       ELSE Goto(w, "finRename") /\ UNCHANGED removal
  /\ UNCHANGED <<disk, lockVars, upload, mu, body, todo, history>>

\* rename(2) puts data.part under the library name, replacing what is there.  When
\* it fails, the session is removed all the same.
FinRename(w) ==
  LET id == upload[w]
  IN  /\ pc[w] = "finRename"
      /\ \/ /\ part[id] = "part"
            /\ part' = [i \in Ids |->
                 IF i = id THEN "library"
                 ELSE IF part[i] = "library" /\ SerialOf[i] = SerialOf[id] THEN "gone"
                 ELSE part[i]]
            /\ Goto(w, "finRegister")
            /\ UNCHANGED removal
         \/ /\ part[id] # "part" \/ DiskFaults
            /\ CallRemoveAll(w, id, "finUnlock")
            /\ UNCHANGED part
      /\ UNCHANGED <<dirs, meta, ranges, bytes, lockVars, upload, mu, body, todo, history>>

\* Inspect and RegisterGame succeed, or fail and the library file is removed.
\* The database may refuse, or the client be gone (the request's context).
FinRegister(w) ==
  LET serial == SerialOf[upload[w]]
  IN  /\ pc[w] = "finRegister"
      /\ \/ UNCHANGED part
         \/ part' = [i \in Ids |-> IF part[i] = "library" /\ SerialOf[i] = serial
                                     THEN "gone" ELSE part[i]]
      /\ CallRemoveAll(w, upload[w], "finUnlock")
      /\ UNCHANGED <<dirs, meta, ranges, bytes, lockVars, upload, mu, body, todo, history>>

FinUnlock(w) ==
  /\ pc[w] = "finUnlock"
  /\ Unlock(w)
  /\ Goto(w, "drop")
  /\ mu' = [mu EXCEPT ![w] = NoMutex]
  /\ UNCHANGED <<disk, upload, body, todo, removal, history>>

-----------------------------------------------------------------------------
\* uploadAbort takes no lock.
AbortRequest(w, id) ==
  /\ pc[w] = "idle"
  /\ id \in issued
  /\ upload' = [upload EXCEPT ![w] = id]
  /\ CallRemoveAll(w, id, "drop")
  /\ UNCHANGED <<disk, lockVars, mu, body, todo, history>>

-----------------------------------------------------------------------------
(* The environment.                                                        *)

\* More than staleUploadAfter passes since the session was created.
Age(id) ==
  /\ id \in (born \cap Ageing) \ aged
  /\ aged' = aged \cup {id}
  /\ UNCHANGED <<disk, lockVars, pc, locals, born, issued, acked>>

\* The process dies and starts again: files stay, requests and locks do not.
Restart ==
  /\ Restarts
  /\ pc' = [w \in Workers |-> "idle"]
  /\ upload' = [w \in Workers |-> NoId]
  /\ mu' = [w \in Workers |-> NoMutex]
  /\ chunk' = [w \in Workers |-> <<0, 0>>]
  /\ snap' = [w \in Workers |-> {}]
  /\ todo' = [w \in Workers |-> {}]
  /\ tgt' = [w \in Workers |-> NoId]
  /\ list' = [w \in Workers |-> {}]
  /\ ret' = [w \in Workers |-> "idle"]
  /\ locks' = [id \in Ids |-> NoMutex]
  /\ locked' = {}
  /\ UNCHANGED <<disk, history>>

\* A client sends a request.
Request(w) ==
  \E id \in Ids :
    \/ InitRequest(w, id)
    \/ \E c \in Chunks : ChunkRequest(w, id, c)
    \/ CompleteRequest(w, id)
    \/ AbortRequest(w, id)

\* A handler that waits for no lock takes its next step.
Step(w) ==
  \/ DropLock(w) \/ RemoveAllStart(w) \/ Unlink(w) \/ RemoveAllEnd(w)
  \/ SweepDir(w) \/ Sweep(w) \/ PeersDir(w) \/ Peers(w) \/ Mkdir(w)
  \/ CreateData(w) \/ InitMetaOpen(w) \/ InitMetaWrite(w)
  \/ ChunkRead(w) \/ ChunkOpen(w) \/ ChunkWrite(w)
  \/ ChunkMetaOpen(w) \/ ChunkMetaWrite(w)
  \/ FinRead(w) \/ FinStat(w) \/ FinRename(w) \/ FinRegister(w) \/ FinUnlock(w)

Next ==
  \/ \E w \in Workers : Request(w) \/ Acquire(w) \/ Step(w)
  \/ \E id \in Ids : Age(id)
  \/ Restart

Spec == Init /\ [][Next]_vars

\* The Go scheduler runs every runnable goroutine, and sync.Mutex hands itself
\* to a waiter that has starved for a millisecond.
Fairness == \A w \in Workers : WF_vars(Step(w)) /\ SF_vars(Acquire(w))

FairSpec == Spec /\ Fairness

-----------------------------------------------------------------------------
(* Properties.                                                             *)

Labels == {"idle", "sweepDir", "sweep", "sweepDrop", "peers", "peersDrop",
           "create", "metaOpen", "metaWrite",
           "chunkLock", "chunkRead", "chunkOpen", "chunkWrite", "chunkMetaOpen",
           "chunkMetaWrite", "finLock", "finRead", "finStat", "finRename",
           "finRegister", "finUnlock", "removeAll", "unlink", "drop"}

DiskTypes ==
  /\ dirs \subseteq Ids
  /\ meta \in [Ids -> {"none", "torn", "full"}]
  /\ part \in [Ids -> {"none", "part", "library", "gone"}]
  /\ ranges \in [Ids -> SUBSET Nat]
  /\ bytes \in [Ids -> SUBSET Nat]
  /\ acked \in [Ids -> SUBSET Nat]
  /\ born \subseteq Ids /\ issued \subseteq Ids /\ aged \subseteq Ids

LockTypes ==
  /\ locks \in [Ids -> Mutexes \cup {NoMutex}]
  /\ locked \subseteq Mutexes

RequestTypes ==
  /\ pc \in [Workers -> Labels]
  /\ upload \in [Workers -> Ids \cup {NoId}]
  /\ mu \in [Workers -> Mutexes \cup {NoMutex}]
  /\ chunk \in [Workers -> Chunks \cup {<<0, 0>>}]
  /\ snap \in [Workers -> SUBSET Nat]
  /\ todo \in [Workers -> SUBSET Ids]
  /\ tgt \in [Workers -> Ids \cup {NoId}]
  /\ list \in [Workers -> SUBSET {"meta.json", "data.part"}]
  /\ ret \in [Workers -> {"idle", "finUnlock", "drop", "sweepDrop", "peersDrop"}]

\* No byte is written, and no range recorded or acknowledged, past the size
\* announced at init.
WithinSize ==
  \A id \in Ids : ranges[id] \cup bytes[id] \cup acked[id] \subseteq Offsets(id)

\* Types; and every offset that is written, recorded or acknowledged is one of
\* the file's, thanks to the early return of uploadChunk for a chunk past the end.
TypeOK == DiskTypes /\ LockTypes /\ RequestTypes /\ WithinSize

\* The request is past the early returns that follow its readMeta.
Inside == {"chunkOpen", "chunkWrite", "chunkMetaOpen", "chunkMetaWrite",
           "finStat", "finRename", "finRegister"}

\* While data.part is in its directory, one request at most acts on meta.json
\* and data.part under the session's lock ("only the meta read-modify-write
\* serializes", upload_chunked.go:214-215), although abort, init and the sweep
\* take sessions, and their entries of the lock map, away without that lock.
SoleWriter ==
  \A v, w \in Workers :
     (v # w /\ pc[v] \in Inside /\ pc[w] \in Inside /\ upload[v] = upload[w])
       => part[upload[v]] # "part"

\* No acknowledged chunk is forgotten: while a session is readable and its data
\* in place, every chunk answered 200 is in the ranges complete will look at
\* ("uploadLock serializes meta read-modify-write cycles for one upload session so
\* parallel chunk PUTs cannot lose each other's range records", handler.go:34-35).
AckedRecorded ==
  \A id \in Ids :
     part[id] = "part" /\ meta[id] = "full" => acked[id] \subseteq ranges[id]

\* A file in the library has had every one of its bytes written, whatever chunks
\* overlapped, failed half-way or were sent while the upload was being completed.
PublishedWhole ==
  \A id \in Ids : part[id] = "library" => bytes[id] = Offsets(id)

Quiet(id) == \A w \in Workers : upload[w] # id /\ tgt[w] # id

\* A published session leaves no directory behind once no request deals with
\* it: no chunk that was under way writes meta.json back into it.  (A restart
\* between rename and RemoveAll does leave it, for a sweep to find.)
PublishedClean ==
  Restarts \/ \A id \in Ids : part[id] = "library" /\ Quiet(id) => id \notin dirs

\* The inode of data.part as the state of the upload.
Phase ==
  [id \in Ids |-> IF part[id] = "none" THEN "absent"
                 ELSE IF part[id] = "part" THEN "open"
                 ELSE IF part[id] = "library" THEN "published"
                 ELSE "gone"]

Promise == INSTANCE UploadPromise WITH state <- Phase, data <- bytes

\* ChunkUpload does what UploadPromise promises.
KeepsPromise == Promise!Spec

\* Every request is answered: no error path keeps a lock, and no request waits
\* for ever for one.
RequestsFinish == \A w \in Workers : pc[w] # "idle" ~> pc[w] = "idle"

\* A restart aside, requests are the only thing that may take a session away, and
\* the sweep of an init may take only a session that is old: "staleUploadAfter"
\* (upload_chunked.go:25), "A dead session" (upload_chunked.go:163).
SweepSparesLiveUploads ==
  \A w \in Workers :
     pc[w] = "removeAll" /\ ret[w] = "sweepDrop" /\ tgt[w] \in issued
       => tgt[w] \in aged

\* Completing an upload never replaces a game of the library ("game already
\* exists", upload.go).
NeverReplaced ==
  [][\A d, e \in Ids : part[d] = "library" /\ part[e] # "library" /\ part'[e] = "library"
        => SerialOf[d] # SerialOf[e]]_part
-----------------------------------------------------------------------------
(* The inductive invariant: why the properties hold.                       *)

\* init before MkdirAll (its own removals included), and after it.
Arriving(w) ==
  \/ pc[w] \in {"sweepDir", "sweep", "sweepDrop", "peers", "peersDrop"}
  \/ pc[w] \in {"removeAll", "unlink"} /\ ret[w] \in {"sweepDrop", "peersDrop"}
Creating(w) == pc[w] \in {"create", "metaOpen", "metaWrite"}

Chunking(w) ==
  pc[w] \in {"chunkOpen", "chunkWrite", "chunkMetaOpen", "chunkMetaWrite"}

\* The request has its mutex; it has it or waits for it.
Holds(w) ==
  \/ pc[w] \in Inside \cup {"chunkRead", "finRead", "finUnlock"}
  \/ pc[w] \in {"removeAll", "unlink"} /\ ret[w] = "finUnlock"
Wants(w) == pc[w] \in {"chunkLock", "finLock"} \/ Holds(w)

\* No file named data.part is in the directory, nor will be.
Dead(id) ==
  \/ part[id] \in {"library", "gone"}
  \/ part[id] = "none" /\ id \in born /\ id \notin dirs

\* Life of a session: made, then data.part, then meta.json, then the 201.
LifeInv ==
  /\ dirs \subseteq born
  /\ \A id \in Ids :
       /\ id \notin born => part[id] = "none"
       /\ part[id] = "none" => /\ meta[id] = "none"
                               /\ ranges[id] = {} /\ bytes[id] = {} /\ id \notin issued
       /\ id \notin issued => acked[id] = {} /\ part[id] # "library"

\* One request makes a session, and nobody knows of it until the 201.
InitInv ==
  \A w \in Workers :
    /\ Arriving(w) \/ Creating(w) =>
         /\ upload[w] \in Ids \ issued
         /\ \A v \in Workers \ {w} :
              Arriving(v) \/ Creating(v) => upload[v] # upload[w]
    /\ Arriving(w) => upload[w] \notin born
    /\ Creating(w) => upload[w] \in born
    /\ pc[w] = "create" => part[upload[w]] = "none"
    /\ pc[w] \in {"metaOpen", "metaWrite"} => part[upload[w]] # "none"

\* A session whose data is in place has one mutex, the one in the map.
LockInv ==
  \A w \in Workers :
    /\ Wants(w) => upload[w] \in issued /\ mu[w] \in Mutexes
    /\ Wants(w) /\ part[upload[w]] = "part" => locks[upload[w]] = mu[w]
    /\ Holds(w) => mu[w] \in locked
    /\ \A v \in Workers \ {w} : Holds(v) /\ Holds(w) => mu[v] # mu[w]

\* A map entry is dropped only after data.part has gone for good.
RemoveInv ==
  \A w \in Workers :
    /\ todo[w] \subseteq born
    /\ pc[w] \in {"removeAll", "unlink", "drop", "sweepDrop", "peersDrop", "finUnlock"}
         => tgt[w] \in born
    /\ pc[w] \in {"drop", "sweepDrop", "peersDrop", "finUnlock"} => Dead(tgt[w])
    /\ pc[w] = "unlink" => \/ Dead(tgt[w])
                           \/ part[tgt[w]] = "part" /\ "data.part" \in list[w]

\* What a request knows of the bytes of its upload.
WritesSound(w) ==
  /\ Chunking(w) => snap[w] \subseteq bytes[upload[w]] /\ chunk[w][2] =< SizeOf[upload[w]]
  /\ pc[w] \in {"chunkMetaOpen", "chunkMetaWrite"}
       => Blocks(chunk[w]) \subseteq bytes[upload[w]]
  /\ pc[w] \in {"finStat", "finRename"} => bytes[upload[w]] = Offsets(upload[w])
  /\ pc[w] \in {"chunkWrite", "chunkMetaOpen", "chunkMetaWrite"}
       => part[upload[w]] # "library"

\* What is recorded, acknowledged or published has been written.
DataInv ==
  /\ \A id \in Ids : ranges[id] \cup acked[id] \subseteq bytes[id]
  /\ PublishedWhole
  /\ \A w \in Workers : WritesSound(w)

\* What has been acknowledged is in meta.json, or about to be written there.
AckInv ==
  /\ AckedRecorded
  /\ \A w \in Workers :
       /\ Chunking(w) /\ part[upload[w]] = "part" => acked[upload[w]] \subseteq snap[w]
       /\ pc[w] = "chunkMetaWrite" => Blocks(chunk[w]) \subseteq snap[w]

\* What the request is doing ends with the directory of the published session
\* gone.
Clears(w, id) ==
  \/ pc[w] = "finRegister" /\ upload[w] = id
  \/ pc[w] = "removeAll" /\ tgt[w] = id
  \/ pc[w] = "unlink" /\ tgt[w] = id /\ Files(id) \subseteq list[w]

\* As long as a published session has its directory, somebody will remove it.
CleanInv ==
  Restarts \/ \A id \in dirs : part[id] = "library" => \E w \in Workers : Clears(w, id)

\* All of it: with it SoleWriter, AckedRecorded and PublishedWhole are kept by
\* every step of every request, whichever requests it meets.
UploadInv ==
  TypeOK /\ LifeInv /\ InitInv /\ LockInv /\ RemoveInv /\ DataInv /\ AckInv /\ CleanInv
=============================================================================
