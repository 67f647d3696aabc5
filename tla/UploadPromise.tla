---------------------------- MODULE UploadPromise ----------------------------
(***************************************************************************)
(* What chunked uploads promise, with no directories, locks or requests:   *)
(*   - a chunk is acknowledged only when its bytes are in the file;        *)
(*   - a file enters the library only when every byte is in it, and from   *)
(*     then on nothing writes to it;                                       *)
(*   - a file that has left the library or has been discarded never comes  *)
(*     back.                                                               *)
(* ChunkUpload implements this specification.                              *)
(***************************************************************************)
EXTENDS Integers

CONSTANTS Ids, SerialOf, SizeOf

VARIABLES
  state,  \* of each upload: "absent", "open", "published" or "gone"
  data,   \* the offsets written
  acked   \* the offsets acknowledged

vars == <<state, data, acked>>

Init ==
  /\ state = [id \in Ids |-> "absent"]
  /\ data = [id \in Ids |-> {}]
  /\ acked = [id \in Ids |-> {}]

Open(id) ==
  /\ state[id] = "absent"
  /\ state' = [state EXCEPT ![id] = "open"]
  /\ UNCHANGED <<data, acked>>

\* Bytes may still go to a file that has been discarded, never to a published one.
Write(id) ==
  /\ state[id] \in {"open", "gone"}
  /\ data[id] \subseteq data'[id]
  /\ data'[id] \subseteq 0 .. (SizeOf[id] - 1)
  /\ data' = [data EXCEPT ![id] = data'[id]]
  /\ UNCHANGED <<state, acked>>

Ack(id) ==
  /\ acked[id] \subseteq acked'[id]
  /\ acked'[id] \subseteq data[id]
  /\ acked' = [acked EXCEPT ![id] = acked'[id]]
  /\ UNCHANGED <<state, data>>

\* The library has one file per serial: publishing replaces the one there.
Publish(id) ==
  /\ state[id] = "open"
  /\ data[id] = 0 .. (SizeOf[id] - 1)
  /\ state' = [i \in Ids |->
       IF i = id THEN "published"
       ELSE IF state[i] = "published" /\ SerialOf[i] = SerialOf[id] THEN "gone"
       ELSE state[i]]
  /\ UNCHANGED <<data, acked>>

Discard ==
  /\ \E lost \in SUBSET {id \in Ids : state[id] \in {"open", "published"}} :
        state' = [id \in Ids |-> IF id \in lost THEN "gone" ELSE state[id]]
  /\ UNCHANGED <<data, acked>>

Next ==
  \/ \E id \in Ids : Open(id) \/ Write(id) \/ Ack(id) \/ Publish(id)
  \/ Discard

Spec == Init /\ [][Next]_vars
=============================================================================
