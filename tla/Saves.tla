-------------------------------- MODULE Saves --------------------------------
(***************************************************************************)
(* Memory cards: usecase/save/save.go for one user, serial and slot.       *)
(*                                                                         *)
(* A card is a file <slot>.ps2 and a row of user_saves that holds its      *)
(* hash.  Beside the file lie its rotated versions <slot>.ps2.<time>.bak   *)
(* and the files <slot>.ps2.tmp.<time> that Put writes before it renames   *)
(* them.  Nothing locks a slot: requests (two devices of one user) overlap *)
(* at the granularity of a system call or a database statement.            *)
(*                                                                         *)
(* A content stands for its bytes, its size and its sha256.  time.Now() in *)
(* nanoseconds is a clock that ticks whenever it is read; the file it names *)
(* is created in the same step, the MkdirAll between the two included.     *)
(***************************************************************************)
EXTENDS Integers, FiniteSetsExt

CONSTANTS
  Contents,     \* what clients store
  NoCard,       \* no file, no row
  Torn,         \* an empty or truncated file
  Workers,      \* request goroutines
  BackupsKept,
  MaxPuts,      \* bound: number of Puts in a behaviour
  Faults,       \* TRUE: reading, listing, writing and renaming files may fail,
                \* and so may the database; removing a file does not, and a
                \* listing that fails returns no entries
  Crashes       \* TRUE: the process may die and start again

ASSUME SavesAssumption ==
  /\ NoCard \notin Contents /\ Torn \notin Contents /\ NoCard # Torn
  /\ BackupsKept \in Nat \ {0} /\ MaxPuts \in Nat
  /\ Faults \in BOOLEAN /\ Crashes \in BOOLEAN

VARIABLES
  card,   \* the file, NoCard without one
  baks,   \* the backup of each time stamp, NoCard without one
  tmps,   \* the temporary file of each time stamp
  row,    \* the content whose hash the row holds, NoCard without a row
  clock,
  puts,   \* Puts so far, to bound them
  pc,     \* next statement of each request; its local variables:
  data,   \*   the body
  old,    \*   the previous version, Torn when reading it failed, or the row
          \*   that Get has read
  stamp,  \*   the time in the name of the file being written
  todo,   \*   the files a loop still has to remove
  acked,   \* history: what the last Put or Delete was answered if it had the
           \* slot for itself and nothing has been asked for since: the content,
           \* NoCard, or Torn (nothing to rely on)
  overlap, \* history: two of the last Puts and Deletes have overlapped
  spoiled  \* history: rotations that failed or died before they had pruned,
           \* since a Put that had the slot for itself last pruned

files  == <<card, baks, tmps>>
locals == <<data, old, stamp, todo>>
past   == <<acked, overlap, spoiled>>
vars   == <<files, row, clock, puts, pc, locals, past>>

Stamps   == 1 .. 2 * MaxPuts
Versions == Contents \cup {NoCard, Torn}

Init ==
  /\ card = NoCard /\ row = NoCard
  /\ baks = [s \in Stamps |-> NoCard]
  /\ tmps = [s \in Stamps |-> NoCard]
  /\ clock = 0 /\ puts = 0
  /\ pc = [w \in Workers |-> "idle"]
  /\ data = [w \in Workers |-> NoCard]
  /\ old = [w \in Workers |-> NoCard]
  /\ stamp = [w \in Workers |-> 0]
  /\ todo = [w \in Workers |-> {}]
  /\ acked = Torn /\ overlap = FALSE /\ spoiled = 0

Goto(w, label) == pc' = [pc EXCEPT ![w] = label]

\* The handler answers; what it answered matters only through acked.
Finish(w) ==
  /\ Goto(w, "idle")
  /\ data' = [data EXCEPT ![w] = NoCard]
  /\ old' = [old EXCEPT ![w] = NoCard]
  /\ stamp' = [stamp EXCEPT ![w] = 0]
  /\ todo' = [todo EXCEPT ![w] = {}]

\* An operation fails: 500, whatever has been done stays done.
Fail(w) == Faults /\ Finish(w)

Present(dir) == {s \in Stamps : dir[s] # NoCard}

Putting == {"bakOpen", "bakWrite", "pruneDir", "prune", "tmpOpen", "tmpWrite",
            "rename", "upsert", "putGet"}
Deleting == {"delDir", "delFiles", "delRow"}

\* A Put or a Delete begins.
Begin(w) ==
  /\ acked' = Torn
  /\ overlap' = (\E v \in Workers \ {w} : pc[v] \in Putting \cup Deleting)
  /\ UNCHANGED spoiled

\* It is answered.
Answer(content) ==
  /\ acked' = IF overlap THEN Torn ELSE content
  /\ UNCHANGED <<overlap, spoiled>>

\* A write through an open descriptor is lost when the name is gone.
Written(dir, s, content) == IF s \in Present(dir) THEN [dir EXCEPT ![s] = content] ELSE dir

-----------------------------------------------------------------------------
(* Put.                                                                    *)

\* ReadFile of the card; rotate only when it could be read and the content
\* changes.  A card that cannot be read, or not to its end, is overwritten
\* without a backup.
PutRead(w, d) ==
  /\ pc[w] = "idle"
  /\ puts < MaxPuts
  /\ puts' = puts + 1
  /\ data' = [data EXCEPT ![w] = d]
  /\ \/ /\ old' = [old EXCEPT ![w] = card]
        /\ Goto(w, IF card \in {NoCard, d} THEN "tmpOpen" ELSE "bakOpen")
     \/ /\ Faults /\ card # NoCard
        /\ old' = [old EXCEPT ![w] = Torn]
        /\ Goto(w, "tmpOpen")
  /\ Begin(w)
  /\ UNCHANGED <<files, row, clock, stamp, todo>>

BakOpen(w) ==
  /\ pc[w] = "bakOpen"
  /\ clock' = clock + 1
  /\ \/ /\ baks' = [baks EXCEPT ![clock'] = Torn]
        /\ stamp' = [stamp EXCEPT ![w] = clock']
        /\ Goto(w, "bakWrite")
        /\ UNCHANGED <<data, old, todo>>
     \/ Fail(w) /\ UNCHANGED baks
  /\ UNCHANGED <<card, tmps, row, puts, past>>

\* A bug: a backup that cannot be written is tried again, without end.
BakWriteRetried(w) ==
  /\ pc[w] = "bakWrite"
  /\ \/ baks' = Written(baks, stamp[w], old[w]) /\ Goto(w, "pruneDir")
     \/ Faults /\ Goto(w, "bakOpen") /\ UNCHANGED baks
  /\ UNCHANGED <<card, tmps, row, clock, puts, locals, past>>

BakWrite(w) ==
  /\ pc[w] = "bakWrite"
  /\ \/ /\ baks' = Written(baks, stamp[w], old[w])
        /\ Goto(w, "pruneDir")
        /\ UNCHANGED <<locals, spoiled>>
     \/ Fail(w) /\ spoiled' = spoiled + 1 /\ UNCHANGED baks
  /\ UNCHANGED <<card, tmps, row, clock, puts, acked, overlap>>

\* Bugs: one backup too few or too many is kept; the newest are removed.
ExcessKeepsOneLess(listed) ==
  {s \in listed : Cardinality({t \in listed : t > s}) >= BackupsKept - 1}
ExcessKeepsOneMore(listed) ==
  {s \in listed : Cardinality({t \in listed : t > s}) > BackupsKept}
ExcessNewest(listed) ==
  {s \in listed : Cardinality({t \in listed : t < s}) >= BackupsKept}

\* The backups pruneBackups removes: all but the last BackupsKept, by name.
Excess(listed) ==
  {s \in listed : Cardinality({t \in listed : t > s}) >= BackupsKept}

\* When the directory cannot be listed nothing is pruned, and Put goes on.
PruneDir(w) ==
  /\ pc[w] = "pruneDir"
  /\ \/ /\ todo' = [todo EXCEPT ![w] = Excess(Present(baks))]
        /\ Goto(w, "prune")
        /\ UNCHANGED spoiled
     \/ /\ Faults
        /\ Goto(w, "tmpOpen")
        /\ spoiled' = spoiled + 1
        /\ UNCHANGED todo
  /\ UNCHANGED <<files, row, clock, puts, data, old, stamp, acked, overlap>>

Prune(w) ==
  /\ pc[w] = "prune"
  /\ \/ /\ todo[w] # {}
        /\ baks' = [baks EXCEPT ![Min(todo[w])] = NoCard]
        /\ todo' = [todo EXCEPT ![w] = @ \ {Min(@)}]
        /\ UNCHANGED <<pc, data, old, stamp, spoiled>>
     \/ /\ todo[w] = {}
        /\ Goto(w, "tmpOpen")
        /\ spoiled' = IF overlap THEN spoiled ELSE 0
        /\ UNCHANGED <<baks, locals>>
  /\ UNCHANGED <<card, tmps, row, clock, puts, acked, overlap>>

\* A bug: the temporary file has the same name in every Put.
TmpOpenOneName(w) ==
  /\ pc[w] = "tmpOpen"
  /\ clock' = clock + 1
  /\ tmps' = [tmps EXCEPT ![1] = Torn]
  /\ stamp' = [stamp EXCEPT ![w] = 1]
  /\ Goto(w, "tmpWrite")
  /\ UNCHANGED <<card, baks, row, puts, data, old, todo, past>>

TmpOpen(w) ==
  /\ pc[w] = "tmpOpen"
  /\ clock' = clock + 1
  /\ \/ /\ tmps' = [tmps EXCEPT ![clock'] = Torn]
        /\ stamp' = [stamp EXCEPT ![w] = clock']
        /\ Goto(w, "tmpWrite")
        /\ UNCHANGED <<data, old, todo>>
     \/ Fail(w) /\ UNCHANGED tmps
  /\ UNCHANGED <<card, baks, row, puts, past>>

TmpWrite(w) ==
  /\ pc[w] = "tmpWrite"
  /\ \/ tmps' = Written(tmps, stamp[w], data[w]) /\ Goto(w, "rename") /\ UNCHANGED locals
     \/ Fail(w) /\ UNCHANGED tmps
  /\ UNCHANGED <<card, baks, row, clock, puts, past>>

\* A bug: the error of Rename is not looked at.
RenameUnchecked(w) ==
  /\ pc[w] = "rename"
  /\ \/ card' = tmps[stamp[w]]
     \/ Faults /\ UNCHANGED card
  /\ tmps' = [tmps EXCEPT ![stamp[w]] = NoCard]
  /\ Goto(w, "upsert")
  /\ UNCHANGED <<baks, row, clock, puts, locals, past>>

\* A failed rename removes the temporary file; it fails when a Delete has
\* removed that file already.
Rename(w) ==
  /\ pc[w] = "rename"
  /\ \/ /\ stamp[w] \in Present(tmps)
        /\ card' = tmps[stamp[w]]
        /\ Goto(w, "upsert")
        /\ UNCHANGED locals
     \/ /\ stamp[w] \notin Present(tmps) \/ Faults
        /\ Finish(w)
        /\ UNCHANGED card
  /\ tmps' = [tmps EXCEPT ![stamp[w]] = NoCard]
  /\ UNCHANGED <<baks, row, clock, puts, past>>

Upsert(w) ==
  /\ pc[w] = "upsert"
  /\ \/ row' = data[w] /\ Goto(w, "putGet") /\ UNCHANGED locals
     \/ Fail(w) /\ UNCHANGED row
  /\ UNCHANGED <<files, clock, puts, past>>

\* The row is read again for the answer: 500 when a Delete has removed it.
PutGet(w) ==
  /\ pc[w] = "putGet"
  /\ \/ Answer(IF row = NoCard THEN Torn ELSE data[w])
     \/ Faults /\ UNCHANGED past
  /\ Finish(w)
  /\ UNCHANGED <<files, row, clock, puts>>

-----------------------------------------------------------------------------
(* Delete and Get.                                                         *)

DeleteCard(w) ==
  /\ pc[w] = "idle"
  /\ card' = NoCard
  /\ Begin(w)
  /\ Goto(w, "delDir")
  /\ UNCHANGED <<baks, tmps, row, clock, puts, locals>>

\* A bug: only the backups are listed.
DeleteDirBaksOnly(w) ==
  /\ pc[w] = "delDir"
  /\ todo' = [todo EXCEPT ![w] = Present(baks)]
  /\ Goto(w, "delFiles")
  /\ UNCHANGED <<files, row, clock, puts, data, old, stamp, past>>

\* Every name that begins with "<slot>.ps2.": backups and temporary files.  The
\* error of ReadDir is not looked at: there is nothing to loop over then, and the
\* row is next.
DeleteDir(w) ==
  /\ pc[w] = "delDir"
  /\ \/ /\ todo' = [todo EXCEPT ![w] = Present(baks) \cup Present(tmps)]
        /\ Goto(w, "delFiles")
     \/ /\ Faults
        /\ Goto(w, "delRow")
        /\ UNCHANGED todo
  /\ UNCHANGED <<files, row, clock, puts, data, old, stamp, past>>

\* os.ReadDir sorts by name: ".<time>.bak" before ".tmp.<time>".
FirstByName(listed) ==
  LET named == listed \cap Present(baks)
  IN  Min(IF named # {} THEN named ELSE listed)

DeleteFile(w) ==
  /\ pc[w] = "delFiles"
  /\ todo[w] # {}
  /\ LET s == FirstByName(todo[w]) IN
       /\ todo' = [todo EXCEPT ![w] = @ \ {s}]
       /\ baks' = [baks EXCEPT ![s] = NoCard]
       /\ tmps' = [tmps EXCEPT ![s] = NoCard]
  /\ UNCHANGED <<card, row, clock, puts, pc, data, old, stamp, past>>

\* After a listing that failed nothing is known of the files.
DeleteRow(w) ==
  /\ pc[w] \in {"delFiles", "delRow"}
  /\ todo[w] = {}
  /\ \/ row' = NoCard /\ Answer(IF pc[w] = "delRow" THEN Torn ELSE NoCard)
     \/ Faults /\ UNCHANGED <<row, past>>
  /\ Finish(w)
  /\ UNCHANGED <<files, clock, puts>>

\* Without a row Get answers 404 and that is all.
GetRow(w) ==
  /\ pc[w] = "idle"
  /\ row # NoCard
  /\ old' = [old EXCEPT ![w] = row]
  /\ Goto(w, "getFile")
  /\ UNCHANGED <<files, row, clock, puts, data, stamp, todo, past>>

\* ReadFile and the answer: X-SHA256 from the row, the body from the file.
GetFile(w) ==
  /\ pc[w] = "getFile"
  /\ Finish(w)
  /\ UNCHANGED <<files, row, clock, puts, past>>

-----------------------------------------------------------------------------
\* The process dies and starts again: files and rows stay.
Crash ==
  /\ Crashes
  /\ pc' = [w \in Workers |-> "idle"]
  /\ data' = [w \in Workers |-> NoCard]
  /\ old' = [w \in Workers |-> NoCard]
  /\ stamp' = [w \in Workers |-> 0]
  /\ todo' = [w \in Workers |-> {}]
  /\ spoiled' = spoiled + Cardinality({w \in Workers : pc[w] \in {"bakWrite", "pruneDir", "prune"}})
  /\ UNCHANGED <<files, row, clock, puts, acked, overlap>>

Put(w) ==
  \/ \E d \in Contents : PutRead(w, d)
  \/ BakOpen(w) \/ BakWrite(w) \/ PruneDir(w) \/ Prune(w)
  \/ TmpOpen(w) \/ TmpWrite(w) \/ Rename(w) \/ Upsert(w) \/ PutGet(w)

Delete(w) == DeleteCard(w) \/ DeleteDir(w) \/ DeleteFile(w) \/ DeleteRow(w)

Get(w) == GetRow(w) \/ GetFile(w)

Next == (\E w \in Workers : Put(w) \/ Delete(w) \/ Get(w)) \/ Crash

Spec == Init /\ [][Next]_vars

-----------------------------------------------------------------------------
(* Properties.                                                             *)

TypeOK ==
  /\ card \in Versions /\ row \in Contents \cup {NoCard} /\ acked \in Versions
  /\ baks \in [Stamps -> Versions] /\ tmps \in [Stamps -> Versions]
  /\ overlap \in BOOLEAN /\ spoiled \in 0 .. puts
  /\ clock \in 0 .. 2 * puts /\ puts \in 0 .. MaxPuts
  /\ pc \in [Workers -> {"idle", "getFile"} \cup Putting \cup Deleting]
  /\ data \in [Workers -> Contents \cup {NoCard}]
  /\ old \in [Workers -> Versions]
  /\ stamp \in [Workers -> 0 .. clock]
  /\ todo \in [Workers -> SUBSET (1 .. clock)]

\* The card is never a truncated file ("a crash mid-write leaves the previous
\* card intact instead of a truncated file", save.go:75-76), although a Delete
\* may remove the temporary file of a Put at any moment.
CardWhole == card # Torn

\* Once no Put is under way, no more than BackupsKept backups are left, however
\* many Puts have rotated and pruned at the same time; a rotation that fails, dies
\* or cannot list the backups may leave one more, until a Put gets through.
BackupsBounded ==
  (\A w \in Workers : pc[w] \notin Putting)
    => Cardinality(Present(baks)) =< BackupsKept + spoiled

\* Pruning removes a backup only while BackupsKept newer ones exist ("keep-last-3",
\* save.go:59), also when the backups it has listed are being pruned by another
\* request.  A Delete that overlaps removes them all.
PruneKeepsLast ==
  [][\A s \in Stamps :
        baks[s] # NoCard /\ baks'[s] = NoCard /\ (\A w \in Workers : pc[w] \notin Deleting)
          => Cardinality({t \in Present(baks) : t > s}) >= BackupsKept]_<<baks, pc>>

\* The version a Put replaces is among the backups ("rotating the previous
\* version into a timestamped backup", save.go:58), whatever failed before, if
\* no other Put or Delete overlaps it and it could read that version.
PreviousKept ==
  [][card # NoCard /\ card' \notin {card, NoCard} /\ ~overlap
       => \/ \E s \in Stamps : baks[s] = card
          \/ \E w \in Workers : pc[w] = "rename" /\ old[w] = Torn]_<<card, baks, pc, old, overlap>>

\* The same of every Put, overlapping ones included, as the comment promises it.
NoVersionLost ==
  [][card # NoCard /\ card' \notin {card, NoCard}
       => \E s \in Stamps : baks[s] = card]_<<card, baks>>

\* An answered Put that nothing overlapped stands: until the next Put or Delete
\* the card and its row are the body that was sent, whatever failed or
\* overlapped before.
AckedStands == acked \in Contents => card = acked /\ row = acked

\* An answered Delete that nothing overlapped and that could list the directory
\* has left nothing ("removes the save, its backups and its metadata row",
\* save.go:112): leftovers of failed Puts included.
DeleteClears ==
  acked = NoCard => card = NoCard /\ row = NoCard /\ Present(baks) \cup Present(tmps) = {}

-----------------------------------------------------------------------------
(* The inductive invariant: why the properties hold.                       *)

At(labels) == {w \in Workers : pc[w] \in labels}

\* A Put between its rotation and the end of its pruning, and one that will
\* still read the clock, once or twice.
Rotating == {"bakWrite", "pruneDir", "prune"}
Ticking  == {"bakOpen", "tmpOpen"} \cup Rotating

\* Each Put reads the clock twice at most, and spoils one rotation at most.
Budget ==
  /\ IsFiniteSet(At(Putting))
  /\ clock + Cardinality(At(Ticking)) + Cardinality(At({"bakOpen"})) =< 2 * puts
  /\ spoiled + Cardinality(At({"bakOpen"} \cup Rotating)) =< puts

\* What a request has in its locals; a time stamp names one file.
Locals ==
  /\ \A s \in Present(baks) \cup Present(tmps) : s =< clock
  /\ \A w \in Workers :
       /\ pc[w] \in Putting => data[w] \in Contents
       /\ todo[w] # {} => pc[w] \in {"prune", "delFiles"}
       /\ pc[w] \in {"bakOpen", "bakWrite"} => old[w] \in Contents
       /\ pc[w] \in {"tmpWrite", "rename"} => stamp[w] \in 1 .. clock
       /\ pc[w] = "rename" => tmps[stamp[w]] \in {NoCard, data[w]}
       /\ \A v \in Workers \ {w} :
            pc[v] \in {"tmpWrite", "rename"} /\ pc[w] \in {"tmpWrite", "rename"}
              => stamp[v] # stamp[w]

\* Loops remove files oldest first: whoever has a backup on its list has the
\* older ones, too.
OldestFirst ==
  \A w \in Workers : \A s, t \in Present(baks) :
    s < t /\ t \in todo[w] => s \in todo[w]

Newer(s) == {t \in Present(baks) : t > s}

\* A backup that pruneBackups is about to remove has BackupsKept newer ones.
PruneSpares ==
  \A w \in Workers :
    pc[w] = "prune" =>
      \A s \in todo[w] \cap Present(baks) : Cardinality(Newer(s)) >= BackupsKept

\* The backups that none of the requests W will remove.
Left(W) == {s \in Present(baks) : \A w \in W : s \notin todo[w]}

\* However many rotations prune at once: such a backup is one of the last
\* BackupsKept, or was made by a rotation outside W that has not pruned yet, or
\* by one that was spoiled.
Pruned ==
  \A W \in SUBSET At({"prune"}) :
    Cardinality(Left(W)) =< BackupsKept + spoiled + Cardinality(At(Rotating) \ W)

\* What a Put or a Delete knows while it has the slot for itself.
PutAlone(w) ==
  /\ pc[w] = "bakOpen" => old[w] = card
  /\ pc[w] = "bakWrite" => old[w] = card /\ card # NoCard
  /\ pc[w] \in Rotating => /\ stamp[w] \in Present(baks) /\ stamp[w] \notin todo[w]
                           /\ Newer(stamp[w]) = {}
  /\ pc[w] \in {"pruneDir", "prune"} => baks[stamp[w]] = card
  /\ pc[w] = "prune" => Cardinality(Present(baks) \ todo[w]) =< BackupsKept
  /\ pc[w] \in {"tmpOpen", "tmpWrite", "rename"}
       => \/ card \in {NoCard, data[w]} \/ old[w] = Torn
          \/ \E s \in Stamps : baks[s] = card
  /\ pc[w] = "tmpWrite" => stamp[w] \in Present(tmps)
  /\ pc[w] = "rename" => tmps[stamp[w]] = data[w]
  /\ pc[w] \in {"upsert", "putGet"} => card = data[w]
  /\ pc[w] = "putGet" => row = data[w]

DeleteAlone(w) ==
  /\ pc[w] \in Deleting => card = NoCard
  /\ pc[w] = "delFiles" => Present(baks) \cup Present(tmps) \subseteq todo[w]

Alone ==
  /\ acked # Torn => ~overlap /\ At(Putting \cup Deleting) = {}
  /\ ~overlap =>
       \A w \in At(Putting \cup Deleting) :
         /\ At(Putting \cup Deleting) = {w}
         /\ PutAlone(w) /\ DeleteAlone(w)

SavesInv ==
  /\ TypeOK /\ Budget /\ Locals /\ CardWhole
  /\ OldestFirst /\ PruneSpares /\ Pruned
  /\ Alone /\ AckedStands /\ DeleteClears
=============================================================================
