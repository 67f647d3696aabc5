------------------------------ MODULE Library ------------------------------
(***************************************************************************)
(* The library: image files in a directory and the table games, as the     *)
(* single-shot upload (upload.go), the scanner (scanner.go) and file       *)
(* serving (files.go) use them, with the owner who adds, replaces and      *)
(* removes files by hand and may lose the table.                           *)
(*                                                                         *)
(* A step is one system call or one statement.  A content stands for the   *)
(* bytes of a file, their number and the hash of their beginning; a half-  *)
(* copied file of the owner's is a content of its own.  Titles, which      *)
(* nothing here depends on, are left out.                                  *)
(***************************************************************************)
EXTENDS Integers

CONSTANTS
  Names,     \* of image files
  Isos,      \* those that end in .iso
  Order,     \* place of a name in what os.ReadDir returns
  SerialOf,  \* a name without its extension
  Contents,
  SizeOf,    \* bytes of a content
  BootBytes, \* what a client fetches before a game starts (64 MiB)
  Requests,  \* request goroutines
  Main,      \* the goroutine of main
  NoFile, Torn, NoHash, NoRow, NoName,
  Faults     \* TRUE: copies, statements and renames may fail

Serials == {SerialOf[n] : n \in Names}
Actors  == Requests \cup {Main}

ASSUME LibraryAssumption ==
  /\ Isos \subseteq Names
  /\ Order \in [Names -> Nat]
  /\ \A m, n \in Names : Order[m] = Order[n] => m = n
  /\ SizeOf \in [Contents -> Nat]
  /\ BootBytes \in Nat \ {0}
  /\ Main \notin Requests
  /\ NoName \notin Names \cup Requests \cup {Main}
  /\ {NoFile, Torn, NoHash} \cap Contents = {}
  /\ NoRow \notin
       [name : Names, size : Contents, hash : Contents \cup {NoHash}]
  /\ Faults \in BOOLEAN

VARIABLES
  files,      \* content of each name in the library directory
  rows,       \* table games, by serial
  pc,         \* next step of each actor; its local variables:
  name,       \*   the library file the actor is at
  data,       \*   an upload's temporary file; NoFile in a scan
  size, hash, \*   what inspect has found
  todo,       \*   the entries a scan has read and not come to
  told,       \* history: the last content whose upload under the name was
              \* answered 201, until the owner or an unlink takes it away
  contested,  \* history: names that somebody else changed under an actor
  quiet,      \* history: scans during which nobody else has changed a file or
              \* a row, and that have skipped no file
  repaired    \* history: such a scan has ended, and no file or row has changed

tables  == <<files, rows>>
locals  == <<name, data, size, hash, todo>>
history == <<told, contested, quiet, repaired>>
vars    == <<tables, pc, locals, history>>

Row == [name : Names, size : Contents, hash : Contents \cup {NoHash}]

Init ==
  /\ files \in [Names -> Contents \cup {NoFile}]
  /\ rows = [s \in Serials |-> NoRow]
  /\ pc = [a \in Actors |-> IF a = Main THEN "list" ELSE "idle"]
  /\ name = [a \in Actors |-> NoName]
  /\ data = [a \in Actors |-> NoFile]
  /\ size = [a \in Actors |-> NoFile]
  /\ hash = [a \in Actors |-> NoHash]
  /\ todo = [a \in Actors |-> {}]
  /\ told = [n \in Names |-> NoFile]
  /\ contested = {}
  /\ quiet = {}
  /\ repaired = FALSE

-----------------------------------------------------------------------------
(* Helpers.                                                                *)

\* main serves only after its own scan.
Serving == pc[Main] = "idle"

Uploading(a) == data[a] # NoFile

\* Somebody other than a is at the name.
Busy(n, a) == \E b \in Actors \ {a} : name[b] = n

\* Another upload of the name is past its test for an existing file.
Rivals(n, a) ==
  \E b \in Actors \ {a} : Uploading(b) /\ name[b] = n /\ pc[b] # "finStat"

\* Actor a, or the owner when a is not an actor, changes files or rows.
Disturb(a) ==
  /\ quiet' = quiet \cap {a}
  /\ repaired' = FALSE

Goto(a, label) == pc' = [pc EXCEPT ![a] = label]

Finish(a) ==
  /\ Goto(a, "idle")
  /\ name' = [name EXCEPT ![a] = NoName]
  /\ data' = [data EXCEPT ![a] = NoFile]
  /\ size' = [size EXCEPT ![a] = NoFile]
  /\ hash' = [hash EXCEPT ![a] = NoHash]
  /\ todo' = [todo EXCEPT ![a] = {}]

\* The scan takes the next of these entries, if there is one.
Advance(a, entries) ==
  \/ entries = {} /\ Finish(a)
  \/ \E n \in entries :
       /\ \A m \in entries : Order[n] <= Order[m]
       /\ Goto(a, "stat")
       /\ name' = [name EXCEPT ![a] = n]
       /\ todo' = [todo EXCEPT ![a] = entries \ {n}]
       /\ size' = [size EXCEPT ![a] = NoFile]
       /\ hash' = [hash EXCEPT ![a] = NoHash]
       /\ UNCHANGED data

-----------------------------------------------------------------------------
(* Scan.                                                                   *)

ScanRequest(a) ==
  /\ Serving /\ pc[a] = "idle"
  /\ Goto(a, "list")
  /\ UNCHANGED <<tables, locals, history>>

\* os.ReadDir.
ScanList(a) ==
  /\ pc[a] = "list"
  /\ LET found == {n \in Names : files[n] # NoFile}
     IN  /\ Advance(a, found)
         /\ IF found = {} THEN quiet' = quiet \ {a} /\ repaired' = TRUE
                          ELSE quiet' = quiet \cup {a} /\ UNCHANGED repaired
  /\ UNCHANGED <<tables, told, contested>>

\* The client has gone (main's scan has no client), or the directory cannot be
\* read: the scan returns early.
ScanReturn(a) ==
  /\ Faults
  /\ ~Uploading(a)
  /\ pc[a] = "list" \/ (pc[a] = "stat" /\ a # Main)
  /\ Finish(a)
  /\ quiet' = quiet \ {a}
  /\ UNCHANGED <<tables, told, contested, repaired>>

-----------------------------------------------------------------------------
(* Single-shot upload.                                                     *)

\* What io.Copy leaves in the temporary file.
Copies(c) == IF Faults THEN {c, Torn} ELSE {c}

\* A bug: the error of io.Copy is not looked at.
UploadUnchecked(a) ==
  /\ Serving /\ pc[a] = "idle"
  /\ \E n \in Isos, c \in Contents : \E d \in Copies(c) :
       /\ name' = [name EXCEPT ![a] = n]
       /\ data' = [data EXCEPT ![a] = d]
  /\ Goto(a, "finStat")
  /\ UNCHANGED <<tables, size, hash, todo, history>>

\* The body is received; a copy cut short is removed and answered 400.
Upload(a) ==
  /\ Serving /\ pc[a] = "idle"
  /\ \E n \in Isos, c \in Contents : \E d \in Copies(c) :
       /\ d # Torn
       /\ name' = [name EXCEPT ![a] = n]
       /\ data' = [data EXCEPT ![a] = d]
  /\ Goto(a, "finStat")
  /\ UNCHANGED <<tables, size, hash, todo, history>>

\* A bug: the name is not tested.
FinStatUnchecked(a) ==
  /\ pc[a] = "finStat"
  /\ Goto(a, "finRename")
  /\ contested' = IF Rivals(name[a], a) THEN contested \cup {name[a]}
                                        ELSE contested
  /\ UNCHANGED <<tables, locals, told, quiet, repaired>>

\* 409 when the name is taken; the temporary file is removed.
FinStat(a) ==
  /\ pc[a] = "finStat"
  /\ IF files[name[a]] = NoFile
     THEN /\ Goto(a, "finRename")
          /\ contested' = IF Rivals(name[a], a) THEN contested \cup {name[a]}
                                                ELSE contested
          /\ UNCHANGED locals
     ELSE Finish(a) /\ UNCHANGED contested
  /\ UNCHANGED <<tables, told, quiet, repaired>>

FinRename(a) ==
  /\ pc[a] = "finRename"
  /\ files' = [files EXCEPT ![name[a]] = data[a]]
  /\ Goto(a, "stat")
  /\ Disturb(a)
  /\ UNCHANGED <<rows, locals, told, contested>>

\* The rename fails: 500, and the temporary file is removed.
FinRenameFails(a) ==
  /\ Faults
  /\ pc[a] = "finRename"
  /\ Finish(a)
  /\ UNCHANGED <<tables, history>>

-----------------------------------------------------------------------------
(* Inspection and registration, common to both.                            *)

\* os.Stat.  When the file is gone or cannot be looked at, a scan skips it and an
\* upload gives up.
InspectStat(a) ==
  /\ pc[a] = "stat"
  /\ \/ /\ files[name[a]] # NoFile
        /\ size' = [size EXCEPT ![a] = files[name[a]]]
        /\ Goto(a, "hash")
        /\ UNCHANGED <<name, data, hash, todo, quiet>>
     \/ /\ files[name[a]] = NoFile \/ Faults
        /\ \/ Uploading(a) /\ Goto(a, "unlink") /\ UNCHANGED <<locals, quiet>>
           \/ ~Uploading(a) /\ Advance(a, todo[a]) /\ quiet' = quiet \ {a}
  /\ UNCHANGED <<tables, told, contested, repaired>>

\* quickHash; a file that cannot be opened or read has the empty hash.
InspectHash(a) ==
  /\ pc[a] = "hash"
  /\ \E h \in {files[name[a]], NoHash} :
       /\ h # NoFile
       /\ h = NoHash => Faults \/ files[name[a]] = NoFile
       /\ hash' = [hash EXCEPT ![a] = h]
  /\ Goto(a, "register")
  /\ UNCHANGED <<tables, name, data, size, todo, history>>

\* A bug: INSERT ... ON CONFLICT (serial) DO NOTHING.
UpsertDoNothing(a) ==
  rows' = [rows EXCEPT ![SerialOf[name[a]]] =
             IF @ # NoRow THEN @
             ELSE [name |-> name[a], size |-> size[a], hash |-> hash[a]]]

\* INSERT ... ON CONFLICT (serial) DO UPDATE.
Upsert(a) ==
  rows' = [rows EXCEPT ![SerialOf[name[a]]] =
             [name |-> name[a], size |-> size[a], hash |-> hash[a]]]

\* A scan counts the file and goes on; an upload answers 201.
Register(a) ==
  /\ pc[a] = "register"
  /\ Upsert(a)
  /\ IF Uploading(a)
     THEN /\ Finish(a)
          /\ told' = [told EXCEPT ![name[a]] = data[a]]
          /\ Disturb(a)
     ELSE /\ Advance(a, todo[a])
          /\ UNCHANGED told
          /\ IF todo[a] = {} /\ a \in quiet
             THEN quiet' = {} /\ repaired' = TRUE
             ELSE Disturb(a)
  /\ UNCHANGED <<files, contested>>

\* A bug: the upload answers 201 although the statement has failed.
RegisterFailsUnseen(a) ==
  /\ Faults
  /\ pc[a] = "register"
  /\ Finish(a)
  /\ told' = IF Uploading(a) THEN [told EXCEPT ![name[a]] = data[a]] ELSE told
  /\ quiet' = quiet \ {a}
  /\ UNCHANGED <<tables, contested, repaired>>

\* The statement fails: a scan returns, an upload removes the library file.
RegisterFails(a) ==
  /\ Faults
  /\ pc[a] = "register"
  /\ IF Uploading(a)
     THEN Goto(a, "unlink") /\ UNCHANGED <<locals, quiet>>
     ELSE Finish(a) /\ quiet' = quiet \ {a}
  /\ UNCHANGED <<tables, told, contested, repaired>>

\* os.Remove(final), and 500.
Unlink(a) ==
  /\ pc[a] = "unlink"
  /\ files' = [files EXCEPT ![name[a]] = NoFile]
  /\ told' = [told EXCEPT ![name[a]] = NoFile]
  /\ contested' = IF Busy(name[a], a) THEN contested \cup {name[a]}
                                      ELSE contested
  /\ Finish(a)
  /\ Disturb(a)
  /\ UNCHANGED rows

-----------------------------------------------------------------------------
(* The world around.                                                       *)

\* The owner puts a file into the directory, replaces it or takes it away.
OwnerChanges(n) ==
  /\ \E c \in Contents \cup {NoFile} : files' = [files EXCEPT ![n] = c]
  /\ files' # files
  /\ told' = [told EXCEPT ![n] = NoFile]
  /\ contested' = IF Busy(n, NoName) THEN contested \cup {n}
                                     ELSE contested \ {n}
  /\ Disturb(NoName)
  /\ UNCHANGED <<rows, pc, locals>>

\* The table is lost and made again.
Evaporate ==
  /\ rows' = [s \in Serials |-> NoRow]
  /\ rows' # rows
  /\ told' = [n \in Names |-> NoFile]
  /\ Disturb(NoName)
  /\ UNCHANGED <<files, pc, locals, contested>>

\* The process ends, at any point, and main starts again with its scan.
Restart ==
  /\ pc' = [a \in Actors |-> IF a = Main THEN "list" ELSE "idle"]
  /\ name' = [a \in Actors |-> NoName]
  /\ data' = [a \in Actors |-> NoFile]
  /\ size' = [a \in Actors |-> NoFile]
  /\ hash' = [a \in Actors |-> NoHash]
  /\ todo' = [a \in Actors |-> {}]
  /\ quiet' = {}
  /\ UNCHANGED <<tables, told, contested, repaired>>

Step(a) ==
  \/ ScanList(a) \/ ScanReturn(a)
  \/ FinStat(a) \/ FinRename(a) \/ FinRenameFails(a)
  \/ InspectStat(a) \/ InspectHash(a)
  \/ Register(a) \/ RegisterFails(a) \/ Unlink(a)

Next ==
  \/ \E a \in Actors : Step(a)
  \/ \E a \in Requests : ScanRequest(a) \/ Upload(a)
  \/ \E n \in Names : OwnerChanges(n)
  \/ Evaporate
  \/ Restart

Spec == Init /\ [][Next]_vars

-----------------------------------------------------------------------------
(* Properties.                                                             *)

\* Types; above all, no file of the library and no row ever comes from an
\* upload that was cut short.
TypeOK ==
  /\ files \in [Names -> Contents \cup {NoFile}]
  /\ rows \in [Serials -> Row \cup {NoRow}]
  /\ pc \in [Actors -> {"idle", "list", "finStat", "finRename", "stat", "hash",
                        "register", "unlink"}]
  /\ name \in [Actors -> Names \cup {NoName}]
  /\ data \in [Actors -> Contents \cup {NoFile}]
  /\ size \in [Actors -> Contents \cup {NoFile}]
  /\ hash \in [Actors -> Contents \cup {NoHash}]
  /\ todo \in [Actors -> SUBSET Names]
  /\ told \in [Names -> Contents \cup {NoFile}]
  /\ contested \subseteq Names
  /\ quiet \subseteq Actors
  /\ repaired \in BOOLEAN

\* The row is that of the file that is there now under the name.
Describes(row, n) ==
  /\ row # NoRow
  /\ row.name = n
  /\ row.size = files[n]
  /\ row.hash \in {files[n], NoHash}

\* The last file of its serial in the directory.
Last(n) ==
  /\ files[n] # NoFile
  /\ \A m \in Names :
       SerialOf[m] = SerialOf[n] /\ files[m] # NoFile => Order[m] <= Order[n]

\* "If Postgres evaporates, you rescan the folder and you're back": after a
\* scan during which nobody else changed anything, whatever the table held
\* before and however many scans and uploads have been cut short, every serial
\* with a file has the row of the last of its files in the directory.
ScanRepairs ==
  repaired =>
    \A n \in Names :
      Last(n) => Describes(rows[SerialOf[n]], n)

\* What GET .../files/<serial> answers: the file of the row, with the hash of
\* the row as its ETag; the manifest gives the row's size.
Serves(s, n) == Describes(rows[s], n) /\ n \in Isos

\* A bug: the boot range has one length for all.
BootRangesFixed(bytes) == {<<0, BootBytes>>}

\* One range from the start, none of an empty file.
BootRanges(bytes) ==
  LET boot == IF bytes < BootBytes THEN bytes ELSE BootBytes
  IN  IF boot > 0 THEN {<<0, boot>>} ELSE {}

\* Only a raw image can be read by ranges.
IsRawISO(row) == row.name \in Isos

\* GetManifest: of the row alone; the file is not looked at.
Manifest(row) == [size      |-> SizeOf[row.size],
                  boot      |-> BootRanges(SizeOf[row.size]),
                  supported |-> IsRawISO(row)]

\* A scan has met another image of the serial, which the row now names.
TakenOver(s, n) == rows[s] # NoRow /\ rows[s].name # n

\* An upload that was answered 201 is there and is served as it was sent, or
\* the row has been taken over by another image of the serial: until the owner or
\* the loss of the table takes it away, and unless the name is contested, that
\* is, changed hands under a request that was at work on it (a scan may then
\* upsert what it inspected before).  Scans and uploads that find the name in
\* one hand, fail half-way or end with the process, do it no harm.
UploadStands ==
  \A n \in Names \ contested :
    told[n] # NoFile =>
      /\ files[n] = told[n]
      /\ Serves(SerialOf[n], n) \/ TakenOver(SerialOf[n], n)

\* The manifest, made of the row, and the file, opened when it is fetched, fit:
\* of an upload that was answered 201 and has not been taken over, the manifest
\* says that it is supported, how long the file is, and boot ranges that lie
\* within the file and reach to its end or to BootBytes.
ManifestFits ==
  \A n \in Names \ contested :
    told[n] # NoFile /\ ~TakenOver(SerialOf[n], n) =>
      LET m     == Manifest(rows[SerialOf[n]])
          bytes == SizeOf[files[n]]
      IN  /\ m.supported
          /\ m.size = bytes
          /\ \A r \in m.boot : 0 <= r[1] /\ r[1] < r[2] /\ r[2] <= bytes
          /\ \A i \in 0 .. BootBytes - 1 :
               i < bytes => \E r \in m.boot : r[1] <= i /\ i < r[2]

\* Only the owner replaces or removes a file; a request does so only with the
\* file it has itself put there and cannot register, or when the name changed
\* hands while it was at work on it.
HandsOff ==
  [][\/ \E n \in Names : OwnerChanges(n)
     \/ \A n \in Names :
          files[n] \notin {NoFile, files'[n]} =>
            \/ n \in contested'
            \/ \E a \in Actors : pc[a] = "unlink" /\ name[a] = n
                                /\ data[a] = files[n]]_vars

-----------------------------------------------------------------------------
(* Inductive invariant.  Every part excepts the contested names.           *)

\* Which locals a handler has at which step.
Shape ==
  \A a \in Actors :
    /\ pc[a] \in {"idle", "list"} => ~Uploading(a)
    /\ pc[a] \in {"finStat", "finRename", "unlink"} => Uploading(a)
    /\ pc[a] \notin {"idle", "list"} => name[a] \in Names
    /\ Uploading(a) => name[a] \in Isos
    /\ pc[a] \in {"hash", "register"} => size[a] \in Contents

\* Between inspection and registration the file stays as inspected.
Inspected ==
  \A a \in Actors :
    name[a] \notin contested =>
      /\ pc[a] \in {"hash", "register"} => size[a] = files[name[a]]
      /\ pc[a] = "register" => hash[a] \in {files[name[a]], NoHash}

\* The name is free up to the rename, and then has the file of the upload.
Placed ==
  \A a \in Actors :
    Uploading(a) /\ name[a] \notin contested =>
      /\ pc[a] = "finRename" => files[name[a]] = NoFile
      /\ pc[a] \in {"stat", "hash", "register", "unlink"} =>
           files[name[a]] = data[a]

\* One upload of a name at a time is past its test.
Alone ==
  \A a \in Actors :
    Uploading(a) /\ pc[a] # "finStat" /\ name[a] \notin contested =>
      ~Rivals(name[a], a)

\* The invariant from which UploadStands and HandsOff follow: it holds at every
\* step of every request, and is what makes finalizeUpload's test of the name
\* good until its registration.
LibraryInv ==
  /\ TypeOK
  /\ Shape
  /\ Inspected
  /\ Placed
  /\ Alone
  /\ \A n \in Names : told[n] # NoFile => n \in Isos
  /\ UploadStands

\* The files a scan has still to register, the one at hand included.
Pending(a) == todo[a] \cup {name[a]}

\* A scan that nobody has disturbed: it goes through the files in their order,
\* they are all still there, and of those it has come past the last of each
\* serial has its row.
QuietScan(a) ==
  /\ pc[a] \in {"stat", "hash", "register"} /\ ~Uploading(a)
  /\ name[a] \notin todo[a]
  /\ \A n \in Pending(a) : files[n] # NoFile /\ Order[name[a]] <= Order[n]
  /\ pc[a] \in {"hash", "register"} => size[a] = files[name[a]]
  /\ pc[a] = "register" => hash[a] \in {files[name[a]], NoHash}
  /\ \A n \in Names \ Pending(a) :
       files[n] # NoFile =>
         /\ Order[n] < Order[name[a]]
         /\ \/ Describes(rows[SerialOf[n]], n)
            \/ \E m \in Names \ Pending(a) :
                 files[m] # NoFile /\ SerialOf[m] = SerialOf[n] /\ Order[n] < Order[m]

\* The invariant from which ScanRepairs follows.
ScanInv == (\A a \in quiet : QuietScan(a)) /\ ScanRepairs
=============================================================================
