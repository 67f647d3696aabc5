------------------------------- MODULE Covers -------------------------------
(***************************************************************************)
(* Cover art: usecase/cover/cover.go, the IGDB client of infra/igdb, the    *)
(* table covers and the image files.                                       *)
(*                                                                         *)
(* Scans through the API and uploads start a Backfill in the background (the *)
(* scans at start-up and through the web page do not), an administrator may *)
(* start one, and nothing keeps them apart but the mutex of the cached      *)
(* token.  A step is one HTTP call, one statement or one      *)
(* system call.  Time passes in units of the HTTP client's timeout, and is  *)
(* measured by what is left of a token and by how long a call has been      *)
(* under way.  Titles, search results and image bytes come down to whether  *)
(* IGDB has art of a game and whose art a file holds.                      *)
(***************************************************************************)
EXTENDS Integers

CONSTANTS
  Serials,    \* the games of the catalogue
  Paths,      \* image files
  PathOf,     \* imagePath: several serials may share a file
  Obscure,    \* games of which IGDB may have no art
  Backfills,  \* goroutines that run Backfill
  Clients,    \* those of them that serve POST /v1/admin/covers/backfill
  Limit,      \* covers one Backfill fetches at most (25)
  Timeout,    \* of an HTTP call (15 s)
  Margin,     \* what a cached token must have left to be used (60 s)
  Lifetime,   \* of a new token
  NoSerial, NoFile, Torn, NoOne

ASSUME CoversAssumption ==
  /\ PathOf \in [Serials -> Paths]
  /\ Obscure \subseteq Serials
  /\ Clients \subseteq Backfills
  /\ Limit \in Nat \ {0}
  /\ Timeout \in Nat /\ Margin \in Nat /\ Lifetime \in Nat
  /\ Margin >= 2 * Timeout /\ Lifetime > 2 * Timeout
  /\ NoSerial \notin Serials /\ NoOne \notin Backfills
  /\ {NoFile, Torn} \cap Serials = {}

VARIABLES
  covers,    \* table covers: the serials with a row
  images,    \* image file of each path: the serial whose art it holds
  cached,    \* what is left of the cached token, by c.expiry
  life,      \* what is left of it at the provider
  mu,        \* holder of c.mu
  pc,        \* next step of each Backfill; its local variables:
  todo,      \*   missing serials not come to
  serial,    \*   the serial at hand; NoSerial while it asks for the platform
  done,      \*   covers fetched
  held,      \*   what is left, at the provider, of the token it has sent
  timer,     \*   how long its call has been under way
  gone,      \* clients that have gone: ctx.Err() # nil
  troubled,  \* provider, network, disk or database may fail, clients may go
  crossed    \* history: files that two Backfills were at work on at once

stored == <<covers, images>>
token  == <<cached, life, mu>>
call   == <<held, timer>>
work   == <<todo, serial, done>>
vars   == <<stored, token, pc, work, call, gone, troubled, crossed>>

At(p) == {s \in Serials : PathOf[s] = p}

Init ==
  /\ covers = {}
  /\ images = [p \in Paths |-> NoFile]
  /\ cached = 0 /\ life = 0 /\ mu = NoOne
  /\ pc = [b \in Backfills |-> "idle"]
  /\ todo = [b \in Backfills |-> {}]
  /\ serial = [b \in Backfills |-> NoSerial]
  /\ done = [b \in Backfills |-> 0]
  /\ held = [b \in Backfills |-> 0]
  /\ timer = [b \in Backfills |-> 0]
  /\ gone = {}
  /\ troubled = TRUE
  /\ crossed = {}

Goto(b, label) == pc' = [pc EXCEPT ![b] = label]

Finish(b) ==
  /\ Goto(b, "idle")
  /\ todo' = [todo EXCEPT ![b] = {}]
  /\ serial' = [serial EXCEPT ![b] = NoSerial]
  /\ done' = [done EXCEPT ![b] = 0]
  /\ gone' = gone \ {b}

-----------------------------------------------------------------------------
(* Backfill.                                                               *)

\* Of an upload, a scan or an administrator.
Start(b) ==
  /\ pc[b] = "idle"
  /\ Goto(b, "list")
  /\ UNCHANGED <<stored, token, work, call, gone, troubled, crossed>>

\* A bug: covers that are there are listed, too.
ListMissingAll(b) ==
  /\ pc[b] = "list"
  /\ \/ /\ b \notin gone
        /\ Goto(b, "lock")
        /\ todo' = [todo EXCEPT ![b] = Serials]
        /\ UNCHANGED <<serial, done, gone>>
     \/ (troubled \/ b \in gone) /\ Finish(b)
  /\ UNCHANGED <<stored, token, call, troubled, crossed>>

\* MissingSerials: LEFT JOIN covers ... WHERE c.serial IS NULL.
Missing == Serials \ covers

\* List and MissingSerials; the platform is asked for even if none is missing.
ListMissing(b) ==
  /\ pc[b] = "list"
  /\ \/ /\ b \notin gone
        /\ Goto(b, "lock")
        /\ todo' = [todo EXCEPT ![b] = Missing]
        /\ UNCHANGED <<serial, done, gone>>
     \/ (troubled \/ b \in gone) /\ Finish(b)
  /\ UNCHANGED <<stored, token, call, troubled, crossed>>

\* A bug: one cover too many.
NextSerialTooMany(b) ==
  /\ pc[b] = "next"
  /\ \/ /\ todo[b] # {} /\ done[b] <= Limit /\ b \notin gone
        /\ \E s \in todo[b] :
             /\ serial' = [serial EXCEPT ![b] = s]
             /\ todo' = [todo EXCEPT ![b] = @ \ {s}]
        /\ Goto(b, "lock")
        /\ UNCHANGED <<done, gone>>
     \/ (todo[b] = {} \/ done[b] > Limit \/ b \in gone) /\ Finish(b)
  /\ UNCHANGED <<stored, token, call, troubled, crossed>>

\* Head of the loop.  The statement orders nothing: any serial may be next.
NextSerial(b) ==
  /\ pc[b] = "next"
  /\ \/ /\ todo[b] # {} /\ done[b] < Limit /\ b \notin gone
        /\ \E s \in todo[b] :
             /\ serial' = [serial EXCEPT ![b] = s]
             /\ todo' = [todo EXCEPT ![b] = @ \ {s}]
        /\ Goto(b, "lock")
        /\ UNCHANGED <<done, gone>>
     \/ (todo[b] = {} \/ done[b] >= Limit \/ b \in gone) /\ Finish(b)
  /\ UNCHANGED <<stored, token, call, troubled, crossed>>

\* A bug: a failure counts as a cover.
GiveUpCounting(b) ==
  IF serial[b] = NoSerial
  THEN Finish(b)
  ELSE /\ Goto(b, "next")
       /\ serial' = [serial EXCEPT ![b] = NoSerial]
       /\ done' = [done EXCEPT ![b] = @ + 1]
       /\ UNCHANGED <<todo, gone>>

\* Without the platform, Backfill returns; without a cover it continues.
GiveUp(b) ==
  IF serial[b] = NoSerial
  THEN Finish(b)
  ELSE /\ Goto(b, "next")
       /\ serial' = [serial EXCEPT ![b] = NoSerial]
       /\ UNCHANGED <<todo, done, gone>>

-----------------------------------------------------------------------------
(* The IGDB client.                                                        *)

HangUp(b) ==
  /\ held' = [held EXCEPT ![b] = 0]
  /\ timer' = [timer EXCEPT ![b] = 0]

Send(b, left) ==
  /\ Goto(b, "sent")
  /\ held' = [held EXCEPT ![b] = left]
  /\ timer' = [timer EXCEPT ![b] = 0]

\* A bug: a token is used up to its last second.
FreshToTheEnd == cached > 0

Fresh == cached > Margin

\* query, up to the request, with the token it has; the mutex is taken and
\* released on the way.
UseToken(b) ==
  /\ pc[b] = "lock" /\ mu = NoOne
  /\ Fresh
  /\ Send(b, life)
  /\ UNCHANGED <<stored, token, work, gone, troubled, crossed>>

\* tokenLocked asks for a token, and keeps the mutex meanwhile.
AskToken(b) ==
  /\ pc[b] = "lock" /\ mu = NoOne
  /\ ~Fresh
  /\ mu' = b
  /\ Goto(b, "token")
  /\ timer' = [timer EXCEPT ![b] = 0]
  /\ UNCHANGED <<stored, cached, life, work, held, gone, troubled, crossed>>

\* The token was issued at some moment of the call; expiry counts from its end.
TokenAnswer(b) ==
  /\ pc[b] = "token"
  /\ mu' = NoOne
  /\ cached' = Lifetime
  /\ \E left \in Lifetime - timer[b] .. Lifetime :
       life' = left /\ Send(b, left)
  /\ UNCHANGED <<stored, work, gone, troubled, crossed>>

\* A bug: the early return keeps the mutex.
TokenFailsLocked(b) ==
  /\ troubled
  /\ pc[b] = "token"
  /\ GiveUp(b)
  /\ HangUp(b)
  /\ UNCHANGED <<stored, token, troubled, crossed>>

TokenFails(b) ==
  /\ troubled
  /\ pc[b] = "token"
  /\ mu' = NoOne
  /\ GiveUp(b)
  /\ HangUp(b)
  /\ UNCHANGED <<stored, cached, life, troubled, crossed>>

\* Search, of the title cleaned, may find nothing, or nothing with a cover.
LacksArt(b) == serial[b] \in Obscure

\* PlatformID knows its platform, Search has found art.
QueryAnswer(b) ==
  /\ pc[b] = "sent"
  /\ Goto(b, IF serial[b] = NoSerial THEN "next" ELSE "download")
  /\ HangUp(b)
  /\ UNCHANGED <<stored, token, work, gone, troubled, crossed>>

\* An error, a timeout, no result, or none with art.
QueryFails(b) ==
  /\ troubled \/ LacksArt(b)
  /\ pc[b] = "sent"
  /\ GiveUp(b)
  /\ HangUp(b)
  /\ UNCHANGED <<stored, token, troubled, crossed>>

-----------------------------------------------------------------------------
(* The image and its row.                                                  *)

\* Another Backfill is at, or will come to, the file of b's serial.
Shared(b) ==
  \E c \in Backfills \ {b} :
    (todo[c] \cup {serial[c]}) \cap At(PathOf[serial[b]]) # {}

Cross(b) == crossed' = IF Shared(b) THEN crossed \cup {PathOf[serial[b]]}
                                    ELSE crossed

DownloadFails(b) ==
  /\ troubled
  /\ pc[b] = "download"
  /\ GiveUp(b)
  /\ UNCHANGED <<stored, token, call, troubled, crossed>>

\* The image has been read; os.WriteFile truncates the file ...
ImageOpen(b) ==
  /\ pc[b] = "download"
  /\ images' = [images EXCEPT ![PathOf[serial[b]]] = Torn]
  /\ Cross(b)
  /\ Goto(b, "write")
  /\ UNCHANGED <<covers, token, work, call, gone, troubled>>

\* ... and writes it.
ImageWrite(b) ==
  /\ pc[b] = "write"
  /\ images' = [images EXCEPT ![PathOf[serial[b]]] = serial[b]]
  /\ Goto(b, "record")
  /\ UNCHANGED <<covers, token, work, call, gone, troubled, crossed>>

\* A bug: the error of Download is not looked at.
ImageWriteFailsUnseen(b) ==
  /\ troubled
  /\ pc[b] = "write"
  /\ Goto(b, "record")
  /\ UNCHANGED <<stored, token, work, call, gone, troubled, crossed>>

\* Disk full.  The torn file stays.
ImageWriteFails(b) ==
  /\ troubled
  /\ pc[b] = "write"
  /\ GiveUp(b)
  /\ UNCHANGED <<stored, token, call, troubled, crossed>>

\* Upsert.
Record(b) ==
  /\ pc[b] = "record"
  /\ b \notin gone
  /\ covers' = covers \cup {serial[b]}
  /\ done' = [done EXCEPT ![b] = @ + 1]
  /\ serial' = [serial EXCEPT ![b] = NoSerial]
  /\ Cross(b)
  /\ Goto(b, "next")
  /\ UNCHANGED <<images, token, todo, call, gone, troubled>>

\* The statement fails, as it does when the client has gone.
RecordFails(b) ==
  /\ troubled \/ b \in gone
  /\ pc[b] = "record"
  /\ GiveUp(b)
  /\ UNCHANGED <<stored, token, call, troubled, crossed>>

\* What GET .../cover answers.
Shown(s) == IF s \in covers THEN images[PathOf[s]] ELSE NoFile

-----------------------------------------------------------------------------
(* The world around.                                                       *)

Calling(b) == pc[b] \in {"token", "sent"}

Less(n) == IF n > 0 THEN n - 1 ELSE 0

\* A unit of time passes.  A call that has lasted Timeout is over.
Tick ==
  /\ \A b \in Backfills : Calling(b) => timer[b] < Timeout
  /\ cached' = Less(cached)
  /\ life' = Less(life)
  /\ held' = [b \in Backfills |-> IF pc[b] = "sent" THEN Less(held[b]) ELSE 0]
  /\ timer' = [b \in Backfills |-> IF Calling(b) THEN timer[b] + 1 ELSE 0]
  /\ UNCHANGED <<stored, mu, pc, work, gone, troubled, crossed>>

ClientGone(b) ==
  /\ troubled
  /\ b \in Clients \ gone /\ pc[b] # "idle"
  /\ gone' = gone \cup {b}
  /\ UNCHANGED <<stored, token, pc, work, call, troubled, crossed>>

\* The process ends, at any point, and starts again with a new client.
Restart ==
  /\ troubled
  /\ cached' = 0 /\ life' = 0 /\ mu' = NoOne
  /\ pc' = [b \in Backfills |-> "idle"]
  /\ todo' = [b \in Backfills |-> {}]
  /\ serial' = [b \in Backfills |-> NoSerial]
  /\ done' = [b \in Backfills |-> 0]
  /\ held' = [b \in Backfills |-> 0]
  /\ timer' = [b \in Backfills |-> 0]
  /\ gone' = {}
  /\ UNCHANGED <<stored, troubled, crossed>>

\* From here on nothing fails but what must.
Recover ==
  /\ troubled
  /\ troubled' = FALSE
  /\ UNCHANGED <<stored, token, pc, work, call, gone, crossed>>

Lock(b) == UseToken(b) \/ AskToken(b)

Step(b) ==
  \/ ListMissing(b) \/ NextSerial(b)
  \/ Lock(b) \/ TokenAnswer(b) \/ TokenFails(b)
  \/ QueryAnswer(b) \/ QueryFails(b) \/ DownloadFails(b)
  \/ ImageOpen(b) \/ ImageWrite(b) \/ ImageWriteFails(b)
  \/ Record(b) \/ RecordFails(b)

Next ==
  \/ \E b \in Backfills : Start(b) \/ Step(b) \/ ClientGone(b)
  \/ Tick
  \/ Restart
  \/ Recover

Spec == Init /\ [][Next]_vars

\* The scheduler runs every goroutine, an HTTP call ends by its timeout, and
\* sync.Mutex lets nobody starve.  Nobody has to start a Backfill.
FairSpec ==
  /\ Spec
  /\ \A b \in Backfills : WF_vars(Step(b)) /\ SF_vars(Lock(b))

-----------------------------------------------------------------------------
(* Properties.                                                             *)

\* Types; no Backfill fetches more than Limit covers.
TypeOK ==
  /\ covers \subseteq Serials
  /\ images \in [Paths -> Serials \cup {NoFile, Torn}]
  /\ cached \in 0 .. Lifetime /\ life \in 0 .. Lifetime
  /\ mu \in Backfills \cup {NoOne}
  /\ pc \in [Backfills -> {"idle", "list", "lock", "token", "sent", "next",
                           "download", "write", "record"}]
  /\ todo \in [Backfills -> SUBSET Serials]
  /\ serial \in [Backfills -> Serials \cup {NoSerial}]
  /\ done \in [Backfills -> 0 .. Limit]
  /\ held \in [Backfills -> 0 .. Lifetime]
  /\ timer \in [Backfills -> 0 .. Timeout]
  /\ gone \subseteq Clients
  /\ troubled \in BOOLEAN
  /\ crossed \subseteq Paths

\* Once every serial of an image file has a row, the file is whole and has the
\* art of one of them, whatever failures cut Backfills short before: fetchOne
\* records a cover after writing it, and a serial with a row is not fetched
\* again.  Two cases are outside: a file that two Backfills were at work on at
\* once (the second truncates, from a list it has read before, what the first has
\* recorded), and a file shared with a serial that has no row yet, whose Backfill
\* may fail after it has truncated the cover the other serial shows.
CoverWhole ==
  \A p \in Paths \ crossed :
    At(p) # {} /\ At(p) \subseteq covers =>
      \A s \in At(p) : Shown(s) \in At(p)

\* A request never reaches the provider with an expired token, although the
\* token is used after the mutex is released, and counted from the end of the
\* call that fetched it: the margin of tokenLocked covers both.
TokenAlive == \A b \in Backfills : pc[b] = "sent" => held[b] > 0

\* Every Backfill ends, although all wait for the mutex of a call to the
\* provider.
BackfillsEnd == \A b \in Backfills : pc[b] = "list" ~> pc[b] = "idle"

\* "Backfilled on scan and upload" (README.md): once failures end, and as long as
\* somebody goes on starting Backfills, every game IGDB has art of gets its
\* cover, however many others the limit might be spent on.
Backfilled ==
  \A s \in Serials \ Obscure :
    <>~troubled /\ []<>(\E b \in Backfills : pc[b] = "list")
      => <>(s \in covers)

-----------------------------------------------------------------------------
(* Inductive invariant.                                                    *)

\* One Backfill writes a file at a time, and what it is about to record is there.
Written ==
  \A b \in Backfills :
    pc[b] \in {"write", "record"} /\ PathOf[serial[b]] \notin crossed =>
      /\ pc[b] = "record" => images[PathOf[serial[b]]] = serial[b]
      /\ \A c \in Backfills \ {b} :
           pc[c] \in {"write", "record"} =>
             PathOf[serial[c]] # PathOf[serial[b]]

\* The serial at hand is off the list, and within the limit.
AtHand ==
  \A b \in Backfills :
    /\ pc[b] \in {"idle", "list", "next"} => serial[b] = NoSerial
    /\ pc[b] \in {"download", "write", "record"} => serial[b] # NoSerial
    /\ serial[b] # NoSerial => serial[b] \notin todo[b] /\ done[b] < Limit

\* Nobody works on a serial that has its row.
Unlisted ==
  \A b \in Backfills : \A s \in todo[b] \cup {serial[b]} :
    s \in covers => PathOf[s] \in crossed

\* What a token has left.
Lasting ==
  /\ cached =< life + Timeout
  /\ \A b \in Backfills : pc[b] = "sent" => held[b] + timer[b] > Timeout

\* CoverWhole and TokenAlive follow from this.
CoversInv ==
  /\ TypeOK
  /\ AtHand
  /\ Written
  /\ Unlisted
  /\ CoverWhole
  /\ Lasting
=============================================================================
