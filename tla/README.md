# Verification of cache-22-server

TLA+ models of the Go server in `src/`, the TLC runs that check them on small
instances, and TLAPS proofs for every instance. File names without a directory
are those of `src/internal/...`; `PROJECT.json` gives the lines of the source
each definition stands for.

## 1. The system

One Go process serves games (ISO files in a library directory), memory cards
and an administration UI. Every HTTP request runs in a goroutine of its own;
the only mutexes are those of chunked uploads and of the IGDB client, so
requests otherwise meet in the file system and in Postgres, one system call or
statement at a time.

| Component | State it keeps | Operations | Meets |
|---|---|---|---|
| Chunked uploads (`handler/http/upload_chunked.go`, locks in `handler.go`) | session directories `.uploads/<id>` with `meta.json` and `data.part`; map id -> mutex | init (sweep stale sessions, look for peers, make the session), chunk, complete, abort | library (`finalizeUpload`), other requests of the session and of the same game |
| Received ranges (`mergeRange`) | interval list in `meta.json` | merge one chunk, is it complete | chunked uploads |
| Single-shot upload (`handler/http/upload.go`) | temporary file, then library file and row | upload, `finalizeUpload` | library, catalogue, covers |
| Library scanner (`infra/scanner`) | none | scan: read the directory, inspect every image, upsert its row | library files, catalogue; runs at start-up and on request |
| Game catalogue (`usecase/game`, `infra/db/game_repository.go`, `files.go`) | table `games` | list, get, manifest, register, serve file | library files |
| Memory cards (`usecase/save`, `handler/http/saves.go`) | `<slot>.ps2`, rotated backups, temporary files; table `user_saves` | get, put, delete | two devices of one user |
| Accounts and sessions (`usecase/auth`, `admin.go`, `auth.go`) | tables `users`, `sessions` | setup, login, logout, authenticate, create / delete user, reset password, set admin | every other handler, through `requireAuth` |
| Cover art (`usecase/cover`, `infra/igdb`) | table `covers`, image files, cached IGDB token | backfill, get | started by scans and uploads in the background |
| Web handlers (`handler/web`) and page templates (`web/`) | none | login with setup, logout, scan, accounts behind forms | all use cases |
| Configuration, wiring, health check, an unused type (`presence.go`), test doubles | none or start-up only | | |

What is hard, and what makes each component correct:

* **Chunked uploads.** Four parallel chunk PUTs per session, retries, complete
  and abort at any time, other inits that sweep or replace the session, a full
  disk in the middle of any write, a restart. Correct: a published game has all
  its bytes; no acknowledged chunk is forgotten while its session lives; one
  request at a time rewrites `meta.json`, although `dropUploadLock` takes the
  mutex out of the map while others hold it; every handler returns.
* **Ranges.** The list is exactly the union of the chunks in any order of
  arrival and with any overlap, and complete is said exactly when it covers the file.
* **Memory cards.** Several steps (read, backup, prune, temporary file, rename,
  row) any of which may fail, without a lock. Correct: an answered Put stands, the
  card is never truncated, pruning never takes one of the last three. That the
  replaced version is in a backup, and that a Delete leaves nothing, holds only of
  requests that have the slot for themselves and can read the card or list the
  directory.
* **Accounts.** Each operation is two or three statements without a
  transaction. Correct: sessions belong to users, a reset ends the sessions opened
  with the old password before it, and the last administrator is lost only when
  account requests cross. That the setup token makes one administrator only, and
  that a reset ends every session of the old password, fails when requests overlap.
* **Library and catalogue.** Uploads, scans and the owner meet in a directory and
  a table without a lock or a transaction. Correct, of names that did not change
  hands under a request at work on them: an answered upload stays and is served as
  it was sent, and its manifest fits it, unless another image of the serial takes
  the row over; a rescan that nobody disturbs makes the table right, whatever was
  in it; requests touch nobody else's files.
* **Covers.** Any number of backfills at once, over a provider, a disk and a
  database that fail, with one cached token behind a mutex that is held across an
  HTTP call. Correct: an image file whose games all have a row is whole, a token is renewed before it can
  expire under a request, every backfill ends, and games without art starve none.

`PROJECT.json` lists the hazards at their lines with the properties for each.

## 2. Modules

| Module | Models |
|---|---|
| `ChunkUpload` | the handlers of `upload_chunked.go`, the lock map of `handler.go`, the file moves of `finalizeUpload` |
| `UploadPromise` | what an upload promises its client: abstract specification of one upload, refined by `ChunkUpload` |
| `ChunkUploadProofs` | TLAPS theorems about `ChunkUpload` |
| `RefinementProofs` | the TLAPS proof that `ChunkUpload` implements `UploadPromise` |
| `ChunkRanges` | `mergeRange`, round by round, and the completeness test |
| `ReceivedOffsets` | what `mergeRange` is for, on a set of offsets: abstract specification, refined by `ChunkRanges` |
| `ChunkRangesProofs` | TLAPS theorems about `ChunkRanges` |
| `Saves` | `Put`, `Get`, `Delete` of one memory-card slot |
| `SavesProofs` | TLAPS theorems about `Saves` |
| `Auth` | accounts and sessions, statement by statement |
| `AuthProofs` | TLAPS theorems about `Auth` |
| `Library` | single-shot upload with `finalizeUpload`, `scanner.Run`, the table `games`, file serving, the manifest |
| `LibraryProofs` | TLAPS theorems about `Library` |
| `Covers` | `Backfill`, the IGDB client with its token, cover files and the table `covers`, cover serving |
| `CoversProofs` | TLAPS theorems about `Covers` |
| `MCChunkUpload`, `MCSaves`, `MCAuth`, `MCLibrary`, `MCCovers` | constants and symmetry for TLC |

The modules do not share variables: components meet in the library directory and
the table `games`, which `Library` models with whoever else changes them
(`OwnerChanges`, other uploads), and in the start of a backfill, which `Covers`
allows at any time.

### ChunkUpload

A worker is a request goroutine, `pc[w]` the next statement of its handler. A
step is one system call or one critical section of `uploadMu`:

* `os.WriteFile` on `meta.json` is two steps, truncate and write; between them
  a request that does not hold the session's lock (a sweep, a peer scan) reads
  a torn file. A write through a descriptor whose name has been unlinked is lost.
* `os.RemoveAll` is a listing, an unlink per name and a final rmdir that fails
  when a file has been created meanwhile.
* `uploadLock` looks the mutex up in the map (or adds one) and then waits for it; the
  two steps are separate, so a request may wait for a mutex that
  `dropUploadLock` has since removed, while a later request gets a fresh one.
  Mutexes are numbered, and a fresh one is the smallest unused: a state then
  has one form, which is the garbage collector's work.

| Variables | Code |
|---|---|
| `dirs`, `meta`, `ranges`, `part`, `bytes` | directory, `meta.json` and its ranges, where the inode of `data.part` is, its written offsets |
| `locks`, `locked` | `h.uploadLocks` and the state of its mutexes |
| `pc`, `upload`, `mu`, `chunk`, `snap`, `todo` | locals of a handler |
| `tgt`, `list`, `ret` | the `os.RemoveAll` under way and the statement after it |
| `born`, `issued`, `aged`, `acked` | history: ids made, ids answered 201, sessions older than a day, offsets answered 200 |

| Actions | Code |
|---|---|
| `InitRequest`, `SweepDir`, `Sweep`, `PeersDir`, `Peers`, `Mkdir`, `CreateData`, `InitMetaOpen`, `InitMetaWrite` | `uploadInit` with `sweepStaleUploads` |
| `ChunkRequest`, `Acquire`, `ChunkRead`, `ChunkOpen`, `ChunkWrite`, `ChunkMetaOpen`, `ChunkMetaWrite` | `uploadChunk` |
| `CompleteRequest`, `Acquire`, `FinRead`, `FinStat`, `FinRename`, `FinRegister`, `FinUnlock` | `uploadComplete` with `finalizeUpload` |
| `AbortRequest`, `DropLock` | `uploadAbort`, `dropUploadLock` |
| `RemoveAllStart`, `Unlink`, `RemoveAllEnd` | `os.RemoveAll` |
| `Age`, `Restart` | a day passes; the process dies and starts again |

Abstractions: ids are never reused (16 random bytes); serial and size, which
never change, belong to the id; the interval list is the set of offsets it
covers, which `ChunkRanges` justifies; the row written by `finalizeUpload` is
only its outcome. `DiskFaults` lets creating, truncating, writing and renaming files
and directories fail. Deleting files from the library by hand is left out.

### UploadPromise

One record per upload: absent, open, published or gone, and the offsets
written. Published exactly when every offset has been written, never written
after that, never reopened. `ChunkUpload` refines it with
`Promise == INSTANCE UploadPromise WITH state <- Phase, data <- bytes`, where `Phase`
reads the state off the place of the inode of `data.part`; `race` checks
`KeepsPromise == Promise!Spec` as a property, `peers` with two sessions, and `RefinementProofs` proves it.

### ChunkRanges

The state is the slice `m.Ranges` and, during a call, the locals of `mergeRange`:
`cur`, the length of `merged` and the place of `r`. One request at a time calls it
(the session's lock), so no other step comes between, but the loop appends to `merged`
in the very array it is reading, and that deserves to be seen step by step.

| Actions | Code |
|---|---|
| `MergeRange` | the append and the sort; `sort.Slice` is not stable, so any order of equal starts |
| `Join`, `Keep` | a round of the loop: `r` touches `cur`, or `cur` is appended and `r` takes its place |
| `Return` | the last append, the new slice, `complete` |

`received`, the set of all offsets sent, is history. `ReceivedOffsets` has nothing but
such a set and the answer, as `ChunkUpload` does; `ChunkRanges` refines it with
`AsSet == INSTANCE ReceivedOffsets WITH set <- Recorded, full <- Answer`, where
`Recorded` reads the set off the slice and the locals, without the history:
`MergeRange` is `Merge`, and all other steps stutter.

### Saves

One user, serial and slot. Contents stand for bytes and hash; a truncated file
is `Torn`. `time.Now().UnixNano()` is a clock that ticks when read, so that
names of backups and temporary files are distinct and ordered; reading it and
creating the file it names are one step. `os.WriteFile` is open and write;
`pruneBackups` and `Delete` list first and then remove file by file. `Faults` lets
reads, listings, writes, renames and database statements fail. A card that cannot
be read is overwritten without a backup (`PutRead`); a listing that fails, which
returns no entries, ends the pruning (`PruneDir`) or leaves `Delete` nothing to
remove (`DeleteDir`). Removing a file does not fail, and `Get` may fail at any point
without changing anything. `Crashes` ends all requests at any point. History:
`acked` is what the last Put or Delete answered, `overlap` whether it had company,
`spoiled` how many rotations have failed, were cut short or could not list.

### Auth

A step is one statement. `requireAuth` is two (the session, then its user) and
an administrator's rights are those of the row read there, not of the moment the
operation runs. Inserting a session checks the foreign key, deleting a user
cascades, names are unique, ids come from a sequence. `Fail` stands for a
failing statement and for a request that dies with the process; requests refused
before their first statement are left out.

| Actions | Code |
|---|---|
| `SetupCount`, `SetupCreate` | `authSetup`: `SetupFirstAdmin` counts and inserts |
| `WebLogin`, `SetupCount`, `SetupCreate`, `WebRead`, `LoginCreate` | the web page's `login` while there is nobody: it counts, counts again, inserts, and logs in with the same form |
| `LoginRead`, `LoginCreate` | `Login`, of the API and of the web page |
| `AuthSession`, `AuthUser` | `requireAuth`, `requireAdmin`; `requireAdminPage` of the web handlers |
| `Logout`, `WebLogout` | the API's, which authenticates first; the page's, which only revokes |
| `CreateUser`, `DeleteUser`, `DeleteRow`, `ResetPassword`, `SetPassword`, `SetAdmin` | account administration; the pages offer the same but `SetAdmin` |

History: `shown`, the password a session was opened with; `raced`, the sessions
opened during a reset.

### Library

An actor is a request goroutine or `main`, which scans before it serves. A step is
one system call or statement; scan and upload share `InspectStat`, `InspectHash` and
`Register`, as they share `inspect` and `Upsert` in the code, and differ in what
they do with failures. A chunked upload ends in the same `finalizeUpload`.

| Variables | Code |
|---|---|
| `files`, `rows` | the library directory, table `games` |
| `pc`, `name`, `data`, `size`, `hash`, `todo` | locals: the file at hand, the temporary file, `os.Stat` and `quickHash`, the entries of `os.ReadDir` left |
| `told` | history: what an upload under the name was last answered 201 for |
| `contested` | history: names that changed hands under an actor at work on them (another upload, the owner, a failed upload's `os.Remove`) |
| `quiet`, `repaired` | history: scans during which nobody else changed anything |

A content stands for bytes, size and hash; `size` and `hash` hold the content
they were taken from, so that a row can mix two. `Faults` lets copies,
renames, statements and the `os.Stat` and the reading of an inspection fail and
clients go away; `Restart` ends everything at any point. `OwnerChanges` is the owner at the directory, `Evaporate` the loss of the
table. `Serves` is what `serveFile` answers and `Manifest` what `serveManifest` does:
of the row alone, while the file is opened later, so that `ManifestFits` relates
the two. `SizeOf` gives contents their length. Left out: titles, temporary
files that stay behind (nothing reads them), other errors of the `os.Stat` of
`finalizeUpload` than a missing file.

### Covers

`Backfills` are the goroutines that run `Backfill`: those that uploads and scans
leave in the background and those that serve an administrator (`Clients`), whose
context ends when the client goes. A step is one HTTP call's beginning or end, one
statement or one system call.

| Variables | Code |
|---|---|
| `covers`, `images` | table `covers`, the image files |
| `cached`, `life`, `mu` | what is left of the token by `c.expiry`, what is left of it at the provider, the holder of `c.mu` |
| `pc`, `todo`, `serial`, `done` | locals of `Backfill` and `fetchOne` |
| `held`, `timer` | what is left of the token a request carries; how long its call has lasted |
| `gone`, `troubled` | clients that have gone; whether provider, disk and database may still fail |
| `crossed` | history: image files two backfills were at work on at once |

| Actions | Code |
|---|---|
| `Start`, `ListMissing`, `NextSerial` | `Backfill`: the games without a row, the platform, the loop with its limit |
| `UseToken`, `AskToken`, `TokenAnswer`, `TokenFails` | `query` and `tokenLocked`; the mutex is held from `AskToken` to the answer |
| `QueryAnswer`, `QueryFails`, `DownloadFails` | the answers to `PlatformID`, `Search`, `Download` |
| `ImageOpen`, `ImageWrite`, `ImageWriteFails` | `os.WriteFile` of `writeLimited`: truncate, write |
| `Record`, `RecordFails` | `Upsert` |
| `Tick`, `ClientGone`, `Restart`, `Recover` | the world around |

Time passes in units of the HTTP timeout and only what is left is kept, so there is
no clock to bound. The provider issues a token at some moment of the call,
`expires_in` counts from there, and `c.expiry` from the moment the answer has been
read; `held` keeps running down while a request is under way. `PathOf` lets
serials share an image file, as `imagePath` does with serials that differ only in
characters it replaces. Abstractions: credentials are set (without, `Backfill`
returns at once); no time passes between the check of the token and the
sending of the request; `List` and `MissingSerials` are one step, as the catalogue
does not change here; art is that of the serial it was searched for.

## 3. Runs

| Run | Instance | Question |
|---|---|---|
| `ranges` | 8 blocks, all chunks | Is the list exactly the union, canonical, and complete exactly when full? Refinement of `ReceivedOffsets`; the inductive invariant of the proofs |
| `race` | 2 requests, 1 session of 2 blocks, chunks past the end, faults, restarts, fairness | Mutual exclusion, no lost chunk, whole files, refinement of `UploadPromise`; does every handler return? |
| `peers` | 2 requests, 2 sessions of one game out of 3 (two of one block, one of two), faults, no restarts | The promise to both clients while inits refuse, sweep and take a session over; nothing left behind by what is published; the inductive invariant of the proofs |
| `saves` | 2 requests, 2 contents, 4 Puts, 1 backup kept, faults, crashes | Whole card, answers stand, backups kept and bounded; the inductive invariant of the proofs |
| `auth` | 2 requests, 3 ids, 2 names, 2 passwords, 2 tokens, failures | Sessions belong to users, resets revoke, the last administrator goes only when requests cross; the inductive invariant of the proofs |
| `library` | 2 requests and `main`, one game as .iso and .zso, 2 contents, faults, restarts | Do answered uploads stand, does a rescan repair the table, are others' files left alone, do manifests fit the files? The inductive invariants of the proofs |
| `covers` | 2 backfills (1 with a client), 2 games with one image file, 1 that may have no art, limit 1, faults, restarts, fairness | Are files whose games are all recorded whole and tokens alive, does every backfill end, does every game with art get its cover? The inductive invariant of the proofs |
| `sweep`, `overwrite`, `saves_lost`, `auth_setup`, `auth_reset` | small | disagreements between code and its comments or tests, below |

**Bounds.** Two requests on a session let one hold the lock and the other wait for
it, drop it, or get a fresh one; what a third adds to the safety properties is
covered by the proofs, for any number (liveness is checked for two). Two blocks let chunks be complementary, overlapping and past the end; one
session is enough where sessions do not interact, two where an init acts on
another. In `peers` the constraint `Pair` lets any two of three uploads begin, so that an init
meets a session of its own size, which it takes over, or of another, which it refuses; when
both inits have failed there is nothing left to ask for, hence no deadlock check there (`race`
has it). There are no restarts in `peers`, because a restart loses the request that would clean
up; sessions that interact and a restart come together in the proofs alone. `Ageing` names the sessions that may get old. In
`saves` four Puts make three rotations, so that prunes with listings of different
age meet over one kept backup (the code keeps three; `BackupsKept` is a constant,
and nothing but the comparison depends on it). In `auth` three ids allow
two accounts and one created later; crossing deletions need two requests.
In `library` the two names
share a serial, and so a row, which is where scan and upload interfere most; what
is independent of the number of names and requests is proved.
In `ranges` eight blocks hold four ranges with gaps, so that one chunk can join any
number of them at either side; the proofs are for any size.
In `library` one content is empty and one longer than `BootBytes`.
In `covers`, `Margin` = 2 and `Lifetime` = 3 timeouts is the tightest
`CoversAssumption` allows (the code has 60 and 15 seconds, so a margin of 4);
a limit of 1 with two games lets a failure use the limit up; one image file for
both games lets covers overwrite each other.
Symmetry is used for interchangeable requests and values, never with liveness.

**Fairness** (`race`). Weak fairness of every step of a running handler: the Go
scheduler runs every runnable goroutine, and system calls return. Strong
fairness of `Acquire`: `sync.Mutex` hands itself over to a waiter that has
starved for a millisecond. Requests, age and restarts get none.
In `covers`, likewise: weak fairness of every step of a backfill (an HTTP call ends
by its timeout), strong fairness of taking `c.mu`. Nobody has to start a backfill,
and nothing has to stop failing: `Backfilled` says what follows when failures
do end and backfills go on being started.

**Disagreements found** (each a run whose property fails):

* `sweep`: an init's sweep takes a `meta.json` that another game's chunk has
  just truncated for a dead session and removes the live upload.
* `overwrite`: between `os.Stat` and `os.Rename` another upload publishes the same
  game; it is replaced. `Library` has the same window: there a name in it is
  `contested`, and its properties say that nothing else is harmed.
* `saves_lost`: of two overlapping Puts the first one's version is replaced
  without a backup. `PreviousKept` says that overlaps, and a card that cannot be
  read, are the only ways to lose one.
* `auth_setup`: two overlapping setups both count no user, and both make an
  administrator.
* `auth_reset`: a login that has compared the old password before a reset revokes
  the sessions inserts its own after it, and keeps it. `ResetRevokes` says that no
  other session survives.

## 4. Proofs

`ChunkUploadProofs` proves, for any set of sessions, sizes, chunks and requests and
any set of mutex numbers, from `ConstAssumption` alone:

* `TypeCorrect`: `TypeOK`, with the bound that no offset past the announced
  size is ever written, recorded or acknowledged;
* `MutualExclusion`: `SoleWriter`;
* `NothingForgotten`: `AckedRecorded`;
* `WholeFiles`: `PublishedWhole`;
* `CleanLibrary`: `PublishedClean`, and `CleaningGoesOn`: `CleanInv`, why it holds;
* `UploadInvariant`: `UploadInv`, the inductive invariant they follow from.

`SoleWriter` is not inductive, because of the lock map: two requests may hold two
different mutexes of one session once `dropUploadLock` has run. The argument is
that this happens only after `data.part` has gone. `UploadInv` says so:

* `LifeInv`, `InitInv`: a session is made by one init, first the directory, then
  `data.part`, then `meta.json`, and nobody knows of it before the 201;
* `LockInv`: a mutex has one holder, and as long as `data.part` is in its
  directory all who hold or want the session's lock mean the mutex in the map;
* `RemoveInv`: whoever drops the map entry of a session has first removed its
  `data.part`, and a dead session stays dead (`Dead`);
* `DataInv`: what is recorded, acknowledged or published has been written, and
  what a request carries in its locals has, too;
* `AckInv`: the ranges a chunk is about to write back contain every acknowledged
  offset, as long as the session can be continued;
* `CleanInv`: as long as a published session has its directory, some request will
  remove it, and has every file of it on its list. `FinRename` excludes all others
  who hold the session's lock, and whoever waits for it finds no `data.part`
  and makes no file any more, so the list stays complete. (A restart loses the
  request, so this is said of instances without.)

The proof of each part has one step per action; `UploadInv` is also an invariant
of the run `peers`, where its part `CleanInv` says something; it found
the missing conjuncts before anything was proved.

`RefinementProofs` proves `Refinement`: `Spec => KeepsPromise`, from the same
assumption. `CreateData` is `Open`, `ChunkWrite` is `Write`, `ChunkMetaWrite` is `Ack`,
`FinRename` is `Publish`, and `Unlink` and a failed `FinRegister` are `Discard`, each
when it changes something the promise speaks of; every other step is a stutter. The
guards of the promise's steps come from `UploadInv`: `InitInv` for `Open` (the inode
is made once), `DataInv` for `Write`, `Ack` and `Publish`.

`LibraryProofs` proves, from `LibraryAssumption` alone, for any names, serials,
contents and number of requests:

* `LibraryTypes`: `TypeOK`, so no file or row comes from a copy cut short;
* `AnsweredUploads`: `UploadStands`, of names that are not contested and rows that
  no other image of the serial has taken over;
* `OthersFiles`: the action property `HandsOff`;
* `RepairingScans`: `ScanRepairs`;
* `LibraryInvariant`, `QuietScans`: `LibraryInv` and `ScanInv`, from which they follow.

`UploadStands` alone is not inductive: a scan or an upload may carry an inspection
that no longer fits. `LibraryInv` adds that, off the contested names, a file does
not change between inspection and registration (`Inspected`), a name that was free
at the test is free at the rename and then holds the upload's own file (`Placed`),
and only one upload of a name is past its test (`Alone`). A change of a file
either meets the actor at the name, and contests it, or is a rename onto a free
name, which nobody can have inspected.

`FittingManifest` proves `ManifestFits` from the same invariant and a lemma on
`BootRanges`: an answered upload's row and file agree, so what is computed from the
row holds of the file.

For `ScanRepairs`, `ScanInv` adds what an undisturbed scan knows on its way
(`QuietScan`): the files it has still to register are those after the one at hand in
the order of `os.ReadDir` and all are there still, its inspection fits the file, and of those
behind it the last of each serial has its row. A later image of a serial overwrites
the row of an earlier one, so "every file behind it has its row" would be
false, and it is the order of the directory that makes the last one win.

`ChunkRangesProofs` proves, from `SizeAssumption`, for a file of any size:

* `RangesAreExact`: `RangesExact`; `RangesAreCanonical`: `RangesCanonical`;
* `CompletionIsExact`: `CompleteExact`;
* `RangesInvariant`: `RangesInv`, from which they follow;
* `SetOfOffsets`: `KeepsSet`, the refinement of `ReceivedOffsets`.

`RangesInv` contains the invariant of the loop, `Merging`: `merged` ends at least one
place before the range being read (`len =< next - 2`), which is why the append may
write into the array that is being read; `merged` is in order with gaps and ends before `cur`
starts; the ranges to come are sorted and start no earlier than `cur`; and an
offset has been received exactly when it is in `merged`, in `cur` or in a range to come
(`Found`). Ranges with gaps between them are everything only as a single one: the offset
at the end of a first range that has a successor would be missing.

`SavesProofs` proves, from the assumptions of `Saves` alone, for any contents, requests,
number of Puts and of backups kept:

* `SavesTypes`: `TypeOK`; `WholeCards`: `CardWhole`;
* `PutsStand`: `AckedStands`; `DeletesClear`: `DeleteClears`;
* `BoundedBackups`: `BackupsBounded`;
* `PruningKeepsLast`, `KeptPrevious`: the action properties `PruneKeepsLast`, `PreviousKept`;
* `SavesInvariant`: `SavesInv`, from which they follow.

What `SavesInv` adds:

* `Budget`: a Put reads the clock at most twice and spoils at most one rotation, so
  the time stamps suffice, whichever Puts overlap;
* `OldestFirst`: loops remove the oldest first, so whoever has a backup on
  its list has the older ones on it, too. `PruneSpares`: what a prune is about to remove
  has `BackupsKept` newer ones, although its listing may be out of date: new backups are newer
  ones, and another prune that removes one of those has had the older one on its list;
* `Pruned`: for every set of prunes, of the backups that none of them will remove no more
  are left than are kept, plus one for each rotation outside the set
  and for each one spoiled (failed, cut short, or without a listing). The statement for the prunes under way alone is not
  inductive, since one of them may die: the bound must survive leaving it out;
* `Alone`: what a Put or a Delete that has the slot for itself knows at each of
  its statements (`PutAlone`, `DeleteAlone`): the version it replaces is in a
  backup, or it could not be read (`old[w] = Torn`).

`AuthProofs` proves, from the assumptions of `Auth` alone, for any requests, names, passwords,
tokens and ids:

* `AuthTypes`: `TypeOK`; `ResetsRevoke`: `ResetRevokes`;
* `AdminStays`: the action property `AdminRemains`;
* `AuthInvariant`: `AuthInv`, from which they follow.

What `AuthInv` adds is `Requests`: between the two statements of a reset (the sessions go,
then the password changes) the only sessions of the user are those opened since the
first; and who deletes a user is another one than the user deleted, which is all that
`AdminRemains` rests on.

`CoversProofs` proves, from `CoversAssumption` alone, for any games, sharing of image
files, backfills, limit and times:

* `CoversTypes`: `TypeOK`, so no backfill fetches more than its limit;
* `WholeCovers`: `CoverWhole`, of image files all of whose serials have a row;
* `LiveTokens`: `TokenAlive`;
* `CoversInvariant`: `CoversInv`, from which they follow.

For `CoverWhole`, `CoversInv` adds that off the crossed files one backfill at a time is
between truncating and recording, and what it records is in the file (`Written`),
and that nobody has a recorded serial on its list (`Unlisted`): whoever has it when it
is recorded makes the file crossed. For `TokenAlive` it adds that a token's
recorded rest exceeds the true one by at most the timeout of the call that fetched it,
and that a request under way has more left than its own timeout still allows it
(`Lasting`); this is where `Margin >= 2 * Timeout` is needed, and the code's 60 and
15 seconds meet it.

Every invariant and action property of the passing runs is stated by a theorem. Only
model-checked are the liveness properties `RequestsFinish`, `BackfillsEnd` and
`Backfilled` (liveness under fairness, and `ENABLED`, are out of the prover's reach), and
the five disagreements, which are counterexamples. The library's induction theorems take
an operator as a parameter, which no prover here can instantiate. Where
a proof needs induction, it is over the steps of the specification, as with the loop
of `mergeRange`, or by a least counterexample (`LeastNat` in `SavesProofs`).

## 5. Not modelled

Known, and left without a property: `game.zso` takes over the row of `game.iso`,
which is then refused with 415; a scan replaces the title given at an upload; a
second file part leaves a temporary file behind; a backup cut short counts as one
of the three; a Put that cannot read the card skips the backup and replaces the card all
the same (`save.go:62`, the exception in `PreviousKept`), and a Delete that cannot list the
directory removes the row, leaves the backups, and answers as if it had removed them
(`save.go:116`, the exception in `DeleteClears`), against the comments at `save.go:58-59` and
`save.go:112`; two overlapping Puts rename their files in one order and write their rows in the
other (`save.go:81-87`), after which Get sends one version with the hash of the other until the
next Put (`AckedStands`); removing a file is taken not to fail; the lock map keeps entries for ids
that never had a session; an image of more than 8 MiB is cut off there (`igdb.go:191`)
and recorded; of two serials that share an image file, the cover of the one is torn when
a backfill of the other fails while it writes, and a recorded cover is torn when a second
backfill, which had listed its serial before, fails while it writes; a token the provider
revokes is used until it expires; a cover file that is lost while its row stays is never
fetched again; and although `README.md:46` says that covers are "backfilled on scan and
upload", the start-up scan and the web page's scan start no backfill.

Rendering, configuration, wiring, the health check, listing and a type nothing uses
have no behaviour over time. Request parsing and validation are represented by
their outcome: a refused request changes nothing.

## 6. Plan

1. `ChunkUpload`, `UploadPromise`, `ChunkUploadProofs`, `RefinementProofs`: done.
2. `ChunkRanges`, `ChunkRangesProofs`: done.
3. `Saves`, `SavesProofs`, `Auth`, `AuthProofs`: done.
4. `Library` with the manifest, `LibraryProofs`: done.
5. `Covers`, `CoversProofs`: done.
6. To come: abstract specifications of a memory-card slot and of a cover
   (what a client sees of it), shown to be implemented, as `UploadPromise` is.
