# A verification project for the DLA launcher

TLA+ models of the launcher in `src/tauri2` (a Tauri shell around Rust crates;
its screens are in `src/shared/ui`), TLC configurations that check them on
small instances, and TLAPS proofs for every value of the constants.

Run from this directory: `tlc -config <X>.cfg <Module>` for a run of section 3,
`tlapm <Module>_proofs.tla` for the proofs of section 4.

## 1. The system

The launcher imports catalogs of works ("generations") and keeps a library of
installations in SQLite. It downloads, unpacks, verifies, repairs, launches,
plays and removes packages. The shell (`src-tauri`) answers commands of the
interface on a pool of blocking threads, next to worker threads of its own; the
application crate holds the services; the adapters (`dla-sqlite`,
`dla-archive`, `dla-delivery`, ...) do the reads, writes and renames. Services
share state only through the database, the file system and a few mutexes and
atomics: nearly every operation is a read, a decision and a write with nothing
held over the three.

| Component | State it keeps | Hard behaviour | What makes it correct |
|---|---|---|---|
| Download queue | job rows, staging folders, worker flag, published control, session | commands rewrite whole rows next to the worker; wake-ups; restart; failing writes | one worker; no busy-looking job without a run; nobody's stop reaches another job; every queued job is served |
| Download transfer | part file, finished file, hasher | kills and power loss between write, sync, rename; changing server copy | only the archive appears under its name; sound parts are continued; attempts end |
| Locator and service client | monthly manifests and their cache, recorded places, known digests | manifests replaced at any time, stale places and digests | what is delivered is what the newest release names |
| Views of the queue | revisioned snapshots, events, what the page holds | replies and events overtake each other | a settled page shows the last state |
| Package preparation, archive installer | staging, destination, backup, markers, prepared rows, the one slot | two-rename replacement, recovery of what a stop left, inspections and cleanup next to a preparation; archives replaced while they are read | the user's content survives until replaced for good; recorded = installed; what is unpacked is what was listed |
| Moves into the install folder | source, staging, destination | copy, check, rename, removal; several movers of one work | no file of the work is lost |
| Library maintenance | repair and backup folders, quarantined archives | cleanup against running operations | what the user kept survives; archives come back as whole sets |
| Catalog import and generations | generation rows, directories, served store, search index | activation over three stores, removal by quarantine, a stream checked against its manifest | one whole active catalog; an import keeps all or nothing |
| Catalog store and search | the served catalog, its index, cached counts | pages, counts, calendar and search are separate queries | the answers agree |
| Library scanner, findings | sessions, entry rows, results, installations | a later scan takes over rows; list and add group the files separately | nothing is created from part of a scan; what was added is listed as added |
| Classification of content | matches, action candidates, prepared rows of earlier releases | the same folder classified by two pieces of code, rows read and rewritten | a recommended file opens; evidence decides the match |
| Installations and review | detection, overrides, status | refresh against review | every stored row is one readers accept |
| Installs found by a scan | queue, worker, slot, cancellation | the worker pattern again, cancel at every place | the queue settles; what was cancelled is gone |
| Launch supervision | activity rows, active map, monitor threads | exit against stop, failing saves, restart | one owned process; a stop is recorded and settles |
| Media sessions, native video, media protocol | session rows, resume points, queues; video windows; ranges | late progress, overlapping opens and closes; files that change under a read | sessions, places and queues agree; no window is lost; an answer fits the file |
| Players of the interface | dock, page, pending requests | late answers, pending closes | one of them plays; saved places were heard |
| Library add batches | batch, its scan and runner | threads outlive their batch | each picked work is listed once |
| Android packages | selection, install session, associations | answers minutes later, twice or never, process death | only reviewed signers are launched; a pending install is answered |
| Connector process | child, stop flag, supervisor | stop between two restarts | no child survives a stop |
| Cover cache | body and metadata files, counted usage | stops between two files, evictions | the limit is kept |
| Own works | details row, pictures, lists | overlapping saves and the prune of the start | a row names pictures that exist |
| Interface (other screens), recommendations, personalization, shelves, support | single rows; none | none | functional |

Interactions. The queue's worker transfers archive after archive and then,
through `ShellInstaller`, scans what arrived, claims the preparation slot and
runs the installer; the installs of a scan and the interface claim the same
slot. The cleanup looks at the slot once, before it starts; repairs, uninstalls
and relocations are not registered anywhere. A preparation and an inspection of
its destination share only the database and the folder. An activation of a
catalog replaces the store that all queries use and rebuilds the index the text
search uses. The prune of own works runs while the page already sends commands.

`PROJECT.json` lists the components with their sources and what each leaves
out, and every hazard at its line with the properties that would show it.

## 2. The modules

Each component's module is parameterised by CONSTANTS, with its bounds named
`Max...`, and can be checked and proved about alone. A comment box at its head
names the sources; `map` in `PROJECT.json` names the lines of every definition.
One action is one step between two points where another thread, another
program or a stop of the launcher can come between: a read or a write of a
row, a rename, a lock. The mutated forms (`mutants`) stand right before the
definitions they vary, with a comment naming the mistake.

**Composition.** The components checked together share no state, so `MCRaces`,
`MCActivities`, `MCLibrary` and `MCStorage` hold them side by side with a
variable `focus`: a behaviour is about the component chosen in its initial
state and the others keep theirs. The state space is the sum, not the product,
of theirs. Each of the four EXTENDS the components that are proved about, whose
properties are checked under their own names and whose constants the `.cfg`
gives; where several modules would use one name, theirs carry a prefix
(`ScanInit`, `RowsNext`, `LaunchSpec`, `ServeInit`, `CacheTypeOK`,
`libraryRow`, `latestJob`). The others are instantiated, and their properties
wrapped by `focus = ... =>`. The type invariants of the components are in one
invariant of each run; those of `storage`, which are all proved, are left to
the proofs. Where components do interact, the interaction is inside
a module: `DeliveryQueue` holds the service, the controller and the worker,
`PackageInstall` the preparation, the inspection and the cleanup,
`CatalogGenerations` the importer, the store and the index, `ScanInstalls` the
queue, the slot and the library.

### Downloads

- `DeliveryQueue`: `store` is the table of jobs, `files` the verified archives
  in each staging folder, `workerFlag`, `running`, `control` the fields of the
  controller, `signedIn` the client's credentials, `pc`/`held` the place of a
  worker thread in `kick`, `work`, `run`, `deliver` with the job it holds,
  `caller` what each command has read. Commands read the whole job and later
  write the whole job. Reads with no effect between them are one step where
  the merge loses no behaviour (the comments say why). Problems fall in three
  classes by what the queue does with them. `stopAsked`, `unsaved`, `halted`
  are history.
- `ArchiveTransfer`: a file is the sequence of its blocks; of a block only the
  copy it came from matters. `synced`, `settled`, `undo` say what a power
  failure may damage or take back. A hash is the content (no collisions).
- `ReleaseDelivery`: from the catalog's releases of a work over the monthly
  manifests with their cache to the scan of what arrived; `named`, `through`
  and `early` are history. Each change of a manifest has a fresh date.
- `DeliveryViews`: the revision read before the rest of a view, events in
  order, replies that cross them, and the page with its notices and pending
  sign-in.

### Packages and folders

- `PackageInstall`: `fs` maps the paths of one destination folder to
  directories (whose files, whole or not, which of the three markers), `row`
  the prepared packages, `sources` the archives, `act` what the preparation,
  the inspection and the cleanup remember. They share `Recover`, `Reject`,
  `Restore`, `Drop`, `Commit`, `Unmark`, `Discard`; `back` and `fault` are
  return addresses. Unpacking a tree is one step, and so is deleting one that
  only its preparation works on; the cleanup removes a staging folder entry by
  entry (`DeleteEntry`), wherever the tree has been renamed meanwhile.
  `intruded` is the history of two events: an inspection undid a replacement of
  a preparation that still ran, or the cleanup took an entry of a tree that a
  running preparation works on or one has activated. The code excludes neither
  (section 6), and the safety invariants are stated for the behaviours without
  them. What the user puts at the name is a folder: `fs::rename` replaces a
  regular file, which the model leaves out.
- `Extraction`: listing, comparison, unpacking, verification, marker, with
  archives that another program replaces, tools that print and write what they
  like, a cancel at every step.
- `SourceCleanup`: deletion of archives through a quarantine and the cleanup
  that puts back what an interrupted deletion left.
- `FolderTransfer`: a work brought in by rename or by copy, check, rename and
  removal, by several movers.
- `Maintenance`: verify, repair, relocate, uninstall, cleanup, with
  `remove_dir_all` in two steps on a folder that may be renamed meanwhile.

### Catalog and library

- `CatalogPromise`, `CatalogGenerations`: the abstract catalog (`kept`,
  `active`) and the importer, activation, removal, startup and index rebuilds
  that implement it (`KeepsPromise` is `INSTANCE CatalogPromise` with
  `kept` = the generations with a row, `active` = the mark). A generation has an
  identifier of its own and the snapshot id its package names (`snapshotOf`, set
  once); several may name the same one, and the index and its status carry the
  snapshot id alone, as in the code. What an index was read from is history
  (`from`). The cleanup of the search cache removes what it removes; a removal
  that fails only leaves more.
- `CatalogImport`: one package read from front to back inside one transaction,
  the registry of fields, counts, digests, entries in the declared order.
- `CatalogBrowse`: facets, orders, pages, context counts, calendar, search and
  related works over immutable catalogs that replace each other. A value of a
  facet is a row of its table, counted by itself; a filter names it, without the
  case of ASCII letters, and picks every row of that name; the index keeps names
  trimmed and in lower case of any letter (`Folded`).
- `Scanner`: sessions of one root, the parallel walk, batches, publication,
  restart; entry rows that the next session takes over.
- `ScanFindings`: grouping of files into findings, archive sets, identities,
  `list` and `add` with the scope and identifier each computes.
- `Detection`: matching evidence, the two classifiers, candidate ids, the rows
  of earlier releases and their recheck, what a session opens.
- `Installations`: detection, overrides, status, the readers that refuse a row.
- `LibraryAdd`, `ScanInstalls`, `OwnWork`: batches, installs of a scan, the
  details and pictures of a user's own works.

### Running and playing

- `Launch`: `launch`, the monitor thread, `stop`, failing saves, restart.
- `Connector`: the supervisor and `stop`, with the process in a local variable
  before it is in the shared slot.
- `AndroidPackages`: selection and install sessions of the plugin, broadcasts,
  associations and launches of the application crate.
- `Media`, `NativeVideo`, `MediaProtocol`: sessions with resume points and
  queues; the controller of the video window; ranges of the protocol.
- `Playback`: the dock and the page; a handler sees the state of the last
  render, commands are answered later. `cached` is what the query client keeps of
  `openMediaSession`: with `staleTime: Infinity` a page that is mounted again
  shows that answer, and asks again only after the five minutes in which nobody
  showed it (`Expire`). Other queries under `["library"]` invalidate it too
  (`useDelivery.ts:33`, `LibraryAddSheet.tsx`, `ScannerPage.tsx`,
  `useScanInstalls.ts`); such a refetch is left out: it opens or reads the
  session once more, as `Expire` and `Mount` do, but under the shown page.
- `CoverCache`: two files for a cover, the count of them, stripes and commit
  lock, settings; the answer of a cover's server with its redirects.

External, modelled from their use: the file system, SQLite's transactions, the
unpacking tools, Android's package installer, the servers.

## 3. The runs

| Run | Components | Properties |
|---|---|---|
| `races` | queue, players, own works, classification | `OneWorker`, `NoStrandedRun`, `StopsWereAsked`, `StatusExplained`, `OnePlays`, `PlacesAreKept`, `FilesAreRecognised`, `PicturesAreKept` |
| `activities` | launch, connector, scan installs, queue, Android, release, transfer | `DeliveredIsAsked`, `OneOwnedProcess`, `StopIsFinal`, `StopIsForGood`, `LaunchedIsReviewed`, `InstallIsAnswered`, `CancelledIsGone`, `InstallsSettle`, `QueuedIsServed`, `HashFollowsDisk`, `OnlyVerifiedFiles`, `AttemptsConverge` |
| `library` | generations, media, video, protocol, findings, scanner, rows, add, browse, import, views | `KeepsPromise`, `ServedAndSearchedAgree`, `SessionsAgree`, `SurfaceIsOwned`, `AnswersFitTheFile`, `AddedIsListed`, `CreatedFromWholeScan`, `LibraryAnswers`, `ReviewListsEachOnce`, `AnswersAgree`, `ImportIsWholeOrNothing`, `ViewsKeepUp` |
| `storage` | package, maintenance, moves, source cleanup, extraction, covers | `UserContentKept`, `PreparedIsInstalled`, `ReplacementCanBeUndone`, `InstallationSurvives`, `WorkSurvives`, `RestoredSetIsWhole`, `UnpackedIsTheManifest`, `CacheStaysInLimit` |

All hold. Each property is stated, with the code it is about, where it is
defined, and each is broken by a mutant of the code. `KeepsPromise` is a
refinement; `OnlyVerifiedFiles`, `AnswersFitTheFile`, `ImportIsWholeOrNothing`
and a part of `AttemptsConverge` are action properties; `StopIsFinal`,
`StopIsForGood`, `InstallIsAnswered`, `InstallsSettle`, `QueuedIsServed` and
`AttemptsConverge` are (or contain) liveness properties.

Eight runs check what a comment, a test or a text of the interface says and the
code does not do; `findings` quotes the line and explains the counterexample.

| Run | Says | Violated because |
|---|---|---|
| `queue_halt` | a session problem stops the queue (shell `delivery.rs:239`) | the worker looks at the queue again and kicks itself |
| `queue_duplicate` | one unfinished job per work (`delivery.rs:283`) | a failed job counts as finished and can be retried |
| `queue_interrupted` | interrupted jobs keep their archives (`delivery.rs:246`) | the archives are deleted before the last save |
| `queue_cancel_race` | what is cancelled is not run (`delivery.rs:536`) | the decision is made on a row read earlier |
| `voice_queue` | a voice queue over enough works opens (`media.rs:111`) | paths are unique per session, not per work |
| `installation_rows` | a row's status matches its halves (`installation.rs:283`) | a review and a rescan each write a status for what they read |
| `audio_place` | continue where you left off (`common.json:216`) | the end of the first file completes the session |
| `views_cross` | the interface keeps the newest view (shell `delivery.rs:177`) | the held view is evaluated before the await |

**Bounds**, and why they are enough for the questions asked:

- *Queue*: two worker threads are the most that overlap (one leaving, one
  kicked); two callers give every pair of racing commands; two jobs of one work
  give the duplicate and the job after a stop; four commands allow install,
  failure, retry and another caller's stop; one restart and, with three of the
  commands, one failing write come at any step (`CONSTRAINT FourEvents`). In
  `activities` (liveness): one caller, three commands, no restart, no failing
  write: under writes that fail for ever no job is served.
- *Transfer*: three blocks in ranges of two give a full and a short range and a
  part that ends inside one; attempts, crashes and changes are not bounded.
- *Release*: two manifests of one size and a spoiled one, two archives, two
  runs, two events; *views*: two changes, two jobs.
- *Package*: two preparations of two installations of one name with one
  alternative name meet a recorded, an interrupted and a user's folder; one
  crash, one visitor. What follows an inspection or a cleanup that met a
  preparation is not explored (`CONSTRAINT Unmet`): from there the three
  properties claim nothing, and `TypeOK` is proved. *Moves*: two files, movers
  and names, one fault, one stop. *Source cleanup*: two volumes, two deletions,
  two faults, two stops. *Maintenance*: two callers, one repair, one act of the
  user, one stop. *Extraction*: listings of up to three entries, one
  replacement or fault. *Covers*: two covers of up to the limit's size, one
  fault, one stop.
- *Generations*: one generation beside the embedded one, of its snapshot or of
  another, two batches of the index, two rebuilds, one fault, one restart.
  *Import*: two packages and every way to spoil them that the reader
  distinguishes.
- *Scanner*: two sessions over two files and a folder, one fault, restart and
  change; *findings*: up to three of seven files chosen for the set rules, of
  three one at least pointing to no work, two adds, two catalog works; *rows*:
  one row, two callers, four calls; *add*: three picked works (two volumes and
  another archive, and an archive that can never be added) in one pick of
  archives or one folder, two batches; *browse*: three catalogs of up to four
  works that tie in every order but the code, the last two of one snapshot,
  rows that share a name and names that only the index takes for one, pages of
  two.
- *Launch*: two attempts at one installation, two faults, one restart;
  *connector*: two pauses, three attempts, one fault; *scan installs*: two
  works, two adds, one preparation beside them, one fault; *Android*: three
  packages of one name, two selections, one operation, one crash.
- *Media*: two installations, two sessions, two callers, four calls, a restart;
  *video*: two windows, two openers, a closer; *protocol*: files of up to three
  bytes, ranges of two; *players*: a sound work and a video of two files of two
  seconds, three acts in the dock, four on the page (enough to leave it, come
  back to the kept answer and act there), one in each, or two and one failure;
  *own works*: one work, two pictures, two callers, one event;
  *classification*: every folder of up to three of fourteen files, one move,
  one new installation.

Deadlock is not checked: the launcher rests when nobody asks for anything, and
a bounded environment stops asking. What must go on is a liveness property.

**Fairness.** Weak fairness of the steps of threads that are running: worker
and command threads of the queue, the transfer's `fetch`, `launch` and monitor
threads, the supervisor, `Kill` and `Join` of the connector's stop, the holder
of the preparation slot and the threads of the scan installs, the page's poll
and the calls of the Android plugin. The operating system schedules a thread
that can run, and every request ends because the clients have connect, response
and body timeouts (`client.rs:130`). A process that was told to die exits, an
Android session is answered or dropped by the system, half a minute passes.
Commands of the user, faults, restarts and other programs are never fair.

## 4. The proofs

Proved by TLAPS for every value of the constants, under the named assumption of
the module on its bounds (they are naturals; an archive has at least one block,
a release one archive) or, where a module is instantiated and so states none,
under the hypothesis of the theorem. For each component one inductive invariant is
proved (`Init => IInv`, `IInv /\ [Next]_vars => IInv'`, with one lemma per
action or group of actions; the theorems named `...Inductive`), and the
properties are drawn from it. TLC checked every inductive invariant on a small
instance before it was proved.

| Module | Theorems | From |
|---|---|---|
| `DeliveryQueue_proofs` | `TypeCorrect`, `OneWorkerAlways`, `NothingStranded`, `EveryStopWasAsked`, `ProblemsAreCurrent` | places of threads and commands |
| | `PageKeepsUp` | somebody carries the newest view |
| `ArchiveTransfer_proofs` | `TypeCorrect`, `HashFollows`, `OnlyVerified` (an action property) | hash and sync |
| `PackageInstall_proofs` | `TypeCorrect`, `UserContentIsKept`, `PreparedStaysInstalled`, `ReplacementStaysUndoable` | structure of the folder, promises |
| `CatalogGenerations_proofs` | `TypeCorrect`, `ImplementsPromise` (the refinement), `MarkedServedAndSearched` | rows, claim, store, index |
| `Activities_proofs` | `OneProcessAtATime`, `StopStaysRecorded`, `LaunchTypeCorrect` | reaped before the row is let go |
| | `CancelledWorkIsGone`, `InstallTypeCorrect` | the one worker, a work is queued once |
| | `LaunchedStaysReviewed`, `AppTypeCorrect` | a number stands for one file |
| `Library_proofs` | `SessionsStayAgreed` | one open session of a work |
| | `SurfaceStaysOwned`, `VideoTypeCorrect` | ownership of windows |
| | `CreatedFromWhole`, `ScanTypeCorrect` | what a completed walk leaves |
| | `LibraryAnswersAll`, `RowsTypeCorrect` | untorn rows are valid |
| | `ReviewIsListed` | where a finding may come from |
| | `AnswersStayFitting` (an action property), `ServeTypeCorrect` | ranges cover an interval |
| `Storage_proofs` | `MovedWorkSurvives`, `MoveTypeCorrect` | what a mover may rely on |
| | `RestoredSetsAreWhole`, `CleanupTypeCorrect` | exactness of an undisturbed cleanup |
| | `InstallationStays`, `UpkeepTypeCorrect` | who may remove which folder |
| | `CacheKeepsItsLimit`, `CacheTypeCorrect` | the count never understates the bodies |
| | `UnpackedStaysListed` | what each phase has checked of the folder |
| `OwnWork_proofs` | `PicturesStay`, `TypeCorrect` | what a save that nothing met has checked |
| | `PlacesStayKept`, `PlayInductive` | what every player holds was heard |

**DeliveryQueue.** None of the safety properties is inductive. `PlaceInv` says
what a thread holds at its place (the published job, in which status, with a
problem that fits); without it a thread about to save could write anything.
`CommandInv` says that a stale row a command is about to write never looks
busy: commands refuse running jobs when they read, so whatever they overwrite
they cannot make a job look as if somebody ran it. `StopInv` ties raised flags
to the requests behind them: it is what a fresh control per run gives.

**ArchiveTransfer.** `HashInv == HashFollowsDisk /\ NothingFed /\ SyncedInv`:
nothing is fed before the part is looked at; at the comparison the part has
reached the disk; at the rename it matched. `TypeCorrect` needs it: a request
is measured by what was hashed and its reply is appended to what is on the
disk, so the part stays within the archive only because the two are equal.

**PackageInstall.** `IInv == Course /\ (~intruded => Contents /\ StagingOK /\
Promises)`. `Course` holds whatever is met: markers of one operation are in one
place (`MarkersOnce`, `MarkersKnown`), and what each actor remembers at each
place is true (`PrepareOK`, `InspectOK`, `CleanupOK`, `BackupsKnown`).
`Contents` says what each path may contain (a staging folder is an
installation's, a rejected one is a whole installation, a backup is the
user's), `StagingOK` what the running preparation has unpacked. `Promises` is
what the properties need: what is activated and not recorded is in place, an
undo undoes its own operation, a commit drops only what was given up, a
replaced content is in its backup, and recorded installations are in place.
The proof states the *effect* of every step on the folder once (`Effect`: at
most three paths change, in one of fourteen ways), so each conjunct is proved
per effect and not per action of each actor. Two steps may break a promise: the
rollback of an inspection that meets a preparation, and the cleanup's removal
of an entry of a tree it opened, if that tree has been activated or its
preparation runs. They are the steps that set `intruded`.

**CatalogGenerations.** Four facts carry the refinement: a row has its
directory, a claim is true of its generation (an import has no row until it
registers one), the store follows the operation along an activation and the way
back, and the active mark has a row. `ImplementsPromise` maps every step:
`Register` is the abstract import, `DeleteRow` the removal, `MoveMark` the
activation, a restart that finds the marked catalog unusable falls back, and
all others stutter. The index needs its own half (`AgreeInv`): what is on disk
was read from one generation of the snapshot it names (or is marked as torn),
what is reported ready is loaded, and a rebuild that is awaited belongs to the
activation that waits for it. `SnapshotsAreKnown`: what is served has a snapshot
id. With these `MarkInv` follows an activation from the store it replaced to the
mark: the rebuild it waits for reads its generation only, and no other index
takes the place of that one before the mark moves. So the mark is moved only
with an index of that very generation, although the code compares no more than
snapshot ids when it reports the index ready.

**DeliveryViews.** The newest revision is always on its way (`NewestIsCarried`):
a thread has made a change and not counted it, or is about to look, or holds a
view of that revision; an event has it; or the page. A page that still loads
has missed no change (`LoadsQuietly`). What is sent as revision `n` knows of
all changes that revision counts and, if nothing changed since, is what the
launcher holds (`Fits`), which is why the page may keep the greater number.

**Launch.** An attempt is followed from its call to its monitor. A process that
is the launcher's to watch has an active row (`OwnedIsRecorded`): the row leaves
the active statuses only once the process is over, so the check that begins a
launch keeps others away. A stop that was answered marks the monitor until the
last status is saved (`StopIsMarked`).

**ScanInstalls.** The flag keeps the worker single, a work is in the queue once
and is listed as waiting there, and the row of a work that is cancelled under
the worker goes before its last status is listed (`GoneBeforeListed`).

**AndroidPackages.** A selection number stands for one file wherever it is kept,
in the plugin, in a row, or in a call that waits; what is recorded as installed
is what a broadcast said of the file its session was given; what an association
or a launch in progress names was reviewed when it was saved. A late answer for
an older number then changes nothing of what is launched.

**NativeVideo.** Every step that lets a window go hands it to somebody (the
record, a call in progress, or the history of windows given up), so ownership
is inductive as it stands; that a viewport kept is one asked for needs to know
which labels are in use.

**Media.** Two commands never leave two sessions of a work open: each checks what
it read, and the unique index refuses the second save. The place of an open
session, the place a command is about to write back and the place a new session
takes up are each followed back to the last progress seen (`OpenIsThere`,
`CopyIsThere`, `NewTakesUp`).

**MediaProtocol.** Over any length, a range that is refused covers no byte and one
that is taken covers an interval, of which the answer is the first part; the
bytes are as many as announced when the file is still the one measured.

**Scanner.** Whatever is stored or waits to be stored of a session, that session
accepted (`AcceptedOnly`); while nothing failed, what it accepted is stored or
in the batch (`WalkIsKept`); what a completed session stored stays its result
although a later one takes over the entry rows (`CompletedIsKept`). So what is
created comes from all of a completed session (`CreatedOfCompleted`).

**Installations.** A row that no overlapping commands wrote is `Valid`, and so is
what each command in progress is about to write. Readers accept every such row,
in any order of reviews and rescans.

**LibraryAdd.** While a batch is looked at, its list holds once each what the
sources looked at so far ask for (`FoundOnce`). The sources of one folder are
looked at together, and a work found for one of them is claimed from the others
(`FoldersAreShared`). The assumptions say what a pick is: folders or archives,
none twice, and findings with keys of their own.

**FolderTransfer.** After a mover listed the work, what it did not list is in
the install folder already (`Covers`), nothing leaves the install folder, and a
mover begins to remove the source only when all that is owed is placed. That
holds for any number of movers of one source, under the same name or not.

**SourceCleanup.** A cleanup that nothing overlapped puts back exactly what is
missing (`CleanupIsExact`), until nothing is missing; a deletion that starts in
between makes it no longer alone.

**Maintenance.** A running command removes only folders its own repair made, the
backup it displaced once the exchange is done, or a leftover it judged while the
recorded destination was the installation's; some whole folder of the
installation is none of those (`OneIsSafe`). For that the names of a repair must
be its own and new (`NamesAreNew`), a leftover known by its name must not be the
user's (`ReferredIsOurs`, `ForeignIsSafe`), and what a repair puts in place
must be all of the installation (`RepairIsWhole`).

**OwnWork.** That rows name stored pictures is not inductive: a save writes what
it checked some steps before and removes what it listed some steps before. The
invariant follows the save: one that nothing met is the only save of its work
(`AloneIsAlone`), what it has ticked off is still there (`CheckedIsThere`), and
what it removes in the end is not named by its row, which stays the row of the
work until somebody disturbs it (`WrittenIsKept`); that a row which names
something was saved (`RowsAreSaved`) makes every folder the prune takes count.
The hypothesis is that there is a work and that a request names one cover or
none, and samples, of the pictures.

**Playback.** `PlayIInv` says that all a player holds was heard (`Heard`: played,
chosen, or taken from the store): the places in the pending writes of the dock,
of the page and of the page before it, the place of a file that plays, seeks or
was brought to its place (`SourceIsHeard`), and what the page shows
(`PageIsHeard`). A place the dock was asked for waits in the ref until the file
that was asked for can take it (`PendingFits`); that is lost only when metadata
arrives between an answer's change of state and its render, or the settings of
another session are taken, which `crossed` remembers. The last place the page
reported is in the page, else in its last pending write, else in that of the
page it left, else in the store (`DueIsCarried`). A kept answer of the query
only adds a place to what was heard.

**CoverCache.** The limit is kept by a count in memory, and the count is kept by
differences, so the proof is about sums: `SumOf` is what the folds of the
community modules compute, any element may be taken out first
(`SumTakesOut`), and a part has no greater sum than the whole (`SumOfPart`).
The invariant: the request that holds the lock has written its body and
remembers the size of the old one; with that one in its place, the bodies take
no more than the count says, and no more than the limit. Between two steps of
a write the new body is not counted yet; that is the only time the bodies may
take more, and the lock is held.

**Extraction.** Of an archive that nobody replaced the listing is that of the
scan (`IsListed`), its entries have names of their own, and each file below the
staging folder is that of an entry already passed (`FilesAreEntries`); of a
replaced one nothing is known until the final comparison, and that comparison
is what the later phases keep (`CheckedMatches`). Contents follow when every
volume was compared with its hash and is still the one compared
(`HashedIsScanned`). For the progress, a running tool only adds to what it is
measured by, so what was published is never more than the next measurement
(`ToolCounts`: a percentage kept as the greatest read, between 0 and 100 for any
line printed; the sum of the files written), and the ZIP reader has counted at
most the entries it passed (`ZipCounts`). The assumption `ExtractBounds` says
that archives are sequences of entries and a request names a reader and known
volumes of its own.

Where a proof needs induction, as for sums and for the order of findings, it
takes a least counterexample (`NatLessThanWellFounded` and `WFMin`); the
library's induction theorems take an operator as a parameter, which no backend
can instantiate.

**Only model-checked.**

- Liveness (`StopIsFinal`, `StopIsForGood`, `InstallIsAnswered`,
  `InstallsSettle`, `QueuedIsServed`, `AttemptsConverge`): the prover does not
  treat fairness and `ENABLED`.
- What recursive operators compute (`CatalogBrowse`, `CatalogImport`,
  `Detection`, `ScanFindings`, `ReleaseDelivery`): the prover refuses modules
  that declare one. `AnswersAgree`, `ImportIsWholeOrNothing`,
  `FilesAreRecognised`, `AddedIsListed` and `DeliveredIsAsked` rest on such
  definitions.
- `OnePlays`: not inductive in a way that can be stated locally. That a late
  `ended` does not start a second player rests on the order in which one media
  element sends its events, which `Playback` has in the order of its actions
  and not in its state.
- The types of the items of a media session and of the jobs of an add batch
  (`MediaTypeOK`, `AddTypeOK`): they go through sequences that operators of the
  community modules build. The proofs of those components state the types they
  need themselves.

## 5. The plan

Done: all components of section 1 except the last row are modelled and checked;
eight modules of proofs, for all safety invariants but those named at the end
of section 4. Next, in this order:

1. `Playback`: for `OnePlays`, events of one element as a queue in the state.
2. `Connector`: that no child survives a stop, the safety part of
   `StopIsForGood`.

## 6. Observations

What the models show and no run states, because the code promises nothing
about it or the wording of a comment is not definite.

*Downloads.* The first save of a run failing makes the worker leave, see a
queued job and kick itself, without a pause, for as long as the database
refuses writes (`delivery.rs:371`); the model bounds failing writes. A failure
of power that loses the rename of a finished archive and keeps the queue's
record leaves a job that skips an archive it does not have. A manifest removed
between list and read ends the whole lookup with `NotInArchive`. Recorded
places are never looked up again: a job whose archive moved on the service
fails at every retry until it is removed and queued again. Known digests are
remembered at installation, not at verification (`delivery.rs:507`). Two
rewrites of a manifest within a second that return to a size could serve a
stale month. Of two files with one digest in a month the later name shadows the
other, even if its recorded size is wrong. In the interface: an install view
that reaches the page by a reply before its event does not invalidate the
library query; a change emitted between a read's view and the registration of
the listener is lost until the next; an event whose view cannot be read, or
which cannot be emitted, is dropped with a line in the log
(`src-tauri/src/delivery.rs:311`), so the page keeps the older view until the
next change: `DeliveryViews` always sends it, and `ViewsKeepUp` is about the
order of what is sent; Escape during a pending sign-in does not cancel the
install; a job that fails again right after a retry may not be announced; a
sign-in stores its account after a sign-out made meanwhile, and the worker
signs the new session out on an old request's 401.

*Packages.* An inspection of the destination is not kept apart from a running
preparation (`package_preparation.rs:366`): it takes an activated, unrecorded
replacement for an interrupted one and rolls it back; the preparation then
saves its row and deletes the archives (text at `common.json:516`). No screen
prepares with a replacing policy at this commit. A stop between the rename of
the old content and the activation leaves it under its `.dla-replaced-` name,
which nothing moves back; one between an activation without replacement and its
record leaves a folder later preparations refuse as already managed. The
cleanup looks for a running preparation once (`commands.rs:483`) and then
removes staging folders entry by entry (`maintenance.rs:395`): a tree it opened
can be verified, activated and recorded while it goes on, so a recorded
installation can lack files. `PreparedIsInstalled` and its theorem claim
nothing once that has begun. UnRAR's
progress counts the staging marker; a replaced ZIP can push counters past the
total; whole names are compared only at the archive's root; the ZIP reader
follows a link the later check refuses; ZIP entries are taken by index, so
names are not compared when an archive is replaced by one of equal sizes and no
hash is known. A crash of a single-file move leaves an empty folder that blocks
the name; `.dla-stage-add-` leftovers are never cleaned; files added, or edited
to the same size, after the listing of a move are removed with the source.
A source cleanup overlapping a deletion can put one volume back while the rest
is destroyed. A cleanup or removal racing an unregistered repair puts an
incomplete folder in place; a relocation to a leftover followed by a cleanup
deletes the recorded installation; a repair deletes the user's extra files with
the backup. The cover cache keeps to its size, not to its number of covers.

*Catalog.* The index knows its catalog by the snapshot id that the manifest
names (`dla-application/src/search.rs:318`, `dla-sqlite/src/import.rs:349`),
and two generations may carry one. Then the index of one is reported ready for
the other: after a stop between the rebuild and the mark (`engine.rs:397`,
`:404`), a restoring rebuild that fails, a start that cannot load the newest
index, or a rebuild of the user's that is cancelled, which puts the old status
back. `ReadyIndexIsTheCatalog` promises no more than the snapshot;
`MarkedIsIndexed` is what holds of the generation. A comment at
`dla-sqlite/src/catalog.rs:1867` ("each count is what picking that value would
give") holds only with the group's own exclusions lifted, and only for a name
that one row has: tags and circles are unique by name and English name
(`catalog.sql:10`, `:110`), counted by id (`catalog.rs:1720`) and picked by
name without case (`:2120`), so two rows of one name are two facets whose
counts are below the total of picking either. `CountsOfQuery` states what is
left: no count is above that total, and the counts of one name together reach
it. A value may be included and excluded at once. Browse compares names without
case in ASCII only, the index trims them and lowers all letters
(`dla-search-tantivy/src/lib.rs:683`): where two names differ only so, a search
finds works that the list leaves out, and `SearchFindsTheList` leaves such
selections out. A search between the two replacements of an activation asks the
index of the former catalog when both have one snapshot. The search by archive
hash ignores facets and has no order. Counts of a month leave out synthetic
works, its list does not; day buckets drop invalid dates. A text search
disturbed by a new catalog drops unknown codes while its total stays; pages of
two catalogs mix until they are invalidated. Of two works that are each other's
parent both list the other as child. In an import the text fields of a work
after its first ROM are refused; a work that names two values of one stable
code, or a tag twice, fails the import; the row counts of contents overwrite
the enrichment's; a cancel after COMMIT leaves a committed candidate that is
discarded; dates are compared as text.

*Library.* Candidate ids collide when a counted name meets a file's own
(`a-2.pdf`, `a.pdf`, `sub/a.pdf`) and the add is refused. Rechecking an action
saves the whole row it read, over a relocation saved meanwhile. A folder with
two PDFs and two numbered images starts its images, the same in an archive
opens the PDF (`media.rs:545`, `installation.rs:361`). One package without an
action whose folder cannot be read fails the listing of all. Of the checksums
only one algorithm is used, the strongest any candidate of the size has. List
and add disagree for an archive whose first volume is unmatched while a
continuation matches and an unreviewed row of the root exists; two folders of
one work both map to that row; a finding may be ready while its add refuses,
because the scope takes in archives of other works. A later scan of a root
takes the files from the listing of an older session. Cancelling after the
unpacking leaves the folder; a failing end of a scan leaves its session running
until the restart; a confirmation writes overrides from an earlier read; a
relocated unmanaged installation refuses refreshes. The scan thread of a
cancelled batch writes its findings into the next one, and can leave it in
its scanning phase; a batch cancelled between the runner's look at a job
(`library_add.rs:381`) and `job_running` runs that job although it is over
(`library_add.rs:514`). Of own works: two overlapping saves may leave a row
naming a picture the other removed; the prune of the start may remove the
folder of a work added after it listed; a picture can be imported, through a
list read earlier, for a work no longer installed; importing an aged picture
again does not make it young.

*Running and playing.* A late result of an older Android selection makes
`validate_state` refuse every operation until the new copy is a day old, or for
good for a blocked package; a crash between `createSession` and the commit
leaves the page preparing for days; a launch recorded between the read and the
save of an association is lost from its count, a removal in between is undone;
the selection is lost when a rename fails after it was cleared. In the players:
a late answer to a change of queue settings is taken without a look at the
session; an answer to an opening that arrives after a video page came up, or a
failing close, lets both play; an opening answered before a pending close gives
the dock a session that is closed under it; a video page mounted again within
five minutes begins where its first opening was, not where it was left, and
saves from there; after `Back` it shows the session that was closed: its files
and its writes are refused, and going back fails with an error of the save
(`MediaSessionPage.tsx:61`, `ui/src/main.tsx:33`); closing the dock does not wait for
queued progress; a late progress answer may show older settings; after the last
video of a session completed, choosing an item is refused until it is opened
again; the provider's step ignores "repeat all".

## 7. Not modelled

Parsing and formatting, decompression, hashing and image decoding; HTTP and
TLS; the content of the search index and its ranking; layout, texts and
keyboard of the interface; single-row services (personalization, shelves,
recommendations), the assembly of the support report, tray, updates and the
main window. In the modelled components: the tidying of staging folders on
other drives, the shutdown of the preparation controller, the browsing of a
session's entries and the ignore list of scans, how a launch target is resolved
below its root, subtitles and conversions of archive members, the arguments of
the connector's command. Crashes of one component in the middle of another's
operation are modelled where they share a folder or a row, as described in
section 2; the composition of extraction and activation, and of transfer and
queue, is not.
