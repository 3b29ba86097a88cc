-------------------------- MODULE CatalogGenerations --------------------------
(***************************************************************************)
(* Catalogs and the search index over the active one.                      *)
(*                                                                         *)
(* Source: dla-catalog-import/src/engine.rs, dla-sqlite/src/               *)
(* catalog_generation.rs, the controllers src-tauri/src/catalog_import.rs  *)
(* and src-tauri/src/search.rs, dla-search-tantivy/src/lib.rs,             *)
(* dla-application/src/search.rs and the startup in src-tauri/src/lib.rs.  *)
(* One catalog operation runs at a time, claimed in the controller: an     *)
(* import builds a directory, renames it and registers a row; an activation *)
(* replaces the store in memory, rebuilds the index and then moves the     *)
(* active mark; a removal puts the directory aside, deletes the row and    *)
(* deletes the directory.  A rebuild of the index the user asked for has a *)
(* claim of its own, and shares only try_lock on the index with the others. *)
(*                                                                         *)
(* A generation has an identifier of its own, and the snapshot id that the *)
(* manifest of its package names: two generations may name the same one.   *)
(* The index knows the catalog it was built from by its snapshot id alone. *)
(***************************************************************************)
EXTENDS Naturals, Sequences, FiniteSets

CONSTANTS
    Generations,  \* identifiers of imported generations, never used again
    Snapshots,    \* snapshot ids the manifests name
    Shipped,      \* the snapshot id of the embedded catalog
    Batches,      \* batches a rebuild reads from the catalog
    Retain,       \* RETAIN_COMPLETE_GENERATIONS
    MaxBuilds,    \* bound: rebuilds of the index
    MaxFaults,    \* bound: failing reads, writes, opens, builds
    MaxRestarts   \* bound: restarts of the launcher

NoSnapshot == "no snapshot"

ASSUME SnapshotsAreNamed == Shipped \in Snapshots /\ NoSnapshot \notin Snapshots

ASSUME BoundsAreNumbers ==
    MaxBuilds \in Nat /\ MaxFaults \in Nat /\ MaxRestarts \in Nat

VARIABLES
    row,        \* rows of catalog_generation: "none", "available", "failed"
    dir,        \* a generation's directory: "none", "building", "whole", "deleting"
    active,     \* row of catalog_active_generation
    snapshotOf, \* the snapshot id a generation was registered with, or NoSnapshot
    store,      \* generation the reloadable store serves
    op,         \* the catalog operation that holds the claim, or NoOp
    cancelled,  \* its cancellation token
    rebuild,    \* the rebuild that holds rebuild_lock, or NoRebuild
    ui,         \* the rebuild the user asked for: "idle", "queued", "running"
    disk,       \* complete index generations on disk; a later one has the higher number
    loaded,     \* the index that answers queries, or NoIndex
    status,     \* the index's own status
    builds, faults, restarts,   \* bounds spent
    torn        \* history: indexes read from a store that was replaced meanwhile

vars == <<row, dir, active, snapshotOf, store, op, cancelled, rebuild, ui, disk, loaded, status,
          builds, faults, restarts, torn>>
catalog == <<row, dir, active, snapshotOf>>
index == <<disk, loaded, status, builds, torn>>

Embedded == "embedded"
All == Generations \cup {Embedded}
NoOp == [kind |-> "none"]
NoRebuild == [owner |-> "nobody"]
NoIndex == [n |-> 0]

\* The steps of an operation, in the order of the code.
Importing == {"build", "finish", "register"}
Replacing == {"rebuild", "rebuilding", "mark", "read", "restore"}
PuttingBack == {"reindex", "reindexing"}
Operations ==
    {NoOp} \cup [kind : {"import"}, gen : All, at : Importing]
           \cup [kind : {"import", "activate"}, gen : All, at : {"open"}]
           \cup [kind : {"import", "activate"}, gen : All, at : Replacing \cup PuttingBack,
                 previous : All]
           \cup [kind : {"remove"}, gen : All, at : {"delete", "clean"}]
Statuses ==
    [state : {"missing", "failed"}] \cup [state : {"building", "ready", "failed"}, of : Snapshots]
Indexes == [n : 1..MaxBuilds, of : Snapshots, from : Seq(All)]
Rebuilds ==
    {NoRebuild} \cup [owner : {"activation", "restore", "ui"}, of : Snapshots, from : Seq(All),
                      before : Statuses]

TypeOK ==
    /\ row \in [All -> {"none", "available", "failed"}]
    /\ dir \in [All -> {"none", "building", "whole", "deleting"}]
    /\ snapshotOf \in [All -> Snapshots \cup {NoSnapshot}]
    /\ active \in All /\ store \in All
    /\ op \in Operations /\ cancelled \in BOOLEAN
    /\ rebuild \in Rebuilds /\ ui \in {"idle", "queued", "running"}
    /\ disk \subseteq Indexes /\ loaded \in {NoIndex} \cup Indexes /\ status \in Statuses
    /\ builds \in 0..MaxBuilds /\ torn \subseteq 1..MaxBuilds
    /\ faults \in 0..MaxFaults /\ restarts \in 0..MaxRestarts

Init ==
    /\ row = [g \in All |-> IF g = Embedded THEN "available" ELSE "none"]
    /\ dir = [g \in All |-> IF g = Embedded THEN "whole" ELSE "none"]
    /\ snapshotOf = [g \in All |-> IF g = Embedded THEN Shipped ELSE NoSnapshot]
    /\ active = Embedded /\ store = Embedded
    /\ op = NoOp /\ cancelled = FALSE /\ rebuild = NoRebuild /\ ui = "idle"
    /\ disk = {} /\ loaded = NoIndex /\ status = [state |-> "missing"]
    /\ builds = 0 /\ faults = 0 /\ restarts = 0 /\ torn = {}

\* A step that may fail, at most MaxFaults times.
Outcome(ok) == IF ok THEN UNCHANGED faults ELSE faults < MaxFaults /\ faults' = faults + 1

At(kind, at) == op.kind = kind /\ op.at = at
Goes(at) == op' = [op EXCEPT !.at = at]

-----------------------------------------------------------------------------
(* Importing: a directory of its own name, renamed when it is whole, and a *)
(* row.  Every error removes the directory.                                *)

\* claim: no operation is active.
Claim(o) == op = NoOp /\ op' = o /\ cancelled' = FALSE

StartImport(g) ==
    /\ snapshotOf[g] = NoSnapshot /\ dir[g] = "none"
    /\ Claim([kind |-> "import", gen |-> g, at |-> "build"])
    /\ UNCHANGED <<catalog, store, rebuild, ui, index, faults, restarts>>

CreateBuilding ==
    /\ At("import", "build")
    /\ dir' = [dir EXCEPT ![op.gen] = "building"]
    /\ Goes("finish")
    /\ UNCHANGED <<row, active, snapshotOf, store, cancelled, rebuild, ui, index, faults, restarts>>

\* The payloads and the checks of the candidate: they fail, or are cancelled.
FinishBuilding(ok) ==
    /\ At("import", "finish") /\ Outcome(ok)
    /\ IF ok /\ ~cancelled
       THEN dir' = [dir EXCEPT ![op.gen] = "whole"] /\ Goes("register")
       ELSE dir' = [dir EXCEPT ![op.gen] = "none"] /\ op' = NoOp
    /\ UNCHANGED <<row, active, snapshotOf, store, cancelled, rebuild, ui, index, restarts>>

\* The row, with the snapshot id of the manifest.
Register(ok) ==
    /\ At("import", "register") /\ Outcome(ok)
    /\ IF ok THEN /\ row' = [row EXCEPT ![op.gen] = "available"]
                  /\ \E id \in Snapshots : snapshotOf' = [snapshotOf EXCEPT ![op.gen] = id]
                  /\ Goes("open") /\ UNCHANGED dir
       ELSE dir' = [dir EXCEPT ![op.gen] = "none"] /\ op' = NoOp /\ UNCHANGED <<row, snapshotOf>>
    /\ UNCHANGED <<active, store, cancelled, rebuild, ui, index, restarts>>

-----------------------------------------------------------------------------
(* Activating: activate_summary.                                           *)

StartActivation(g) ==
    /\ row[g] # "none"
    /\ Claim([kind |-> "activate", gen |-> g, at |-> "open"])
    /\ UNCHANGED <<catalog, store, rebuild, ui, index, faults, restarts>>

\* An import whose activation failed is marked so.
MarkFailed ==
    row' = IF op.kind = "import" THEN [row EXCEPT ![op.gen] = "failed"] ELSE row

\* A rebuild under way will read the rest of its batches from the new store.
TearRebuild == torn' = IF rebuild = NoRebuild THEN torn ELSE torn \cup {builds}

OpenCandidate(ok) ==
    /\ op.kind \in {"import", "activate"} /\ op.at = "open"
    /\ IF cancelled THEN op' = NoOp /\ ok /\ UNCHANGED <<row, store, torn, faults>>
       ELSE /\ Outcome(ok)
            /\ IF ok
               THEN /\ op' = [kind |-> op.kind, gen |-> op.gen, at |-> "rebuild",
                             previous |-> store]
                    /\ store' = op.gen /\ TearRebuild /\ UNCHANGED row
               ELSE op' = NoOp /\ MarkFailed /\ UNCHANGED <<store, torn>>
    /\ UNCHANGED <<dir, active, snapshotOf, cancelled, rebuild, ui, disk, loaded, status, builds,
                   restarts>>

\* run_rebuild up to the first batch: try_lock, the snapshot, "building".
BeginRebuild(owner) ==
    /\ builds < MaxBuilds /\ builds' = builds + 1
    /\ rebuild' = [owner |-> owner, of |-> snapshotOf[store], from |-> <<>>, before |-> status]
    /\ status' = [state |-> "building", of |-> snapshotOf[store]]

\* search.rebuild of the new catalog, refused while another one runs.
RebuildForActivation ==
    /\ op # NoOp /\ op.at = "rebuild"
    /\ IF rebuild = NoRebuild
       THEN BeginRebuild("activation") /\ Goes("rebuilding")
       ELSE Goes("restore") /\ UNCHANGED <<rebuild, status, builds>>
    /\ UNCHANGED <<catalog, store, cancelled, ui, disk, loaded, torn, faults, restarts>>

\* activate_catalog_generation, and the read of the row that is returned.
MoveMark(ok) ==
    /\ op # NoOp /\ op.at = "mark" /\ Outcome(ok)
    /\ IF ok THEN /\ active' = op.gen /\ row' = [row EXCEPT ![op.gen] = "available"]
                  /\ Goes("read")
       ELSE Goes("restore") /\ UNCHANGED <<active, row>>
    /\ UNCHANGED <<dir, snapshotOf, store, cancelled, rebuild, ui, index, restarts>>

ReadBack(ok) ==
    /\ op # NoOp /\ op.at = "read" /\ Outcome(ok)
    /\ op' = NoOp
    /\ IF ok THEN UNCHANGED row ELSE MarkFailed
    /\ UNCHANGED <<dir, active, snapshotOf, store, cancelled, rebuild, ui, index, restarts>>

\* (Wrong form.) The store is left to the next activation.
KeepStore == UNCHANGED <<store, torn>>

PutBack == store' = op.previous /\ TearRebuild

\* restore_previous: the store, and the index once more; when that is refused
\* the activation ends there.
RestorePrevious ==
    /\ op # NoOp /\ op.at = "restore"
    /\ PutBack
    /\ op' = [op EXCEPT !.at = "reindex"]
    /\ UNCHANGED <<catalog, cancelled, rebuild, ui, disk, loaded, status, builds,
                   faults, restarts>>

RebuildForRestore ==
    /\ op # NoOp /\ op.at = "reindex"
    /\ IF rebuild = NoRebuild
       THEN BeginRebuild("restore") /\ Goes("reindexing") /\ UNCHANGED row
       ELSE op' = NoOp /\ MarkFailed /\ UNCHANGED <<rebuild, status, builds>>
    /\ UNCHANGED <<dir, active, snapshotOf, store, cancelled, ui, disk, loaded, torn, faults,
                   restarts>>

-----------------------------------------------------------------------------
(* Removing: remove_generation.                                            *)

StartRemoval(g) ==
    /\ g # Embedded /\ row[g] # "none" /\ active # g /\ dir[g] # "deleting"
    /\ Claim([kind |-> "remove", gen |-> g, at |-> "delete"])
    /\ dir' = [dir EXCEPT ![g] = IF @ = "whole" THEN "deleting" ELSE @]
    /\ UNCHANGED <<row, active, snapshotOf, store, rebuild, ui, index, faults, restarts>>

\* delete_catalog_generation: not the active one.  An error, or a row that is
\* not deleted, puts the directory back.
DeleteRow(ok) ==
    /\ At("remove", "delete") /\ Outcome(ok)
    /\ IF ok /\ active # op.gen
       THEN row' = [row EXCEPT ![op.gen] = "none"] /\ Goes("clean") /\ UNCHANGED dir
       ELSE /\ dir' = [dir EXCEPT ![op.gen] = IF @ = "deleting" THEN "whole" ELSE @]
            /\ op' = NoOp /\ UNCHANGED row
    /\ UNCHANGED <<active, snapshotOf, store, cancelled, rebuild, ui, index, restarts>>

CleanDirectory(ok) ==
    /\ At("remove", "clean") /\ Outcome(ok)
    /\ op' = NoOp
    /\ dir' = IF ok THEN [dir EXCEPT ![op.gen] = "none"] ELSE dir
    /\ UNCHANGED <<row, active, snapshotOf, store, cancelled, rebuild, ui, index, restarts>>

CancelOperation ==
    /\ op.kind \in {"import", "activate"} /\ ~cancelled /\ cancelled' = TRUE
    /\ UNCHANGED <<catalog, store, op, rebuild, ui, index, faults, restarts>>

-----------------------------------------------------------------------------
(* The search index: run_rebuild and cleanup_managed_generations.          *)

\* The index in use and the newest others, up to Retain.
Cleaned(all, used) ==
    LET newer(x) == {y \in all : y.n > x.n /\ y.n # used.n}
        room == IF \E x \in all : x.n = used.n THEN Retain - 1 ELSE Retain
    IN {x \in all : x.n = used.n \/ Cardinality(newer(x)) < room}

UiStart ==
    /\ ui = "idle" /\ ui' = "queued"
    /\ UNCHANGED <<catalog, store, op, cancelled, rebuild, index, faults, restarts>>

UiBegin ==
    /\ ui = "queued"
    /\ IF rebuild = NoRebuild THEN BeginRebuild("ui") /\ ui' = "running"
       ELSE ui' = "idle" /\ UNCHANGED <<rebuild, status, builds>>
    /\ UNCHANGED <<catalog, store, op, cancelled, disk, loaded, torn, faults, restarts>>

\* One batch, from the catalog that is served now.
ReadBatch ==
    /\ rebuild # NoRebuild /\ Len(rebuild.from) < Batches
    /\ rebuild' = [rebuild EXCEPT !.from = Append(@, store)]
    /\ UNCHANGED <<catalog, store, op, cancelled, ui, index, faults, restarts>>

\* Whoever asked for the rebuild goes on when it ends.
Resume(ok) ==
    CASE rebuild.owner = "ui" -> ui' = "idle" /\ UNCHANGED <<op, row>>
      [] rebuild.owner = "activation" ->
           Goes(IF ok THEN "mark" ELSE "restore") /\ UNCHANGED <<ui, row>>
      [] rebuild.owner = "restore" -> op' = NoOp /\ MarkFailed /\ UNCHANGED ui

\* The rename, the load and the cleanup.  The generations of this model have
\* equally many works, so the count does not tell them apart.
CompleteRebuild ==
    /\ rebuild # NoRebuild /\ Len(rebuild.from) = Batches
    /\ LET built == [n |-> builds, of |-> rebuild.of, from |-> rebuild.from]
       IN /\ loaded' = built /\ disk' = Cleaned(disk \cup {built}, built)
          /\ status' = [state |-> "ready", of |-> rebuild.of]
    /\ rebuild' = NoRebuild /\ Resume(TRUE)
    /\ UNCHANGED <<dir, active, snapshotOf, store, cancelled, builds, torn, faults, restarts>>

\* An error, or a cancellation by the user, which puts the status back.
FailRebuild(cancel) ==
    /\ rebuild # NoRebuild
    /\ cancel => rebuild.owner = "ui"
    /\ Outcome(cancel)
    /\ status' = IF cancel THEN rebuild.before ELSE [state |-> "failed", of |-> rebuild.of]
    /\ rebuild' = NoRebuild /\ Resume(FALSE)
    /\ UNCHANGED <<dir, active, snapshotOf, store, cancelled, disk, loaded, builds, torn, restarts>>

\* SearchIndexController::cleanup.
CleanSearchCache ==
    /\ ui = "idle" /\ rebuild = NoRebuild
    /\ disk' = Cleaned(disk, loaded) /\ disk' # disk
    /\ UNCHANGED <<catalog, store, op, cancelled, rebuild, ui, loaded, status, builds,
                   faults, restarts, torn>>

-----------------------------------------------------------------------------
(* A restart: the active store, the index, clean_abandoned_imports.        *)

\* (Wrong form.) What was put aside for removal is removed.
DropAside(g) == IF dir[g] \in {"building", "deleting"} THEN "none" ELSE dir[g]

\* A generation put aside whose row is still there comes back.
CleanAbandoned(g) ==
    CASE dir[g] = "building" -> "none"
      [] dir[g] = "deleting" -> IF row[g] # "none" THEN "whole" ELSE "none"
      [] OTHER -> dir[g]

\* load_latest_generation: the newest index, one that cannot be loaded is passed over.
Load(x) == loaded' = x /\ status' = [state |-> "ready", of |-> x.of]
Newest(some) == {x \in some : \A y \in some : y.n <= x.n}

LoadLatest(ok) ==
    IF disk = {} THEN loaded' = NoIndex /\ status' = [state |-> "missing"]
    ELSE \E newest \in Newest(disk) :
           IF ok THEN Load(newest)
           ELSE IF disk = {newest} THEN loaded' = NoIndex /\ status' = [state |-> "failed"]
           ELSE \E next \in Newest(disk \ {newest}) : Load(next)

Restart(opens, loads) ==
    /\ restarts < MaxRestarts /\ restarts' = restarts + 1
    /\ Outcome(opens /\ loads)
    /\ ~opens => active # Embedded
    /\ active' = IF opens THEN active ELSE Embedded
    /\ store' = active'
    /\ row' = IF opens THEN row ELSE [row EXCEPT ![active] = "failed", ![Embedded] = "available"]
    /\ dir' = [g \in All |-> CleanAbandoned(g)]
    /\ LoadLatest(loads) /\ disk' = Cleaned(disk, loaded')
    /\ op' = NoOp /\ cancelled' = FALSE /\ rebuild' = NoRebuild /\ ui' = "idle"
    /\ UNCHANGED <<snapshotOf, builds, torn>>

Next ==
    \/ \E g \in Generations : StartImport(g)
    \/ \E g \in All : StartActivation(g) \/ StartRemoval(g)
    \/ \E ok \in BOOLEAN :
         \/ FinishBuilding(ok) \/ Register(ok) \/ OpenCandidate(ok) \/ MoveMark(ok) \/ ReadBack(ok)
         \/ DeleteRow(ok) \/ CleanDirectory(ok) \/ FailRebuild(ok)
         \/ \E loads \in BOOLEAN : Restart(ok, loads)
    \/ CreateBuilding \/ RebuildForActivation \/ RestorePrevious \/ RebuildForRestore
    \/ CancelOperation \/ UiStart \/ UiBegin \/ ReadBatch \/ CompleteRebuild \/ CleanSearchCache

Spec == Init /\ [][Next]_vars

-----------------------------------------------------------------------------
(* Properties.                                                             *)

\* The catalogs the user has: a row, and the directory it needs.
Kept == {g \in All : row[g] # "none" /\ dir[g] \in {"whole", "deleting"}}

Promise == INSTANCE CatalogPromise WITH kept <- Kept, active <- active

\* Imports, activations and removals happen at once or not at all: a crash
\* between the steps of any of them, or a step that fails, leaves every catalog
\* with a row its directory, and the active one is among them.
KeepsPromise == Promise!Spec

\* The catalog that is served is the one that is marked active whenever no
\* operation is running, so a failed activation shows nothing of itself and a
\* restart changes nothing the user sees.
ServedIsMarked == op = NoOp => store = active

\* CatalogSearchService::status.

\* (Wrong form.) The index's own word is taken for it.
OwnStatus == status.state

SearchStatus ==
    IF status.state = "ready" /\ status.of # snapshotOf[store] THEN "stale" ELSE status.state

\* An index that is reported ready was read whole from one generation, of the snapshot
\* of the one that is served (from that one itself where no other has its snapshot), and
\* is on disk for the next start; unless the store was replaced while it was being built.
ReadyIndexIsTheCatalog ==
    SearchStatus = "ready" =>
        /\ loaded \in disk
        /\ \/ loaded.n \in torn
           \/ \E g \in All : /\ snapshotOf[g] = snapshotOf[store]
                            /\ \A b \in DOMAIN loaded.from : loaded.from[b] = g

\* Whatever the snapshots are, an activation moves the mark only to a generation that
\* the index in use was read from, all of it: neither a rebuild that the user asked for,
\* nor a cleanup, nor a store replaced meanwhile comes between the index and the mark.
MarkedIsIndexed ==
    op # NoOp /\ op.at \in {"mark", "read"} =>
        loaded \in disk /\ \A b \in DOMAIN loaded.from : loaded.from[b] = op.gen

\* The mark, the catalog that is served and the index that answers a search are of one
\* generation when an activation ends, and of one snapshot whenever a search is answered.
ServedAndSearchedAgree == ServedIsMarked /\ ReadyIndexIsTheCatalog /\ MarkedIsIndexed
=============================================================================
