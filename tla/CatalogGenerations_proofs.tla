---------------------- MODULE CatalogGenerations_proofs ----------------------
(***************************************************************************)
(* Proofs about CatalogGenerations, for any set of generations, any number *)
(* of batches, rebuilds, failing steps and restarts: the state is well     *)
(* typed, the rows and directories with their active mark implement        *)
(* CatalogPromise step by step, the catalog that is marked and the one     *)
(* that is served agree, the index that answers a search is of one         *)
(* generation with the snapshot of that one, and an activation marks only  *)
(* what it has indexed.                                                    *)
(***************************************************************************)
EXTENDS CatalogGenerations, TLAPS

-----------------------------------------------------------------------------
(* The inductive invariant.                                                *)

\* What the database, the directories and the claim are about.
CatalogTypes ==
    /\ row \in [All -> {"none", "available", "failed"}]
    /\ dir \in [All -> {"none", "building", "whole", "deleting"}]
    /\ active \in All /\ store \in All /\ op \in Operations /\ cancelled \in BOOLEAN
    /\ faults \in 0..MaxFaults /\ restarts \in 0..MaxRestarts

\* A row has the directory it needs, the active catalog and the embedded one have
\* a row: what a restart starts from.
RowsHaveDirectories ==
    /\ \A g \in All : row[g] # "none" => dir[g] \in {"whole", "deleting"}
    /\ row[Embedded] # "none" /\ row[active] # "none"

\* What an operation knows of its generation while it holds the claim: an import
\* has no row before it registers one, an activation and a removal start from a row.
ClaimIsTrue ==
    /\ op # NoOp => (row[op.gen] = "none") = (op.at \in Importing \cup {"clean"})
    /\ op # NoOp /\ op.at = "register" => dir[op.gen] = "whole"
    /\ op # NoOp /\ op.kind = "remove" => op.gen # Embedded

\* The store that is served, along an activation and the way back from it.
StoreFollowsOperation ==
    IF op # NoOp /\ op.at \in Replacing
    THEN /\ store = op.gen
         /\ active = IF op.at = "read" THEN op.gen ELSE op.previous
    ELSE store = active

CatalogInv == CatalogTypes /\ RowsHaveDirectories /\ ClaimIsTrue /\ StoreFollowsOperation

\* What the index is about.
IndexTypes ==
    /\ rebuild \in Rebuilds /\ ui \in {"idle", "queued", "running"}
    /\ disk \subseteq Indexes /\ loaded \in {NoIndex} \cup Indexes /\ status \in Statuses
    /\ builds \in 0..MaxBuilds /\ torn \subseteq 1..MaxBuilds

\* An index was read from one generation with the snapshot it names, unless it was torn.
ReadFrom(n, of, from) ==
    \/ n \in torn
    \/ \E g \in All : snapshotOf[g] = of /\ \A b \in DOMAIN from : from[b] = g

IndexesAreRead == \A d \in disk : ReadFrom(d.n, d.of, d.from)

\* A rebuild goes on reading the catalog it began with.
RebuildIsRead ==
    rebuild # NoRebuild =>
        /\ builds > 0
        /\ \/ builds \in torn
           \/ /\ rebuild.of = snapshotOf[store]
              /\ \A b \in DOMAIN rebuild.from : rebuild.from[b] = store

\* The index in use is on disk, and a status that says ready is its own; so is the one
\* that comes back when a rebuild is cancelled.
StatusIsOf(s) == s.state = "ready" => loaded \in disk /\ s.of = loaded.of

IndexIsKept ==
    /\ loaded = NoIndex \/ loaded \in disk
    /\ StatusIsOf(status)
    /\ rebuild # NoRebuild => StatusIsOf(rebuild.before)

IndexInv == IndexTypes /\ IndexesAreRead /\ RebuildIsRead /\ IndexIsKept

\* The operation waits for the rebuild it began.
RebuildIsAwaited ==
    /\ rebuild # NoRebuild /\ rebuild.owner = "activation" => op # NoOp /\ op.at = "rebuilding"
    /\ rebuild # NoRebuild /\ rebuild.owner = "restore" => op # NoOp /\ op.at = "reindexing"

AgreeInv == CatalogInv /\ IndexInv /\ RebuildIsAwaited

\* A generation gets its snapshot id with its row, once: an import that has no row yet
\* is of a generation that has none.
SnapshotsAreKnown ==
    /\ snapshotOf \in [All -> Snapshots \cup {NoSnapshot}]
    /\ \A g \in All : row[g] # "none" => snapshotOf[g] # NoSnapshot
    /\ op # NoOp /\ op.at \in Importing => snapshotOf[op.gen] = NoSnapshot

IInv == AgreeInv /\ SnapshotsAreKnown

-----------------------------------------------------------------------------
(* Operations, rebuilds and what a step does to them.                      *)

\* Every operation has a generation and a step of its kind.
LEMMA OperationFields ==
    ASSUME NEW o \in Operations, o # NoOp
    PROVE  /\ o.gen \in All
           /\ o.at \in Importing \cup {"open"} \cup Replacing \cup PuttingBack
                      \cup {"delete", "clean"}
           /\ o.at \in Importing => o.kind = "import"
           /\ o.at = "open" => o.kind \in {"import", "activate"}
           /\ o.at \in Replacing \cup PuttingBack =>
                o.kind \in {"import", "activate"} /\ o.previous \in All
           /\ o.at \in {"delete", "clean"} <=> o.kind = "remove"
  <1>1. CASE o \in [kind : {"import"}, gen : All, at : Importing]
    BY <1>1 DEF Importing, Replacing, PuttingBack
  <1>2. CASE o \in [kind : {"import", "activate"}, gen : All, at : {"open"}]
    BY <1>2 DEF Importing, Replacing, PuttingBack
  <1>3. CASE o \in [kind : {"import", "activate"}, gen : All, at : Replacing \cup PuttingBack,
                    previous : All]
    BY <1>3 DEF Importing, Replacing, PuttingBack
  <1>4. CASE o \in [kind : {"remove"}, gen : All, at : {"delete", "clean"}]
    BY <1>4 DEF Importing, Replacing, PuttingBack
  <1> QED BY <1>1, <1>2, <1>3, <1>4 DEF Operations

\* An operation that takes the next of its steps stays the operation it is.
LEMMA OperationMoves ==
    ASSUME NEW o \in Operations, o # NoOp, NEW a, NEW p, p = [o EXCEPT !.at = a],
           \/ o.at \in Importing /\ a \in Importing \cup {"open"}
           \/ o.at \in Replacing \cup PuttingBack /\ a \in Replacing \cup PuttingBack
           \/ o.at = "delete" /\ a = "clean"
    PROVE  /\ p \in Operations /\ p # NoOp /\ p.gen = o.gen /\ p.kind = o.kind /\ p.at = a
           /\ o.at \in Replacing \cup PuttingBack => p.previous = o.previous
  <1>1. CASE o \in [kind : {"import"}, gen : All, at : Importing]
    <2>1. p = [kind |-> o.kind, gen |-> o.gen, at |-> a]
      BY <1>1
    <2>2. a \in Importing \/ a = "open"
      BY <1>1 DEF Importing, Replacing, PuttingBack
    <2>3. p \in [kind : {"import"}, gen : All, at : Importing] \/
          p \in [kind : {"import", "activate"}, gen : All, at : {"open"}]
      BY <1>1, <2>1, <2>2
    <2> QED BY <1>1, <2>1, <2>3 DEF Operations, NoOp, Importing, Replacing, PuttingBack
  <1>2. CASE o \in [kind : {"import", "activate"}, gen : All, at : {"open"}]
    BY <1>2 DEF Importing, Replacing, PuttingBack
  <1>3. CASE o \in [kind : {"import", "activate"}, gen : All, at : Replacing \cup PuttingBack,
                    previous : All]
    <2>1. p = [kind |-> o.kind, gen |-> o.gen, at |-> a, previous |-> o.previous]
      BY <1>3
    <2>2. a \in Replacing \cup PuttingBack
      BY <1>3 DEF Importing, Replacing, PuttingBack
    <2>3. p \in [kind : {"import", "activate"}, gen : All, at : Replacing \cup PuttingBack,
                 previous : All]
      BY <1>3, <2>1, <2>2
    <2> QED BY <1>3, <2>1, <2>3 DEF Operations, NoOp
  <1>4. CASE o \in [kind : {"remove"}, gen : All, at : {"delete", "clean"}]
    <2>1. p = [kind |-> o.kind, gen |-> o.gen, at |-> a]
      BY <1>4
    <2>2. a = "clean"
      BY <1>4 DEF Importing, Replacing, PuttingBack
    <2>3. p \in [kind : {"remove"}, gen : All, at : {"delete", "clean"}]
      BY <1>4, <2>1, <2>2
    <2> QED BY <1>4, <2>1, <2>3 DEF Operations, NoOp, Importing, Replacing, PuttingBack
  <1> QED BY <1>1, <1>2, <1>3, <1>4 DEF Operations

\* A rebuild under way has a catalog, what it read so far and the status before it.
LEMMA RebuildFields ==
    ASSUME NEW r \in Rebuilds, r # NoRebuild
    PROVE  /\ r.owner \in {"activation", "restore", "ui"} /\ r.of \in Snapshots
           /\ r.from \in Seq(All) /\ r.before \in Statuses
  BY DEF Rebuilds

-----------------------------------------------------------------------------
(* What leaves one half of the invariant alone.                            *)

\* The index does not hear of a step on the catalogs that keeps the store.
LEMMA IndexUntouched ==
    ASSUME IndexInv, UNCHANGED <<store, rebuild, index, snapshotOf>>,
           ui' \in {"idle", "queued", "running"}
    PROVE  IndexInv'
  BY DEF IndexInv, IndexTypes, IndexesAreRead, RebuildIsRead, IndexIsKept, StatusIsOf, ReadFrom,
     index

\* Nor do the catalogs hear of a step on the index.
LEMMA CatalogUntouched ==
    ASSUME CatalogInv, UNCHANGED <<catalog, store, op, restarts>>,
           cancelled' \in BOOLEAN, faults' \in 0..MaxFaults
    PROVE  CatalogInv'
  BY DEF CatalogInv, CatalogTypes, RowsHaveDirectories, ClaimIsTrue, StoreFollowsOperation, catalog

LEMMA AwaitingUntouched ==
    ASSUME RebuildIsAwaited, UNCHANGED <<rebuild, op>>
    PROVE  RebuildIsAwaited'
  BY DEF RebuildIsAwaited

\* A fault is counted within its bound.
LEMMA FaultsAreCounted ==
    ASSUME NEW ok \in BOOLEAN, faults \in 0..MaxFaults, Outcome(ok)
    PROVE  faults' \in 0..MaxFaults
  BY BoundsAreNumbers DEF Outcome

\* No rebuild of its own is under way while an operation does not wait for one.
LEMMA NobodyAwaits ==
    ASSUME RebuildIsAwaited, UNCHANGED rebuild,
           op = NoOp \/ op.at \notin {"rebuilding", "reindexing"}
    PROVE  RebuildIsAwaited'
  BY DEF RebuildIsAwaited

-----------------------------------------------------------------------------
(* Each step keeps the invariant: importing.                               *)

LEMMA StartImportKeeps ==
    ASSUME IInv, NEW g \in Generations, StartImport(g)
    PROVE  AgreeInv'
  <1> USE DEF IInv, AgreeInv, CatalogInv
  <1> DEFINE o == [kind |-> "import", gen |-> g, at |-> "build"]
  <1>1. op = NoOp /\ op' = o /\ cancelled' = FALSE /\ row[g] = "none" /\ g \in All
    BY DEF StartImport, Claim, All, SnapshotsAreKnown
  <1>2. o \in Operations /\ o # NoOp /\ o.gen = g /\ o.at = "build" /\ o.kind = "import"
    BY <1>1 DEF Operations, NoOp, Importing
  <1> HIDE DEF o
  <1>3. CatalogTypes' /\ RowsHaveDirectories'
    BY <1>1, <1>2 DEF CatalogTypes, RowsHaveDirectories, StartImport, catalog
  <1>4. ClaimIsTrue' /\ StoreFollowsOperation'
    BY <1>1, <1>2 DEF ClaimIsTrue, StoreFollowsOperation, StartImport, catalog, Importing, Replacing
  <1>5. IndexInv' /\ RebuildIsAwaited'
    BY <1>1, IndexUntouched, NobodyAwaits DEF StartImport, catalog, IndexInv, IndexTypes
  <1> QED BY <1>3, <1>4, <1>5

LEMMA CreateBuildingKeeps ==
    ASSUME IInv, CreateBuilding
    PROVE  AgreeInv'
  <1> USE DEF IInv, AgreeInv, CatalogInv
  <1>1. op \in Operations /\ op # NoOp /\ op.at = "build" /\ op.kind = "import"
    BY DEF CreateBuilding, At, NoOp, CatalogTypes
  <1>2. /\ op' \in Operations /\ op' # NoOp /\ op'.gen = op.gen /\ op'.kind = op.kind
        /\ op'.at = "finish"
    BY <1>1, OperationMoves DEF CreateBuilding, Goes, Importing
  <1>3. op.gen \in All /\ row[op.gen] = "none"
    BY <1>1, OperationFields DEF ClaimIsTrue, Importing
  <1>4. CatalogTypes' /\ RowsHaveDirectories'
    BY <1>2, <1>3 DEF CatalogTypes, RowsHaveDirectories, CreateBuilding
  <1>5. ClaimIsTrue' /\ StoreFollowsOperation'
    BY <1>1, <1>2, <1>3 DEF ClaimIsTrue, StoreFollowsOperation, CreateBuilding, Importing, Replacing
  <1>6. IndexInv' /\ RebuildIsAwaited'
    BY <1>1, IndexUntouched, NobodyAwaits DEF CreateBuilding, IndexInv, IndexTypes
  <1> QED BY <1>4, <1>5, <1>6

LEMMA FinishBuildingKeeps ==
    ASSUME IInv, NEW ok \in BOOLEAN, FinishBuilding(ok)
    PROVE  AgreeInv'
  <1> USE DEF IInv, AgreeInv, CatalogInv
  <1>1. op \in Operations /\ op # NoOp /\ op.at = "finish" /\ op.kind = "import"
    BY DEF FinishBuilding, At, NoOp, CatalogTypes
  <1>2. op.gen \in All /\ row[op.gen] = "none"
    BY <1>1, OperationFields DEF ClaimIsTrue, Importing
  <1>3. \/ /\ op' \in Operations /\ op' # NoOp /\ op'.gen = op.gen /\ op'.kind = op.kind
           /\ op'.at = "register" /\ dir' = [dir EXCEPT ![op.gen] = "whole"]
        \/ op' = NoOp /\ dir' = [dir EXCEPT ![op.gen] = "none"]
    BY <1>1, OperationMoves DEF FinishBuilding, Goes, Importing
  <1>4. faults' \in 0..MaxFaults
    BY FaultsAreCounted DEF FinishBuilding, CatalogTypes
  <1>5. CatalogTypes' /\ RowsHaveDirectories'
    BY <1>2, <1>3, <1>4 DEF CatalogTypes, RowsHaveDirectories, FinishBuilding, Operations
  <1>6. ClaimIsTrue' /\ StoreFollowsOperation'
    BY <1>1, <1>2, <1>3 DEF CatalogTypes, ClaimIsTrue, StoreFollowsOperation, FinishBuilding,
       Importing, Replacing
  <1>7. IndexInv' /\ RebuildIsAwaited'
    BY <1>1, IndexUntouched, NobodyAwaits DEF FinishBuilding, IndexInv, IndexTypes
  <1> QED BY <1>5, <1>6, <1>7

\* What a new generation is called does not concern the index: no index names it yet.
LEMMA SnapshotGiven ==
    ASSUME IndexInv, UNCHANGED <<store, rebuild, index, ui>>,
           store \in All, snapshotOf[store] \in Snapshots,
           \A g \in All : snapshotOf[g] \in Snapshots => snapshotOf'[g] = snapshotOf[g]
    PROVE  IndexInv'
  <1>1. UNCHANGED <<disk, loaded, status, builds, torn>>
    BY DEF index
  <1>2. IndexTypes' /\ IndexIsKept'
    BY <1>1 DEF IndexInv, IndexTypes, IndexIsKept, StatusIsOf
  <1>3. IndexesAreRead'
    <2> SUFFICES ASSUME NEW d \in disk PROVE ReadFrom(d.n, d.of, d.from)'
      BY <1>1 DEF IndexesAreRead
    <2>1. d.of \in Snapshots /\ ReadFrom(d.n, d.of, d.from)
      BY DEF IndexInv, IndexTypes, Indexes, IndexesAreRead
    <2> QED BY <1>1, <2>1 DEF ReadFrom
  <1>4. RebuildIsRead'
    BY <1>1 DEF IndexInv, RebuildIsRead
  <1> QED BY <1>2, <1>3, <1>4 DEF IndexInv

\* The generation that is served has a row, and so a snapshot id.
LEMMA StoreHasSnapshot ==
    ASSUME IInv
    PROVE  store \in All /\ row[store] # "none" /\ snapshotOf[store] \in Snapshots
  <1>1. store \in All /\ active \in All /\ row[active] # "none"
    BY DEF IInv, AgreeInv, CatalogInv, CatalogTypes, RowsHaveDirectories
  <1>2. row[store] # "none"
    BY <1>1 DEF IInv, AgreeInv, CatalogInv, ClaimIsTrue, StoreFollowsOperation, Importing, Replacing
  <1> QED BY <1>1, <1>2 DEF IInv, SnapshotsAreKnown

LEMMA RegisterKeeps ==
    ASSUME IInv, NEW ok \in BOOLEAN, Register(ok)
    PROVE  AgreeInv'
  <1> USE DEF IInv, AgreeInv, CatalogInv
  <1>1. op \in Operations /\ op # NoOp /\ op.at = "register" /\ op.kind = "import"
    BY DEF Register, At, NoOp, CatalogTypes
  <1>2. op.gen \in All /\ row[op.gen] = "none" /\ dir[op.gen] = "whole"
    BY <1>1, OperationFields DEF ClaimIsTrue, Importing
  <1>3. faults' \in 0..MaxFaults
    BY FaultsAreCounted DEF Register, CatalogTypes
  <1>4. IndexInv' /\ RebuildIsAwaited'
    <2>1. UNCHANGED <<store, rebuild, index, ui>>
      BY DEF Register
    <2>2. snapshotOf[op.gen] = NoSnapshot /\ store \in All /\ snapshotOf[store] \in Snapshots
      BY <1>1, StoreHasSnapshot DEF SnapshotsAreKnown, Importing
    <2>3. \/ UNCHANGED snapshotOf
          \/ \E id \in Snapshots : snapshotOf' = [snapshotOf EXCEPT ![op.gen] = id]
      BY DEF Register
    <2>4. \A g \in All : snapshotOf[g] \in Snapshots => snapshotOf'[g] = snapshotOf[g]
      BY <2>2, <2>3, SnapshotsAreNamed DEF SnapshotsAreKnown
    <2> QED BY <1>1, <2>1, <2>2, <2>4, SnapshotGiven, NobodyAwaits
  <1>5. CASE ok
    <2>1. /\ op' \in Operations /\ op' # NoOp /\ op'.gen = op.gen /\ op'.kind = op.kind
          /\ op'.at = "open" /\ row' = [row EXCEPT ![op.gen] = "available"]
      BY <1>1, <1>5, OperationMoves DEF Register, Goes, Importing
    <2>2. UNCHANGED <<dir, active, store, cancelled, restarts>>
      BY <1>5 DEF Register
    <2>3. CatalogTypes' /\ RowsHaveDirectories'
      BY <1>2, <1>3, <2>1, <2>2 DEF CatalogTypes, RowsHaveDirectories
    <2>4. ClaimIsTrue' /\ StoreFollowsOperation'
      BY <1>1, <1>2, <2>1, <2>2 DEF CatalogTypes, ClaimIsTrue, StoreFollowsOperation,
         Importing, Replacing
    <2> QED BY <1>4, <2>3, <2>4
  <1>6. CASE ~ok
    <2>1. op' = NoOp /\ dir' = [dir EXCEPT ![op.gen] = "none"]
      BY <1>6 DEF Register
    <2>2. UNCHANGED <<row, active, store, cancelled, restarts>>
      BY <1>6 DEF Register
    <2>3. CatalogTypes' /\ RowsHaveDirectories'
      BY <1>2, <1>3, <2>1, <2>2 DEF CatalogTypes, RowsHaveDirectories, Operations
    <2>4. ClaimIsTrue' /\ StoreFollowsOperation'
      BY <1>1, <2>1, <2>2 DEF ClaimIsTrue, StoreFollowsOperation, Importing, Replacing
    <2> QED BY <1>4, <2>3, <2>4
  <1> QED BY <1>5, <1>6

-----------------------------------------------------------------------------
(* What the steps of an activation share.                                  *)

\* A store that is replaced tears the rebuild that reads from it.
LEMMA StoreReplaced ==
    ASSUME IndexInv, store' \in All, TearRebuild,
           UNCHANGED <<rebuild, ui, disk, loaded, status, builds, snapshotOf>>
    PROVE  IndexInv'
  <1>1. rebuild # NoRebuild => builds \in torn' /\ builds \in 1..MaxBuilds
    BY DEF TearRebuild, IndexInv, IndexTypes, RebuildIsRead
  <1>2. torn \subseteq torn' /\ torn' \subseteq 1..MaxBuilds
    BY <1>1 DEF TearRebuild, IndexInv, IndexTypes
  <1>3. IndexTypes' /\ IndexesAreRead' /\ IndexIsKept'
    BY <1>2 DEF IndexInv, IndexTypes, IndexesAreRead, ReadFrom, IndexIsKept, StatusIsOf
  <1>4. RebuildIsRead'
    BY <1>1, <1>2 DEF IndexInv, IndexTypes, RebuildIsRead, ReadFrom
  <1> QED BY <1>3, <1>4 DEF IndexInv

\* A rebuild begins with the catalog that is served, and remembers the status.
LEMMA RebuildBegins ==
    ASSUME IndexInv, store \in All, snapshotOf[store] \in Snapshots,
           NEW owner \in {"activation", "restore", "ui"},
           BeginRebuild(owner), rebuild = NoRebuild,
           UNCHANGED <<store, disk, loaded, torn, snapshotOf>>,
           ui' \in {"idle", "queued", "running"}
    PROVE  IndexInv' /\ rebuild' # NoRebuild /\ rebuild'.owner = owner
  <1> DEFINE r == [owner |-> owner, of |-> snapshotOf[store], from |-> <<>>, before |-> status]
  <1>1. r \in Rebuilds /\ r # NoRebuild /\ r.owner = owner
    BY DEF Rebuilds, NoRebuild, IndexInv, IndexTypes
  <1>2. /\ rebuild' = r /\ builds' = builds + 1 /\ builds < MaxBuilds
        /\ status' = [state |-> "building", of |-> snapshotOf[store]]
    BY DEF BeginRebuild
  <1>3. IndexTypes'
    BY <1>1, <1>2, BoundsAreNumbers DEF IndexInv, IndexTypes, Statuses
  <1>4. RebuildIsRead'
    BY <1>1, <1>2, BoundsAreNumbers DEF IndexInv, IndexTypes, RebuildIsRead, ReadFrom
  <1>5. IndexesAreRead' /\ IndexIsKept'
    BY <1>1, <1>2 DEF IndexInv, IndexesAreRead, ReadFrom, IndexIsKept, StatusIsOf
  <1> QED BY <1>1, <1>2, <1>3, <1>4, <1>5 DEF IndexInv

\* A row that is marked is still a row.
LEMMA RowsRemain ==
    ASSUME CatalogTypes, op # NoOp => op.gen \in All /\ row[op.gen] # "none",
           op # NoOp, MarkFailed
    PROVE  /\ row' \in [All -> {"none", "available", "failed"}]
           /\ \A g \in All : row'[g] = "none" <=> row[g] = "none"
  BY DEF CatalogTypes, MarkFailed

\* An operation that ends, with the rows it found, leaves the catalogs whole.
LEMMA OperationEnds ==
    ASSUME CatalogInv, op' = NoOp, store' = active, UNCHANGED <<dir, active, cancelled, restarts>>,
           faults' \in 0..MaxFaults, row' \in [All -> {"none", "available", "failed"}],
           \A g \in All : row'[g] = "none" <=> row[g] = "none"
    PROVE  CatalogInv'
  <1>1. CatalogTypes'
    BY DEF CatalogInv, CatalogTypes, Operations
  <1>2. RowsHaveDirectories'
    BY DEF CatalogInv, CatalogTypes, RowsHaveDirectories, All
  <1>3. ClaimIsTrue' /\ StoreFollowsOperation'
    BY DEF ClaimIsTrue, StoreFollowsOperation
  <1> QED BY <1>1, <1>2, <1>3 DEF CatalogInv

\* An activation that goes on among its steps.
LEMMA OperationGoesOn ==
    ASSUME CatalogInv, op # NoOp, op.at \in Replacing \cup PuttingBack,
           NEW at \in Replacing \cup PuttingBack, Goes(at),
           UNCHANGED <<dir, row, cancelled, restarts>>, faults' \in 0..MaxFaults,
           active' \in All, row[active'] # "none", store' \in All,
           IF at \in PuttingBack THEN store' = active'
           ELSE store' = op.gen /\ active' = IF at = "read" THEN op.gen ELSE op.previous
    PROVE  CatalogInv' /\ op' # NoOp /\ op'.at = at
  <1>1. /\ op' \in Operations /\ op' # NoOp /\ op'.gen = op.gen /\ op'.kind = op.kind
        /\ op'.at = at /\ op'.previous = op.previous
    BY OperationMoves DEF Goes, CatalogInv, CatalogTypes
  <1>2. op.gen \in All /\ row[op.gen] # "none" /\ op.kind # "remove"
    BY OperationFields DEF CatalogInv, CatalogTypes, ClaimIsTrue, Importing, Replacing, PuttingBack
  <1>3. CatalogTypes' /\ RowsHaveDirectories'
    BY <1>1 DEF CatalogInv, CatalogTypes, RowsHaveDirectories
  <1>4. ClaimIsTrue'
    BY <1>1, <1>2 DEF ClaimIsTrue, Importing, Replacing, PuttingBack
  <1>5. StoreFollowsOperation'
    BY <1>1 DEF StoreFollowsOperation, Replacing, PuttingBack
  <1> QED BY <1>1, <1>3, <1>4, <1>5 DEF CatalogInv

-----------------------------------------------------------------------------
(* Each step keeps the invariant: activating.                              *)

LEMMA StartActivationKeeps ==
    ASSUME IInv, NEW g \in All, StartActivation(g)
    PROVE  AgreeInv'
  <1> USE DEF IInv, AgreeInv, CatalogInv
  <1> DEFINE o == [kind |-> "activate", gen |-> g, at |-> "open"]
  <1>1. op = NoOp /\ op' = o /\ cancelled' = FALSE /\ row[g] # "none"
    BY DEF StartActivation, Claim
  <1>2. o \in Operations /\ o # NoOp /\ o.gen = g /\ o.at = "open" /\ o.kind = "activate"
    BY DEF Operations, NoOp
  <1> HIDE DEF o
  <1>3. CatalogTypes' /\ RowsHaveDirectories'
    BY <1>1, <1>2 DEF CatalogTypes, RowsHaveDirectories, StartActivation, catalog
  <1>4. ClaimIsTrue' /\ StoreFollowsOperation'
    BY <1>1, <1>2 DEF ClaimIsTrue, StoreFollowsOperation, StartActivation, catalog, Importing,
       Replacing
  <1>5. IndexInv' /\ RebuildIsAwaited'
    BY <1>1, IndexUntouched, NobodyAwaits DEF StartActivation, catalog, IndexInv, IndexTypes
  <1> QED BY <1>3, <1>4, <1>5

LEMMA OpenCandidateKeeps ==
    ASSUME IInv, NEW ok \in BOOLEAN, OpenCandidate(ok)
    PROVE  AgreeInv'
  <1> USE DEF IInv, AgreeInv, CatalogInv
  <1>1. /\ op \in Operations /\ op # NoOp /\ op.at = "open" /\ op.kind \in {"import", "activate"}
        /\ op.gen \in All /\ row[op.gen] # "none" /\ store = active
    BY OperationFields DEF OpenCandidate, NoOp, CatalogTypes, ClaimIsTrue, StoreFollowsOperation,
       Importing, Replacing
  <1>2. UNCHANGED <<dir, active, snapshotOf, cancelled, rebuild, ui, disk, loaded, status, builds,
                  restarts>>
    BY DEF OpenCandidate
  <1>3. RebuildIsAwaited'
    BY <1>1, <1>2, NobodyAwaits
  <1>4. CASE ~cancelled /\ ok
    <2> DEFINE o == [kind |-> op.kind, gen |-> op.gen, at |-> "rebuild", previous |-> store]
    <2>1. op' = o /\ store' = op.gen /\ TearRebuild /\ UNCHANGED <<row, faults>>
      BY <1>4 DEF OpenCandidate, Outcome
    <2>2. /\ o \in Operations /\ o # NoOp /\ o.gen = op.gen /\ o.at = "rebuild"
          /\ o.kind \in {"import", "activate"} /\ o.previous = store
      BY <1>1 DEF Operations, NoOp, Replacing, CatalogTypes
    <2> HIDE DEF o
    <2>3. CatalogTypes' /\ RowsHaveDirectories'
      BY <1>1, <1>2, <2>1, <2>2 DEF CatalogTypes, RowsHaveDirectories
    <2>4. ClaimIsTrue' /\ StoreFollowsOperation'
      BY <1>1, <1>2, <2>1, <2>2 DEF ClaimIsTrue, StoreFollowsOperation, Importing, Replacing
    <2>5. IndexInv'
      BY <1>1, <1>2, <2>1, StoreReplaced
    <2> QED BY <1>3, <2>3, <2>4, <2>5
  <1>5. CASE cancelled \/ ~ok
    <2>1. op' = NoOp /\ (MarkFailed \/ UNCHANGED row) /\ UNCHANGED <<store, torn>>
      BY <1>5 DEF OpenCandidate
    <2>2. faults' \in 0..MaxFaults
      BY FaultsAreCounted DEF OpenCandidate, CatalogTypes
    <2>3. /\ row' \in [All -> {"none", "available", "failed"}]
          /\ \A g \in All : row'[g] = "none" <=> row[g] = "none"
      BY <1>1, <2>1, RowsRemain DEF CatalogTypes
    <2>4. CatalogInv'
      BY <1>1, <1>2, <2>1, <2>2, <2>3, OperationEnds
    <2>5. IndexInv'
      BY <1>2, <2>1, IndexUntouched DEF index, IndexInv, IndexTypes
    <2> QED BY <1>3, <2>4, <2>5
  <1> QED BY <1>4, <1>5 DEF CatalogTypes

LEMMA RebuildForActivationKeeps ==
    ASSUME IInv, RebuildForActivation
    PROVE  AgreeInv'
  <1> USE DEF IInv, AgreeInv
  <1>1. op # NoOp /\ op.at = "rebuild" /\ store = op.gen /\ active = op.previous
    BY DEF RebuildForActivation, CatalogInv, StoreFollowsOperation, Replacing
  <1>2. UNCHANGED <<row, dir, active, snapshotOf, store, cancelled, ui, disk, loaded, torn, faults,
                  restarts>>
    BY DEF RebuildForActivation, catalog
  <1>3. /\ active' \in All /\ row[active'] # "none" /\ store' \in All /\ faults' \in 0..MaxFaults
        /\ ui' \in {"idle", "queued", "running"}
    BY <1>2 DEF CatalogInv, CatalogTypes, RowsHaveDirectories, IndexInv, IndexTypes
  <1>4. CASE rebuild = NoRebuild
    <2>1. BeginRebuild("activation") /\ Goes("rebuilding")
      BY <1>4 DEF RebuildForActivation
    <2>2. CatalogInv' /\ op' # NoOp /\ op'.at = "rebuilding"
      BY <1>1, <1>2, <1>3, <2>1, OperationGoesOn DEF Replacing, PuttingBack
    <2>3. IndexInv' /\ rebuild'.owner = "activation"
      BY <1>2, <1>3, <1>4, <2>1, RebuildBegins, StoreHasSnapshot
    <2> QED BY <2>2, <2>3 DEF RebuildIsAwaited
  <1>5. CASE rebuild # NoRebuild
    <2>1. Goes("restore") /\ UNCHANGED <<rebuild, status, builds>>
      BY <1>5 DEF RebuildForActivation
    <2>2. CatalogInv'
      BY <1>1, <1>2, <1>3, <2>1, OperationGoesOn DEF Replacing, PuttingBack
    <2>3. IndexInv' /\ RebuildIsAwaited'
      BY <1>1, <1>2, <1>3, <2>1, IndexUntouched, NobodyAwaits DEF index
    <2> QED BY <2>2, <2>3
  <1> QED BY <1>4, <1>5

LEMMA MoveMarkKeeps ==
    ASSUME IInv, NEW ok \in BOOLEAN, MoveMark(ok)
    PROVE  AgreeInv'
  <1> USE DEF IInv, AgreeInv, CatalogInv
  <1>1. /\ op \in Operations /\ op # NoOp /\ op.at = "mark" /\ store = op.gen
        /\ active = op.previous /\ op.gen \in All /\ row[op.gen] # "none" /\ op.kind # "remove"
    BY OperationFields DEF MoveMark, CatalogTypes, ClaimIsTrue, StoreFollowsOperation,
       Importing, Replacing
  <1>2. UNCHANGED <<dir, snapshotOf, store, cancelled, rebuild, ui, index, restarts>>
    BY DEF MoveMark
  <1>3. faults' \in 0..MaxFaults
    BY FaultsAreCounted DEF MoveMark, CatalogTypes
  <1>4. IndexInv' /\ RebuildIsAwaited'
    BY <1>1, <1>2, IndexUntouched, NobodyAwaits DEF IndexInv, IndexTypes
  <1>5. CASE ok
    <2>1. active' = op.gen /\ row' = [row EXCEPT ![op.gen] = "available"] /\ Goes("read")
      BY <1>5 DEF MoveMark
    <2>2. /\ op' \in Operations /\ op' # NoOp /\ op'.gen = op.gen /\ op'.kind = op.kind
          /\ op'.at = "read"
      BY <1>1, <2>1, OperationMoves DEF Goes, Replacing
    <2>3. CatalogTypes' /\ RowsHaveDirectories'
      BY <1>1, <1>2, <1>3, <2>1, <2>2 DEF CatalogTypes, RowsHaveDirectories, All
    <2>4. ClaimIsTrue' /\ StoreFollowsOperation'
      BY <1>1, <1>2, <2>1, <2>2 DEF CatalogTypes, ClaimIsTrue, StoreFollowsOperation,
         Importing, Replacing
    <2> QED BY <1>4, <2>3, <2>4
  <1>6. CASE ~ok
    <2>1. Goes("restore") /\ UNCHANGED <<active, row>>
      BY <1>6 DEF MoveMark
    <2>2. active \in All /\ row[active] # "none" /\ store \in All
      BY DEF CatalogTypes, RowsHaveDirectories
    <2>3. CatalogInv'
      BY <1>1, <1>2, <1>3, <2>1, <2>2, OperationGoesOn DEF Replacing, PuttingBack
    <2> QED BY <1>4, <2>3
  <1> QED BY <1>5, <1>6

LEMMA ReadBackKeeps ==
    ASSUME IInv, NEW ok \in BOOLEAN, ReadBack(ok)
    PROVE  AgreeInv'
  <1> USE DEF IInv, AgreeInv, CatalogInv
  <1>1. /\ op # NoOp /\ op.at = "read" /\ op.gen \in All /\ row[op.gen] # "none" /\ store = active
    BY OperationFields DEF ReadBack, CatalogTypes, ClaimIsTrue, StoreFollowsOperation,
       Importing, Replacing
  <1>2. /\ UNCHANGED <<dir, active, snapshotOf, store, cancelled, rebuild, ui, index, restarts>>
        /\ op' = NoOp
    BY DEF ReadBack
  <1>3. faults' \in 0..MaxFaults
    BY FaultsAreCounted DEF ReadBack, CatalogTypes
  <1>4. /\ row' \in [All -> {"none", "available", "failed"}]
        /\ \A g \in All : row'[g] = "none" <=> row[g] = "none"
    BY <1>1, RowsRemain DEF ReadBack, CatalogTypes
  <1>5. CatalogInv'
    BY <1>1, <1>2, <1>3, <1>4, OperationEnds
  <1>6. IndexInv' /\ RebuildIsAwaited'
    BY <1>1, <1>2, IndexUntouched, NobodyAwaits DEF IndexInv, IndexTypes
  <1> QED BY <1>5, <1>6

LEMMA RestorePreviousKeeps ==
    ASSUME IInv, RestorePrevious
    PROVE  AgreeInv'
  <1> USE DEF IInv, AgreeInv
  <1>1. op # NoOp /\ op.at = "restore" /\ active = op.previous /\ op' = [op EXCEPT !.at = "reindex"]
    BY DEF RestorePrevious, CatalogInv, StoreFollowsOperation, Replacing
  <1>2. /\ UNCHANGED <<row, dir, active, snapshotOf, cancelled, rebuild, ui, disk, loaded, status,
                       builds, faults, restarts>>
        /\ store' = op.previous /\ TearRebuild
    BY DEF RestorePrevious, PutBack, catalog
  <1>3. active \in All /\ row[active] # "none" /\ faults \in 0..MaxFaults
    BY DEF CatalogInv, CatalogTypes, RowsHaveDirectories
  <1>4. CatalogInv'
    BY <1>1, <1>2, <1>3, OperationGoesOn DEF Goes, Replacing, PuttingBack
  <1>5. IndexInv' /\ RebuildIsAwaited'
    BY <1>1, <1>2, <1>3, StoreReplaced, NobodyAwaits
  <1> QED BY <1>4, <1>5

LEMMA RebuildForRestoreKeeps ==
    ASSUME IInv, RebuildForRestore
    PROVE  AgreeInv'
  <1> USE DEF IInv, AgreeInv
  <1>1. /\ op # NoOp /\ op.at = "reindex" /\ store = active /\ op.gen \in All
        /\ row[op.gen] # "none"
    BY OperationFields DEF RebuildForRestore, CatalogInv, CatalogTypes, ClaimIsTrue,
       StoreFollowsOperation, Importing, Replacing
  <1>2. UNCHANGED <<dir, active, snapshotOf, store, cancelled, ui, disk, loaded, torn, faults,
                  restarts>>
    BY DEF RebuildForRestore
  <1>3. /\ active' \in All /\ row[active'] # "none" /\ store' \in All /\ faults' \in 0..MaxFaults
        /\ ui' \in {"idle", "queued", "running"}
    BY <1>2 DEF CatalogInv, CatalogTypes, RowsHaveDirectories, IndexInv, IndexTypes
  <1>4. CASE rebuild = NoRebuild
    <2>1. BeginRebuild("restore") /\ Goes("reindexing") /\ UNCHANGED row
      BY <1>4 DEF RebuildForRestore
    <2>2. CatalogInv' /\ op' # NoOp /\ op'.at = "reindexing"
      BY <1>1, <1>2, <1>3, <2>1, OperationGoesOn DEF PuttingBack
    <2>3. IndexInv' /\ rebuild'.owner = "restore"
      BY <1>2, <1>3, <1>4, <2>1, RebuildBegins, StoreHasSnapshot
    <2> QED BY <2>2, <2>3 DEF RebuildIsAwaited
  <1>5. CASE rebuild # NoRebuild
    <2>1. op' = NoOp /\ MarkFailed /\ UNCHANGED <<rebuild, status, builds>>
      BY <1>5 DEF RebuildForRestore
    <2>2. /\ row' \in [All -> {"none", "available", "failed"}]
          /\ \A g \in All : row'[g] = "none" <=> row[g] = "none"
      BY <1>1, <2>1, RowsRemain DEF CatalogInv
    <2>3. CatalogInv'
      BY <1>1, <1>2, <1>3, <2>1, <2>2, OperationEnds
    <2>4. IndexInv' /\ RebuildIsAwaited'
      BY <1>1, <1>2, <1>3, <2>1, IndexUntouched, NobodyAwaits DEF index
    <2> QED BY <2>3, <2>4
  <1> QED BY <1>4, <1>5

-----------------------------------------------------------------------------
(* Each step keeps the invariant: removing, and cancelling.                *)

LEMMA StartRemovalKeeps ==
    ASSUME IInv, NEW g \in All, StartRemoval(g)
    PROVE  AgreeInv'
  <1> USE DEF IInv, AgreeInv, CatalogInv
  <1> DEFINE o == [kind |-> "remove", gen |-> g, at |-> "delete"]
  <1>1. op = NoOp /\ op' = o /\ cancelled' = FALSE /\ row[g] # "none" /\ g # Embedded
    BY DEF StartRemoval, Claim
  <1>2. o \in Operations /\ o # NoOp /\ o.gen = g /\ o.at = "delete" /\ o.kind = "remove"
    BY DEF Operations, NoOp
  <1> HIDE DEF o
  <1>3. /\ UNCHANGED <<row, active, snapshotOf, store, rebuild, ui, index, faults, restarts>>
        /\ dir' = [dir EXCEPT ![g] = IF @ = "whole" THEN "deleting" ELSE @]
    BY DEF StartRemoval
  <1>4. CatalogTypes' /\ RowsHaveDirectories'
    BY <1>1, <1>2, <1>3 DEF CatalogTypes, RowsHaveDirectories
  <1>5. ClaimIsTrue' /\ StoreFollowsOperation'
    BY <1>1, <1>2, <1>3 DEF ClaimIsTrue, StoreFollowsOperation, Importing, Replacing
  <1>6. IndexInv' /\ RebuildIsAwaited'
    BY <1>1, <1>3, IndexUntouched, NobodyAwaits DEF IndexInv, IndexTypes
  <1> QED BY <1>4, <1>5, <1>6

LEMMA DeleteRowKeeps ==
    ASSUME IInv, NEW ok \in BOOLEAN, DeleteRow(ok)
    PROVE  AgreeInv'
  <1> USE DEF IInv, AgreeInv, CatalogInv
  <1>1. /\ op \in Operations /\ op # NoOp /\ op.at = "delete" /\ op.kind = "remove"
        /\ op.gen \in All /\ op.gen # Embedded /\ row[op.gen] # "none" /\ store = active
    BY OperationFields DEF DeleteRow, At, NoOp, CatalogTypes, ClaimIsTrue, StoreFollowsOperation,
       Importing, Replacing
  <1>2. UNCHANGED <<active, snapshotOf, store, cancelled, rebuild, ui, index, restarts>>
    BY DEF DeleteRow
  <1>3. faults' \in 0..MaxFaults
    BY FaultsAreCounted DEF DeleteRow, CatalogTypes
  <1>4. IndexInv' /\ RebuildIsAwaited'
    BY <1>1, <1>2, IndexUntouched, NobodyAwaits DEF IndexInv, IndexTypes
  <1>5. CASE ok /\ active # op.gen
    <2>1. row' = [row EXCEPT ![op.gen] = "none"] /\ Goes("clean") /\ UNCHANGED dir
      BY <1>5 DEF DeleteRow
    <2>2. /\ op' \in Operations /\ op' # NoOp /\ op'.gen = op.gen /\ op'.kind = op.kind
          /\ op'.at = "clean"
      BY <1>1, <2>1, OperationMoves DEF Goes
    <2>3. CatalogTypes' /\ RowsHaveDirectories'
      BY <1>1, <1>2, <1>3, <1>5, <2>1, <2>2 DEF CatalogTypes, RowsHaveDirectories
    <2>4. ClaimIsTrue' /\ StoreFollowsOperation'
      BY <1>1, <1>2, <2>1, <2>2 DEF CatalogTypes, ClaimIsTrue, StoreFollowsOperation,
         Importing, Replacing
    <2> QED BY <1>4, <2>3, <2>4
  <1>6. CASE ~(ok /\ active # op.gen)
    <2>1. /\ dir' = [dir EXCEPT ![op.gen] = IF @ = "deleting" THEN "whole" ELSE @]
          /\ op' = NoOp /\ UNCHANGED row
      BY <1>6 DEF DeleteRow
    <2>2. CatalogTypes' /\ RowsHaveDirectories'
      BY <1>1, <1>2, <1>3, <2>1 DEF CatalogTypes, RowsHaveDirectories, Operations
    <2>3. ClaimIsTrue' /\ StoreFollowsOperation'
      BY <1>1, <1>2, <2>1 DEF ClaimIsTrue, StoreFollowsOperation
    <2> QED BY <1>4, <2>2, <2>3
  <1> QED BY <1>5, <1>6

LEMMA CleanDirectoryKeeps ==
    ASSUME IInv, NEW ok \in BOOLEAN, CleanDirectory(ok)
    PROVE  AgreeInv'
  <1> USE DEF IInv, AgreeInv, CatalogInv
  <1>1. /\ op # NoOp /\ op.at = "clean" /\ op.gen \in All /\ row[op.gen] = "none" /\ store = active
    BY OperationFields DEF CleanDirectory, At, NoOp, CatalogTypes, ClaimIsTrue,
       StoreFollowsOperation, Importing, Replacing
  <1>2. /\ UNCHANGED <<row, active, snapshotOf, store, cancelled, rebuild, ui, index, restarts>>
        /\ op' = NoOp
        /\ dir' = IF ok THEN [dir EXCEPT ![op.gen] = "none"] ELSE dir
    BY DEF CleanDirectory
  <1>3. faults' \in 0..MaxFaults
    BY FaultsAreCounted DEF CleanDirectory, CatalogTypes
  <1>4. CatalogTypes' /\ RowsHaveDirectories'
    BY <1>1, <1>2, <1>3 DEF CatalogTypes, RowsHaveDirectories, Operations
  <1>5. ClaimIsTrue' /\ StoreFollowsOperation'
    BY <1>1, <1>2 DEF ClaimIsTrue, StoreFollowsOperation
  <1>6. IndexInv' /\ RebuildIsAwaited'
    BY <1>1, <1>2, IndexUntouched, NobodyAwaits DEF IndexInv, IndexTypes
  <1> QED BY <1>4, <1>5, <1>6

LEMMA CancelOperationKeeps ==
    ASSUME IInv, CancelOperation
    PROVE  AgreeInv'
  <1> USE DEF IInv, AgreeInv
  <1>1. CatalogInv'
    BY CatalogUntouched DEF CancelOperation, CatalogInv, CatalogTypes
  <1>2. IndexInv' /\ RebuildIsAwaited'
    BY IndexUntouched, AwaitingUntouched DEF CancelOperation, catalog, IndexInv, IndexTypes
  <1> QED BY <1>1, <1>2

-----------------------------------------------------------------------------
(* Each step keeps the invariant: the search index.                        *)

\* A cleanup keeps the index in use, and adds none.
LEMMA CleanupKeepsTheUsed ==
    ASSUME NEW some, NEW used
    PROVE  Cleaned(some, used) \subseteq some /\ (used \in some => used \in Cleaned(some, used))
  BY DEF Cleaned

LEMMA UiStartKeeps ==
    ASSUME IInv, UiStart
    PROVE  AgreeInv'
  <1> USE DEF IInv, AgreeInv
  <1>1. CatalogInv'
    BY CatalogUntouched DEF UiStart, CatalogInv, CatalogTypes
  <1>2. IndexInv' /\ RebuildIsAwaited'
    BY IndexUntouched, AwaitingUntouched DEF UiStart, catalog
  <1> QED BY <1>1, <1>2

LEMMA UiBeginKeeps ==
    ASSUME IInv, UiBegin
    PROVE  AgreeInv'
  <1> USE DEF IInv, AgreeInv
  <1>1. CatalogInv'
    BY CatalogUntouched DEF UiBegin, CatalogInv, CatalogTypes
  <1>2. UNCHANGED <<store, disk, loaded, torn, snapshotOf>>
    BY DEF UiBegin, catalog
  <1>3. CASE rebuild = NoRebuild
    <2>1. BeginRebuild("ui") /\ ui' = "running"
      BY <1>3 DEF UiBegin
    <2>2. IndexInv' /\ rebuild'.owner = "ui"
      BY <1>2, <1>3, <2>1, RebuildBegins, StoreHasSnapshot DEF CatalogInv, CatalogTypes
    <2> QED BY <1>1, <2>2 DEF RebuildIsAwaited
  <1>4. CASE rebuild # NoRebuild
    <2>1. ui' = "idle" /\ UNCHANGED <<rebuild, status, builds, op>>
      BY <1>4 DEF UiBegin
    <2> QED BY <1>1, <1>2, <2>1, IndexUntouched, AwaitingUntouched DEF index
  <1> QED BY <1>3, <1>4

LEMMA ReadBatchKeeps ==
    ASSUME IInv, ReadBatch
    PROVE  AgreeInv'
  <1> USE DEF IInv, AgreeInv
  <1> DEFINE r == [rebuild EXCEPT !.from = Append(@, store)]
  <1>1. /\ UNCHANGED <<catalog, store, op, cancelled, ui, index, faults, restarts>>
        /\ rebuild # NoRebuild /\ rebuild' = r
    BY DEF ReadBatch
  <1>2. rebuild \in Rebuilds /\ rebuild.from \in Seq(All) /\ store \in All
    BY <1>1, RebuildFields DEF IndexInv, IndexTypes, CatalogInv, CatalogTypes
  <1>3. /\ r.from = Append(rebuild.from, store) /\ r.of = rebuild.of
        /\ r.owner = rebuild.owner /\ r.before = rebuild.before
        /\ r \in Rebuilds /\ r # NoRebuild
    <2>1. rebuild \in [owner : {"activation", "restore", "ui"}, of : Snapshots, from : Seq(All),
                       before : Statuses]
      BY <1>1, <1>2 DEF Rebuilds
    <2> DEFINE f == Append(rebuild.from, store)
    <2>2. f \in Seq(All)
      BY <1>2
    <2>3. r = [rebuild EXCEPT !.from = f]
      OBVIOUS
    <2> HIDE DEF f
    <2>4. [rebuild EXCEPT !.from = f] =
          [owner |-> rebuild.owner, of |-> rebuild.of, from |-> f, before |-> rebuild.before]
      BY <2>1
    <2>5. /\ r.from = f /\ r.of = rebuild.of /\ r.owner = rebuild.owner /\ r.before = rebuild.before
          /\ r \in Rebuilds /\ r # NoRebuild
      BY <2>1, <2>2, <2>3, <2>4 DEF Rebuilds, NoRebuild
    <2> QED BY <2>5 DEF f
  <1> HIDE DEF r
  <1>4. CatalogInv'
    BY <1>1, CatalogUntouched DEF CatalogInv, CatalogTypes
  <1>5. IndexTypes' /\ IndexesAreRead' /\ IndexIsKept'
    BY <1>1, <1>3 DEF IndexInv, IndexTypes, IndexesAreRead, ReadFrom, IndexIsKept, StatusIsOf,
       index, catalog
  <1>6. RebuildIsRead'
    <2>1. \A b \in DOMAIN r.from : \/ b \in DOMAIN rebuild.from /\ r.from[b] = rebuild.from[b]
                                \/ r.from[b] = store
      BY <1>2, <1>3
    <2>2. /\ builds > 0
          /\ \/ builds \in torn
             \/ /\ rebuild.of = snapshotOf[store]
                /\ \A b \in DOMAIN rebuild.from : rebuild.from[b] = store
      BY <1>1 DEF IndexInv, RebuildIsRead
    <2> QED BY <1>1, <1>3, <2>1, <2>2 DEF RebuildIsRead, index, catalog
  <1>7. RebuildIsAwaited'
    BY <1>1, <1>3 DEF RebuildIsAwaited
  <1> QED BY <1>4, <1>5, <1>6, <1>7 DEF IndexInv

\* When a rebuild ends, whoever waits for it goes on: the activation marks its catalog or
\* turns back, the restore ends, the user's rebuild is over.
LEMMA RebuildResumes ==
    ASSUME IInv, rebuild # NoRebuild, NEW ok \in BOOLEAN, Resume(ok), rebuild' = NoRebuild,
           UNCHANGED <<dir, active, snapshotOf, store, cancelled, restarts>>,
           faults' \in 0..MaxFaults
    PROVE  CatalogInv' /\ RebuildIsAwaited' /\ ui' \in {"idle", "queued", "running"}
  <1> USE DEF IInv, AgreeInv
  <1>1. RebuildIsAwaited'
    BY DEF RebuildIsAwaited
  <1>2. rebuild.owner \in {"activation", "restore", "ui"}
    BY RebuildFields DEF IndexInv, IndexTypes
  <1>3. active \in All /\ row[active] # "none" /\ store \in All
    BY DEF CatalogInv, CatalogTypes, RowsHaveDirectories
  <1>4. CASE rebuild.owner = "ui"
    <2>1. ui' = "idle" /\ UNCHANGED <<op, row>>
      BY <1>4 DEF Resume
    <2> QED BY <1>1, <2>1, CatalogUntouched DEF CatalogInv, CatalogTypes, catalog
  <1>5. CASE rebuild.owner = "activation"
    <2>1. op # NoOp /\ op.at = "rebuilding" /\ store = op.gen /\ active = op.previous
      BY <1>5 DEF RebuildIsAwaited, CatalogInv, StoreFollowsOperation, Replacing
    <2>2. (Goes("mark") \/ Goes("restore")) /\ UNCHANGED <<ui, row>>
      BY <1>5 DEF Resume
    <2>3. CatalogInv'
      <3>1. CASE Goes("mark")
        BY <1>3, <2>1, <2>2, <3>1, OperationGoesOn DEF Replacing, PuttingBack
      <3>2. CASE Goes("restore")
        BY <1>3, <2>1, <2>2, <3>2, OperationGoesOn DEF Replacing, PuttingBack
      <3> QED BY <2>2, <3>1, <3>2
    <2> QED BY <1>1, <2>2, <2>3 DEF IndexInv, IndexTypes
  <1>6. CASE rebuild.owner = "restore"
    <2>1. op # NoOp /\ op.at = "reindexing" /\ store = active
      BY <1>6 DEF RebuildIsAwaited, CatalogInv, StoreFollowsOperation, Replacing
    <2>2. op.gen \in All /\ row[op.gen] # "none"
      BY <2>1, OperationFields DEF CatalogInv, CatalogTypes, ClaimIsTrue, Importing
    <2>3. op' = NoOp /\ MarkFailed /\ UNCHANGED ui
      BY <1>6 DEF Resume
    <2>4. /\ row' \in [All -> {"none", "available", "failed"}]
          /\ \A g \in All : row'[g] = "none" <=> row[g] = "none"
      BY <2>1, <2>2, <2>3, RowsRemain DEF CatalogInv
    <2>5. CatalogInv'
      BY <2>1, <2>3, <2>4, OperationEnds
    <2> QED BY <1>1, <2>3, <2>5 DEF IndexInv, IndexTypes
  <1> QED BY <1>2, <1>4, <1>5, <1>6

LEMMA CompleteRebuildKeeps ==
    ASSUME IInv, CompleteRebuild
    PROVE  AgreeInv'
  <1> USE DEF IInv, AgreeInv
  <1> DEFINE built == [n |-> builds, of |-> rebuild.of, from |-> rebuild.from]
  <1>1. /\ rebuild # NoRebuild /\ rebuild' = NoRebuild /\ Resume(TRUE)
        /\ loaded' = built /\ disk' = Cleaned(disk \cup {built}, built)
        /\ status' = [state |-> "ready", of |-> rebuild.of]
        /\ UNCHANGED <<dir, active, snapshotOf, store, cancelled, builds, torn, faults, restarts>>
    BY DEF CompleteRebuild
  <1>2. CatalogInv' /\ RebuildIsAwaited' /\ ui' \in {"idle", "queued", "running"}
    BY <1>1, RebuildResumes DEF CatalogInv, CatalogTypes
  <1>3. ReadFrom(builds, rebuild.of, rebuild.from) /\ builds \in 1..MaxBuilds
    BY <1>1 DEF IndexInv, IndexTypes, RebuildIsRead, ReadFrom, CatalogInv, CatalogTypes
  <1>4. /\ built \in Indexes /\ built.n = builds /\ built.of = rebuild.of
        /\ built.from = rebuild.from
    BY <1>1, <1>3, RebuildFields DEF Indexes, IndexInv, IndexTypes
  <1> HIDE DEF built
  <1>5. disk' \subseteq disk \cup {built} /\ built \in disk'
    BY <1>1, CleanupKeepsTheUsed
  <1>6. IndexTypes'
    BY <1>1, <1>2, <1>4, <1>5 DEF IndexInv, IndexTypes, Rebuilds, Statuses, Indexes
  <1>7. IndexesAreRead' /\ RebuildIsRead'
    BY <1>1, <1>3, <1>4, <1>5 DEF IndexInv, IndexesAreRead, ReadFrom, RebuildIsRead
  <1>8. IndexIsKept'
    BY <1>1, <1>4, <1>5 DEF IndexIsKept, StatusIsOf
  <1> QED BY <1>2, <1>6, <1>7, <1>8 DEF IndexInv

LEMMA FailRebuildKeeps ==
    ASSUME IInv, NEW cancel \in BOOLEAN, FailRebuild(cancel)
    PROVE  AgreeInv'
  <1> USE DEF IInv, AgreeInv
  <1>1. /\ rebuild # NoRebuild /\ rebuild' = NoRebuild /\ Resume(FALSE)
        /\ status' = IF cancel THEN rebuild.before ELSE [state |-> "failed", of |-> rebuild.of]
        /\ UNCHANGED <<dir, active, snapshotOf, store, cancelled, disk, loaded, builds, torn,
                       restarts>>
    BY DEF FailRebuild
  <1>2. faults' \in 0..MaxFaults
    BY FaultsAreCounted DEF FailRebuild, CatalogInv, CatalogTypes
  <1>3. CatalogInv' /\ RebuildIsAwaited' /\ ui' \in {"idle", "queued", "running"}
    BY <1>1, <1>2, RebuildResumes
  <1>4. status' \in Statuses
    BY <1>1, RebuildFields DEF IndexInv, IndexTypes, Statuses
  <1>5. IndexTypes'
    BY <1>1, <1>3, <1>4 DEF IndexInv, IndexTypes, Rebuilds
  <1>6. IndexesAreRead' /\ RebuildIsRead'
    BY <1>1 DEF IndexInv, IndexesAreRead, ReadFrom, RebuildIsRead
  <1>7. IndexIsKept'
    BY <1>1 DEF IndexInv, IndexIsKept, StatusIsOf
  <1> QED BY <1>3, <1>5, <1>6, <1>7 DEF IndexInv

LEMMA CleanSearchCacheKeeps ==
    ASSUME IInv, CleanSearchCache
    PROVE  AgreeInv'
  <1> USE DEF IInv, AgreeInv
  <1>1. /\ UNCHANGED <<catalog, store, op, cancelled, rebuild, ui, loaded, status, builds,
                       faults, restarts, torn>>
        /\ disk' = Cleaned(disk, loaded) /\ rebuild = NoRebuild
    BY DEF CleanSearchCache
  <1>2. disk' \subseteq disk /\ (loaded \in disk => loaded \in disk')
    BY <1>1, CleanupKeepsTheUsed
  <1>3. CatalogInv' /\ RebuildIsAwaited'
    BY <1>1, CatalogUntouched, AwaitingUntouched DEF CatalogInv, CatalogTypes
  <1>4. IndexTypes'
    BY <1>1, <1>2 DEF IndexInv, IndexTypes
  <1>5. IndexesAreRead' /\ RebuildIsRead'
    BY <1>1, <1>2 DEF catalog, IndexInv, IndexesAreRead, ReadFrom, RebuildIsRead
  <1>6. IndexIsKept'
    BY <1>1, <1>2 DEF IndexInv, IndexIsKept, StatusIsOf
  <1> QED BY <1>3, <1>4, <1>5, <1>6 DEF IndexInv

-----------------------------------------------------------------------------
(* A restart keeps the invariant.                                          *)

\* The index that is loaded is one on disk, and the status says so.
LEMMA LoadedIsOnDisk ==
    ASSUME IndexInv, NEW ok \in BOOLEAN, LoadLatest(ok)
    PROVE  /\ loaded' = NoIndex \/ loaded' \in disk
           /\ status' \in Statuses
           /\ status'.state = "ready" => loaded' \in disk /\ status'.of = loaded'.of
  <1>1. disk \subseteq Indexes
    BY DEF IndexInv, IndexTypes
  <1>2. CASE loaded' = NoIndex /\ \/ status' = [state |-> "missing"]
                                  \/ status' = [state |-> "failed"]
    BY <1>2 DEF Statuses
  <1>3. ASSUME NEW x \in disk, Load(x)
        PROVE  /\ loaded' = x /\ status' \in Statuses /\ status'.of = x.of
    BY <1>1, <1>3 DEF Load, Statuses, Indexes
  <1> QED BY <1>2, <1>3 DEF LoadLatest, Newest

\* Cleaning abandoned imports keeps the directory of every catalog that has a row.
LEMMA RestartKeeps ==
    ASSUME IInv, NEW opens \in BOOLEAN, NEW loads \in BOOLEAN, Restart(opens, loads)
    PROVE  AgreeInv'
  <1> USE DEF IInv, AgreeInv
  <1>1. /\ active' = IF opens THEN active ELSE Embedded
        /\ store' = active'
        /\ row' = IF opens THEN row
                  ELSE [row EXCEPT ![active] = "failed", ![Embedded] = "available"]
        /\ dir' = [g \in All |-> CleanAbandoned(g)]
        /\ LoadLatest(loads) /\ disk' = Cleaned(disk, loaded')
        /\ op' = NoOp /\ cancelled' = FALSE /\ rebuild' = NoRebuild /\ ui' = "idle"
        /\ UNCHANGED <<snapshotOf, builds, torn>>
    BY DEF Restart
  <1>2. faults' \in 0..MaxFaults /\ restarts' \in 0..MaxRestarts
    <2>1. (opens /\ loads) \in BOOLEAN
      OBVIOUS
    <2> QED BY <2>1, FaultsAreCounted, BoundsAreNumbers DEF Restart, CatalogInv, CatalogTypes
  <1>3. \A g \in All : /\ dir'[g] \in {"none", "whole"}
                       /\ row[g] # "none" => dir'[g] = "whole"
    BY <1>1 DEF CleanAbandoned, CatalogInv, CatalogTypes, RowsHaveDirectories
  <1>4. CatalogTypes'
    BY <1>1, <1>2, <1>3 DEF CatalogInv, CatalogTypes, Operations, All
  <1>5. RowsHaveDirectories'
    BY <1>1, <1>3 DEF CatalogInv, CatalogTypes, RowsHaveDirectories, All
  <1>6. ClaimIsTrue' /\ StoreFollowsOperation' /\ RebuildIsAwaited'
    BY <1>1 DEF ClaimIsTrue, StoreFollowsOperation, RebuildIsAwaited
  <1>7. /\ loaded' = NoIndex \/ loaded' \in disk
        /\ status' \in Statuses
        /\ status'.state = "ready" => loaded' \in disk /\ status'.of = loaded'.of
    BY <1>1, LoadedIsOnDisk
  <1>8. disk' \subseteq disk /\ (loaded' \in disk => loaded' \in disk')
    BY <1>1, CleanupKeepsTheUsed
  <1>9. IndexTypes'
    BY <1>1, <1>7, <1>8 DEF IndexInv, IndexTypes, Rebuilds
  <1>10. IndexesAreRead' /\ RebuildIsRead' /\ IndexIsKept'
    BY <1>1, <1>7, <1>8 DEF IndexInv, IndexesAreRead, ReadFrom, RebuildIsRead, IndexIsKept,
       StatusIsOf
  <1> QED BY <1>4, <1>5, <1>6, <1>9, <1>10 DEF IndexInv, CatalogInv

-----------------------------------------------------------------------------
(* Snapshot ids: given once, with the row.                                 *)

LEMMA SnapshotsUntouched ==
    ASSUME SnapshotsAreKnown, UNCHANGED snapshotOf,
           \A g \in All : row'[g] # "none" => row[g] # "none",
           \/ op' = NoOp \/ op'.at \notin Importing
           \/ op # NoOp /\ op.at \in Importing /\ op'.gen = op.gen
    PROVE  SnapshotsAreKnown'
  BY DEF SnapshotsAreKnown

LEMMA ImportingSnapshots ==
    ASSUME IInv, \/ \E g \in Generations : StartImport(g)
                 \/ CreateBuilding
                 \/ \E ok \in BOOLEAN : FinishBuilding(ok) \/ Register(ok)
    PROVE  SnapshotsAreKnown'
  <1> USE DEF IInv, AgreeInv, CatalogInv
  <1>1. ASSUME NEW g \in Generations, StartImport(g) PROVE SnapshotsAreKnown'
    BY <1>1 DEF StartImport, Claim, catalog, SnapshotsAreKnown, NoOp
  <1>2. CASE CreateBuilding
    <2>1. op \in Operations /\ op # NoOp /\ op.at = "build"
      BY <1>2 DEF CreateBuilding, At, NoOp, CatalogTypes
    <2>2. op'.gen = op.gen
      BY <1>2, <2>1, OperationMoves DEF CreateBuilding, Goes, Importing
    <2> QED BY <1>2, <2>1, <2>2, SnapshotsUntouched DEF CreateBuilding, Importing
  <1>3. ASSUME NEW ok \in BOOLEAN, FinishBuilding(ok) PROVE SnapshotsAreKnown'
    <2>1. op \in Operations /\ op # NoOp /\ op.at = "finish"
      BY <1>3 DEF FinishBuilding, At, NoOp, CatalogTypes
    <2>2. op' = NoOp \/ op'.gen = op.gen
      BY <1>3, <2>1, OperationMoves DEF FinishBuilding, Goes, Importing
    <2> QED BY <1>3, <2>1, <2>2, SnapshotsUntouched DEF FinishBuilding, Importing
  <1>4. ASSUME NEW ok \in BOOLEAN, Register(ok) PROVE SnapshotsAreKnown'
    <2>1. op \in Operations /\ op # NoOp /\ op.at = "register" /\ op.gen \in All
      BY <1>4, OperationFields DEF Register, At, NoOp, CatalogTypes
    <2>2. CASE ok
      <3>1. op'.at = "open"
        BY <1>4, <2>1, <2>2, OperationMoves DEF Register, Goes, Importing
      <3>2. PICK id \in Snapshots : snapshotOf' = [snapshotOf EXCEPT ![op.gen] = id]
        BY <1>4, <2>2 DEF Register
      <3>3. row' = [row EXCEPT ![op.gen] = "available"]
        BY <1>4, <2>2 DEF Register
      <3> QED BY <2>1, <3>1, <3>2, <3>3, SnapshotsAreNamed
              DEF SnapshotsAreKnown, CatalogTypes, Importing
    <2>3. CASE ~ok
      BY <1>4, <2>3, SnapshotsUntouched DEF Register
    <2> QED BY <2>2, <2>3
  <1> QED BY <1>1, <1>2, <1>3, <1>4

LEMMA ActivatingSnapshots ==
    ASSUME IInv, \/ \E g \in All : StartActivation(g)
                 \/ \E ok \in BOOLEAN : OpenCandidate(ok) \/ MoveMark(ok) \/ ReadBack(ok)
                 \/ RebuildForActivation \/ RestorePrevious \/ RebuildForRestore
    PROVE  SnapshotsAreKnown'
  <1> USE DEF IInv, AgreeInv, CatalogInv
  <1>1. ASSUME NEW g \in All, StartActivation(g) PROVE SnapshotsAreKnown'
    BY <1>1, SnapshotsUntouched DEF StartActivation, Claim, catalog, Importing
  <1>2. CASE \/ \E ok \in BOOLEAN : OpenCandidate(ok) \/ MoveMark(ok) \/ ReadBack(ok)
             \/ RebuildForActivation \/ RestorePrevious \/ RebuildForRestore
    <2>1. /\ op \in Operations /\ op # NoOp
          /\ op.at \in {"open", "rebuild", "mark", "read", "restore", "reindex"}
      BY <1>2 DEF OpenCandidate, MoveMark, ReadBack, RebuildForActivation, RestorePrevious,
         RebuildForRestore, CatalogTypes, NoOp
    <2>2. op.gen \in All /\ row[op.gen] # "none"
      BY <2>1, OperationFields DEF ClaimIsTrue, Importing
    <2>3. UNCHANGED snapshotOf
      BY <1>2 DEF OpenCandidate, MoveMark, ReadBack, RebuildForActivation, RestorePrevious,
         RebuildForRestore, catalog
    <2>4. \/ UNCHANGED row \/ MarkFailed \/ row' = [row EXCEPT ![op.gen] = "available"]
      BY <1>2 DEF OpenCandidate, MoveMark, ReadBack, RebuildForActivation, RestorePrevious,
         RebuildForRestore, catalog
    <2>5. \A g \in All : row'[g] # "none" => row[g] # "none"
      BY <2>2, <2>4 DEF MarkFailed, CatalogTypes
    <2>6. op' = NoOp \/ op'.at \notin Importing
      <3>1. \/ op' = NoOp
            \/ op' = [kind |-> op.kind, gen |-> op.gen, at |-> "rebuild", previous |-> store]
            \/ /\ op.at \in Replacing \cup PuttingBack
               /\ \E a \in Replacing \cup PuttingBack : op' = [op EXCEPT !.at = a]
        BY <1>2 DEF OpenCandidate, MoveMark, ReadBack, RebuildForActivation, RestorePrevious,
           RebuildForRestore, Goes, Replacing, PuttingBack
      <3>2. ASSUME NEW a \in Replacing \cup PuttingBack, op' = [op EXCEPT !.at = a],
                   op.at \in Replacing \cup PuttingBack
            PROVE  op'.at = a
        BY <2>1, <3>2, OperationMoves
      <3> QED BY <3>1, <3>2 DEF Importing, Replacing, PuttingBack
    <2> QED BY <2>3, <2>5, <2>6, SnapshotsUntouched
  <1> QED BY <1>1, <1>2

LEMMA OtherSnapshots ==
    ASSUME IInv, \/ \E g \in All : StartRemoval(g)
                 \/ \E ok \in BOOLEAN : DeleteRow(ok) \/ CleanDirectory(ok) \/ FailRebuild(ok)
                 \/ \E opens, loads \in BOOLEAN : Restart(opens, loads)
                 \/ CancelOperation \/ UiStart \/ UiBegin \/ ReadBatch
                 \/ CompleteRebuild \/ CleanSearchCache \/ UNCHANGED vars
    PROVE  SnapshotsAreKnown'
  <1> USE DEF IInv, AgreeInv, CatalogInv
  <1>1. ASSUME NEW g \in All, StartRemoval(g) PROVE SnapshotsAreKnown'
    BY <1>1, SnapshotsUntouched DEF StartRemoval, Claim, Importing
  <1>2. ASSUME NEW ok \in BOOLEAN, DeleteRow(ok) PROVE SnapshotsAreKnown'
    <2>1. op \in Operations /\ op # NoOp /\ op.at = "delete" /\ op.gen \in All
      BY <1>2, OperationFields DEF DeleteRow, At, NoOp, CatalogTypes
    <2>2. op' = NoOp \/ op'.at = "clean"
      BY <1>2, <2>1, OperationMoves DEF DeleteRow, Goes
    <2>3. UNCHANGED snapshotOf /\ (UNCHANGED row \/ row' = [row EXCEPT ![op.gen] = "none"])
      BY <1>2 DEF DeleteRow
    <2>4. \A g \in All : row'[g] # "none" => row[g] # "none"
      BY <2>3 DEF CatalogTypes
    <2> QED BY <2>2, <2>3, <2>4, SnapshotsUntouched DEF Importing
  <1>3. ASSUME NEW ok \in BOOLEAN, CleanDirectory(ok) PROVE SnapshotsAreKnown'
    BY <1>3, SnapshotsUntouched DEF CleanDirectory
  <1>4. ASSUME NEW opens \in BOOLEAN, NEW loads \in BOOLEAN, Restart(opens, loads)
        PROVE  SnapshotsAreKnown'
    <2>1. \A g \in All : row'[g] # "none" => row[g] # "none"
      BY <1>4 DEF Restart, CatalogTypes, RowsHaveDirectories, All
    <2> QED BY <1>4, <2>1, SnapshotsUntouched DEF Restart
  <1>5. CASE \/ CancelOperation \/ UiStart \/ UiBegin \/ ReadBatch \/ CleanSearchCache
             \/ UNCHANGED vars
    <2>1. UNCHANGED <<row, op, snapshotOf>>
      BY <1>5 DEF CancelOperation, UiStart, UiBegin, ReadBatch, CleanSearchCache, catalog, vars
    <2> QED BY <2>1 DEF SnapshotsAreKnown
  <1>6. CASE CompleteRebuild \/ \E ok \in BOOLEAN : FailRebuild(ok)
    <2>1. rebuild # NoRebuild /\ UNCHANGED snapshotOf /\ \E ok \in BOOLEAN : Resume(ok)
      BY <1>6 DEF CompleteRebuild, FailRebuild
    <2>2. rebuild.owner \in {"activation", "restore", "ui"}
      BY <2>1, RebuildFields DEF IndexInv, IndexTypes
    <2>3. CASE rebuild.owner = "ui"
      BY <2>1, <2>3 DEF Resume, SnapshotsAreKnown
    <2>4. CASE rebuild.owner = "activation"
      <3>1. op \in Operations /\ op # NoOp /\ op.at = "rebuilding"
        BY <2>1, <2>4 DEF RebuildIsAwaited, CatalogTypes
      <3>2. \E a \in {"mark", "restore"} : op' = [op EXCEPT !.at = a]
        BY <2>1, <2>4 DEF Resume, Goes
      <3>3. op'.at \in {"mark", "restore"} /\ UNCHANGED row
        BY <2>1, <2>4, <3>1, <3>2, OperationMoves DEF Resume, Replacing
      <3> QED BY <2>1, <3>3, SnapshotsUntouched DEF Importing
    <2>5. CASE rebuild.owner = "restore"
      <3>1. op # NoOp /\ op.at = "reindexing" /\ op' = NoOp /\ MarkFailed
        BY <2>1, <2>5 DEF Resume, RebuildIsAwaited
      <3>2. op.gen \in All /\ row[op.gen] # "none"
        BY <3>1, OperationFields DEF CatalogTypes, ClaimIsTrue, Importing
      <3> QED BY <2>1, <3>1, <3>2, SnapshotsUntouched DEF MarkFailed, CatalogTypes
    <2> QED BY <2>2, <2>3, <2>4, <2>5
  <1> QED BY <1>1, <1>2, <1>3, <1>4, <1>5, <1>6

-----------------------------------------------------------------------------
(* The invariant, and what follows from it in every state.                 *)

THEOREM Inductive == Spec => []IInv
  <1>1. Init => IInv
    <2> SUFFICES ASSUME Init PROVE IInv
      OBVIOUS
    <2>1. CatalogInv
      <3>1. CatalogTypes
        <4>1. /\ row \in [All -> {"none", "available", "failed"}]
              /\ dir \in [All -> {"none", "building", "whole", "deleting"}]
          BY DEF Init
        <4>2. active \in All /\ store \in All /\ op \in Operations /\ cancelled \in BOOLEAN
          BY DEF Init, Operations, All
        <4>3. faults \in 0..MaxFaults /\ restarts \in 0..MaxRestarts
          BY BoundsAreNumbers DEF Init
        <4> QED BY <4>1, <4>2, <4>3 DEF CatalogTypes
      <3>2. RowsHaveDirectories
        BY DEF Init, RowsHaveDirectories, All
      <3>3. ClaimIsTrue /\ StoreFollowsOperation
        BY DEF Init, ClaimIsTrue, StoreFollowsOperation
      <3> QED BY <3>1, <3>2, <3>3 DEF CatalogInv
    <2>2. IndexTypes
      BY BoundsAreNumbers DEF Init, IndexTypes, Rebuilds, Statuses
    <2>3. IndexesAreRead /\ RebuildIsRead /\ IndexIsKept /\ RebuildIsAwaited
      BY DEF Init, IndexesAreRead, RebuildIsRead, IndexIsKept, StatusIsOf, RebuildIsAwaited
    <2>4. SnapshotsAreKnown
      BY SnapshotsAreNamed DEF Init, SnapshotsAreKnown
    <2> QED BY <2>1, <2>2, <2>3, <2>4 DEF IInv, AgreeInv, IndexInv
  <1>2. IInv /\ [Next]_vars => AgreeInv'
    <2> SUFFICES ASSUME IInv, [Next]_vars PROVE AgreeInv'
      OBVIOUS
    <2>1. CASE \E g \in Generations : StartImport(g)
      BY <2>1, StartImportKeeps
    <2>2. CASE \E g \in All : StartActivation(g) \/ StartRemoval(g)
      BY <2>2, StartActivationKeeps, StartRemovalKeeps
    <2>3. CASE \E ok \in BOOLEAN : FinishBuilding(ok) \/ Register(ok)
      BY <2>3, FinishBuildingKeeps, RegisterKeeps
    <2>4. CASE \E ok \in BOOLEAN : OpenCandidate(ok) \/ MoveMark(ok) \/ ReadBack(ok)
      BY <2>4, OpenCandidateKeeps, MoveMarkKeeps, ReadBackKeeps
    <2>5. CASE \E ok \in BOOLEAN : DeleteRow(ok) \/ CleanDirectory(ok) \/ FailRebuild(ok)
      BY <2>5, DeleteRowKeeps, CleanDirectoryKeeps, FailRebuildKeeps
    <2>6. CASE \E opens, loads \in BOOLEAN : Restart(opens, loads)
      BY <2>6, RestartKeeps
    <2>7. CASE CreateBuilding \/ RebuildForActivation \/ RestorePrevious \/ RebuildForRestore
      BY <2>7, CreateBuildingKeeps, RebuildForActivationKeeps, RestorePreviousKeeps,
         RebuildForRestoreKeeps
    <2>8. CASE CancelOperation \/ UiStart \/ UiBegin \/ ReadBatch
      BY <2>8, CancelOperationKeeps, UiStartKeeps, UiBeginKeeps, ReadBatchKeeps
    <2>9. CASE CompleteRebuild \/ CleanSearchCache
      BY <2>9, CompleteRebuildKeeps, CleanSearchCacheKeeps
    <2>10. CASE UNCHANGED vars
      <3>1. /\ UNCHANGED <<store, rebuild, index, snapshotOf>>
            /\ UNCHANGED <<catalog, store, op, restarts>>
        BY <2>10 DEF vars, catalog, index
      <3>2. UNCHANGED <<ui, cancelled, faults>>
        BY <2>10 DEF vars
      <3> QED BY <3>1, <3>2, IndexUntouched, CatalogUntouched, AwaitingUntouched
              DEF IInv, AgreeInv, IndexInv, IndexTypes, CatalogInv, CatalogTypes
    <2> QED BY <2>1, <2>2, <2>3, <2>4, <2>5, <2>6, <2>7, <2>8, <2>9, <2>10 DEF Next
  <1>3. IInv /\ [Next]_vars => SnapshotsAreKnown'
    BY ImportingSnapshots, ActivatingSnapshots, OtherSnapshots DEF Next
  <1>4. IInv /\ [Next]_vars => IInv'
    BY <1>2, <1>3 DEF IInv
  <1> QED BY <1>1, <1>4, PTL DEF Spec

\* Every reachable state of the catalogs and the search index is well typed.
THEOREM TypeCorrect == Spec => []TypeOK
  <1>1. IInv => TypeOK
    BY DEF IInv, AgreeInv, CatalogInv, CatalogTypes, IndexInv, IndexTypes, SnapshotsAreKnown, TypeOK
  <1> QED BY <1>1, Inductive, PTL

-----------------------------------------------------------------------------
(* What an activation marks is what it indexed.                            *)

\* While an activation goes from its rebuild to the mark, whoever rebuilds the index
\* reads the generation that is activated.
RebuildIsItsOwn ==
    rebuild # NoRebuild /\ op # NoOp /\ op.at \in {"rebuilding", "mark", "read"} =>
        \A b \in DOMAIN rebuild.from : rebuild.from[b] = op.gen

MarkInv == RebuildIsItsOwn /\ MarkedIsIndexed

\* Nothing is said of an operation that is at another step.
LEMMA ElsewhereNothingIsMarked ==
    ASSUME op' = NoOp \/ op'.at \notin {"rebuilding", "mark", "read"}
    PROVE  MarkInv'
  BY DEF MarkInv, RebuildIsItsOwn, MarkedIsIndexed

LEMMA CatalogStepsKeepMark ==
    ASSUME IInv, MarkInv,
           \/ \E g \in Generations : StartImport(g)
           \/ \E g \in All : StartActivation(g) \/ StartRemoval(g)
           \/ \E ok \in BOOLEAN : FinishBuilding(ok) \/ Register(ok) \/ DeleteRow(ok)
           \/ \E ok \in BOOLEAN : CleanDirectory(ok) \/ OpenCandidate(ok) \/ ReadBack(ok)
           \/ \E opens, loads \in BOOLEAN : Restart(opens, loads)
           \/ CreateBuilding \/ RestorePrevious \/ RebuildForRestore
    PROVE  MarkInv'
  <1> USE DEF IInv, AgreeInv, CatalogInv
  <1>1. CASE \/ \E g \in Generations : StartImport(g)
             \/ \E g \in All : StartActivation(g) \/ StartRemoval(g)
             \/ \E opens, loads \in BOOLEAN : Restart(opens, loads)
    <2>1. op' = NoOp \/ op'.at \in {"build", "open", "delete"}
      BY <1>1 DEF StartImport, StartActivation, StartRemoval, Claim, Restart
    <2> QED BY <2>1, ElsewhereNothingIsMarked
  <1>2. CASE \/ \E ok \in BOOLEAN : FinishBuilding(ok) \/ Register(ok) \/ DeleteRow(ok)
             \/ \E ok \in BOOLEAN : CleanDirectory(ok) \/ OpenCandidate(ok) \/ ReadBack(ok)
             \/ CreateBuilding \/ RestorePrevious \/ RebuildForRestore
    <2>1. op \in Operations /\ op # NoOp
      BY <1>2 DEF FinishBuilding, Register, DeleteRow, CleanDirectory, OpenCandidate, ReadBack,
         CreateBuilding, RestorePrevious, RebuildForRestore, At, NoOp, CatalogTypes
    <2>2. \/ op' = NoOp
          \/ op' = [kind |-> op.kind, gen |-> op.gen, at |-> "rebuild", previous |-> store]
          \/ /\ op.at \in Importing
             /\ \E a \in Importing \cup {"open"} : op' = [op EXCEPT !.at = a]
          \/ op.at = "delete" /\ op' = [op EXCEPT !.at = "clean"]
          \/ /\ op.at \in Replacing \cup PuttingBack
             /\ \E a \in PuttingBack : op' = [op EXCEPT !.at = a]
      BY <1>2 DEF FinishBuilding, Register, DeleteRow, CleanDirectory, OpenCandidate, ReadBack,
         CreateBuilding, RestorePrevious, RebuildForRestore, At, Goes, Importing, Replacing,
         PuttingBack
    <2>3. op' = NoOp \/ op'.at \notin {"rebuilding", "mark", "read"}
      <3>1. ASSUME NEW a, op' = [op EXCEPT !.at = a],
                   \/ op.at \in Importing /\ a \in Importing \cup {"open"}
                   \/ op.at = "delete" /\ a = "clean"
                   \/ op.at \in Replacing \cup PuttingBack /\ a \in PuttingBack
            PROVE  op'.at \notin {"rebuilding", "mark", "read"}
        <4>1. op'.at = a
          BY <2>1, <3>1, OperationMoves
        <4> QED BY <3>1, <4>1 DEF Importing, PuttingBack
      <3> QED BY <2>2, <3>1
    <2> QED BY <2>3, ElsewhereNothingIsMarked
  <1> QED BY <1>1, <1>2

LEMMA MoveMarkKeepsMark ==
    ASSUME IInv, MarkInv, NEW ok \in BOOLEAN, MoveMark(ok)
    PROVE  MarkInv'
  <1>1. op \in Operations /\ op # NoOp /\ op.at = "mark"
    BY DEF MoveMark, IInv, AgreeInv, CatalogInv, CatalogTypes
  <1>2. \E a \in {"read", "restore"} : op' = [op EXCEPT !.at = a]
    BY DEF MoveMark, Goes
  <1>3. op' # NoOp /\ op'.gen = op.gen
    BY <1>1, <1>2, OperationMoves DEF Replacing
  <1>4. UNCHANGED <<rebuild, disk, loaded>>
    BY DEF MoveMark, index
  <1> QED BY <1>1, <1>3, <1>4 DEF MarkInv, RebuildIsItsOwn, MarkedIsIndexed

\* A rebuild that begins has read nothing yet.
LEMMA BeginningKeepsMark ==
    ASSUME IInv, MarkInv, RebuildForActivation \/ UiBegin
    PROVE  MarkInv'
  <1>1. CASE RebuildForActivation
    <2>1. op \in Operations /\ op # NoOp /\ op.at = "rebuild"
      BY <1>1 DEF RebuildForActivation, IInv, AgreeInv, CatalogInv, CatalogTypes
    <2>2. CASE Goes("rebuilding") /\ BeginRebuild("activation")
      <3>1. op'.at = "rebuilding" /\ op' # NoOp
        BY <2>1, <2>2, OperationMoves DEF Goes, Replacing
      <3>2. rebuild'.from = <<>>
        BY <2>2 DEF BeginRebuild
      <3> QED BY <3>1, <3>2 DEF MarkInv, RebuildIsItsOwn, MarkedIsIndexed
    <2>3. CASE Goes("restore")
      <3>1. op'.at = "restore"
        BY <2>1, <2>3, OperationMoves DEF Goes, Replacing
      <3> QED BY <3>1, ElsewhereNothingIsMarked
    <2> QED BY <1>1, <2>2, <2>3 DEF RebuildForActivation
  <1>2. CASE UiBegin
    <2>1. /\ UNCHANGED <<op, disk, loaded>>
          /\ UNCHANGED rebuild \/ rebuild'.from = <<>>
      BY <1>2 DEF UiBegin, BeginRebuild
    <2> QED BY <2>1 DEF MarkInv, RebuildIsItsOwn, MarkedIsIndexed
  <1> QED BY <1>1, <1>2

\* A batch is read from the generation that is served, which is the one activated.
LEMMA ReadBatchKeepsMark ==
    ASSUME IInv, MarkInv, ReadBatch
    PROVE  MarkInv'
  <1>1. /\ UNCHANGED <<op, disk, loaded>> /\ rebuild # NoRebuild
        /\ rebuild' = [rebuild EXCEPT !.from = Append(@, store)]
    BY DEF ReadBatch, index
  <1>2. /\ rebuild \in [owner : {"activation", "restore", "ui"}, of : Snapshots, from : Seq(All),
                        before : Statuses]
        /\ store \in All
    BY <1>1 DEF IInv, AgreeInv, IndexInv, IndexTypes, Rebuilds, CatalogInv, CatalogTypes
  <1>3. rebuild'.from = Append(rebuild.from, store) /\ rebuild.from \in Seq(All)
    BY <1>1, <1>2
  <1>4. \A b \in DOMAIN rebuild'.from :
            \/ b \in DOMAIN rebuild.from /\ rebuild'.from[b] = rebuild.from[b]
            \/ rebuild'.from[b] = store
    BY <1>2, <1>3
  <1>5. op # NoOp /\ op.at \in {"rebuilding", "mark", "read"} => store = op.gen
    BY DEF IInv, AgreeInv, CatalogInv, StoreFollowsOperation, Replacing
  <1> QED BY <1>1, <1>4, <1>5 DEF MarkInv, RebuildIsItsOwn, MarkedIsIndexed

LEMMA RebuildEndKeepsMark ==
    ASSUME IInv, MarkInv, CompleteRebuild \/ \E cancel \in BOOLEAN : FailRebuild(cancel)
    PROVE  MarkInv'
  <1> USE DEF IInv, AgreeInv
  <1>1. rebuild # NoRebuild /\ rebuild' = NoRebuild
    BY DEF CompleteRebuild, FailRebuild
  <1>2. rebuild.owner \in {"activation", "restore", "ui"}
    BY <1>1, RebuildFields DEF IndexInv, IndexTypes
  <1>3. rebuild.owner = "activation" => op \in Operations /\ op # NoOp /\ op.at = "rebuilding"
    BY <1>1 DEF RebuildIsAwaited, CatalogInv, CatalogTypes
  <1>4. CASE CompleteRebuild
    <2> DEFINE built == [n |-> builds, of |-> rebuild.of, from |-> rebuild.from]
    <2>1. /\ loaded' = built /\ disk' = Cleaned(disk \cup {built}, built) /\ Resume(TRUE)
      BY <1>4 DEF CompleteRebuild
    <2>2. loaded' \in disk' /\ loaded'.from = rebuild.from
      BY <2>1, CleanupKeepsTheUsed
    <2>3. CASE rebuild.owner = "ui"
      BY <1>1, <2>1, <2>2, <2>3 DEF Resume, MarkInv, RebuildIsItsOwn, MarkedIsIndexed
    <2>4. CASE rebuild.owner = "activation"
      <3>1. op'.gen = op.gen
        BY <1>3, <2>1, <2>4, OperationMoves DEF Resume, Goes, Replacing
      <3>2. \A b \in DOMAIN rebuild.from : rebuild.from[b] = op.gen
        BY <1>1, <1>3, <2>4 DEF MarkInv, RebuildIsItsOwn
      <3> QED BY <1>1, <2>2, <3>1, <3>2 DEF MarkInv, RebuildIsItsOwn, MarkedIsIndexed
    <2>5. CASE rebuild.owner = "restore"
      BY <2>1, <2>5, ElsewhereNothingIsMarked DEF Resume
    <2> QED BY <1>2, <2>3, <2>4, <2>5
  <1>5. CASE \E cancel \in BOOLEAN : FailRebuild(cancel)
    <2>1. UNCHANGED <<disk, loaded>> /\ Resume(FALSE)
      BY <1>5 DEF FailRebuild
    <2>2. CASE rebuild.owner = "ui"
      BY <1>1, <2>1, <2>2 DEF Resume, MarkInv, RebuildIsItsOwn, MarkedIsIndexed
    <2>3. CASE rebuild.owner = "activation"
      <3>1. op'.at = "restore"
        BY <1>3, <2>1, <2>3, OperationMoves DEF Resume, Goes, Replacing
      <3> QED BY <3>1, ElsewhereNothingIsMarked
    <2>4. CASE rebuild.owner = "restore"
      BY <2>1, <2>4, ElsewhereNothingIsMarked DEF Resume
    <2> QED BY <1>2, <2>2, <2>3, <2>4
  <1> QED BY <1>4, <1>5

LEMMA QuietStepsKeepMark ==
    ASSUME IInv, MarkInv, CancelOperation \/ UiStart \/ CleanSearchCache \/ UNCHANGED vars
    PROVE  MarkInv'
  <1>1. UNCHANGED <<op, rebuild, loaded>>
    BY DEF CancelOperation, UiStart, CleanSearchCache, index, vars
  <1>2. loaded \in disk => loaded \in disk'
    BY CleanupKeepsTheUsed DEF CancelOperation, UiStart, CleanSearchCache, index, vars
  <1> QED BY <1>1, <1>2 DEF MarkInv, RebuildIsItsOwn, MarkedIsIndexed

\* An activation marks nothing but what the index in use was read from.
THEOREM MarksWhatItIndexed == Spec => []MarkInv
  <1>1. Init => MarkInv
    BY DEF Init, MarkInv, RebuildIsItsOwn, MarkedIsIndexed
  <1>2. IInv /\ MarkInv /\ [Next]_vars => MarkInv'
    BY CatalogStepsKeepMark, MoveMarkKeepsMark, BeginningKeepsMark, ReadBatchKeepsMark,
       RebuildEndKeepsMark, QuietStepsKeepMark DEF Next
  <1> QED BY <1>1, <1>2, Inductive, PTL DEF Spec

\* The catalog that is marked active is the one that is served when no operation runs, a
\* ready index was read whole from one generation of the snapshot that is served, and an
\* activation marks only what the index was read from, whatever fails or overlaps.
THEOREM MarkedServedAndSearched == Spec => []ServedAndSearchedAgree
  <1>1. IInv /\ MarkInv => ServedAndSearchedAgree
    <2> SUFFICES ASSUME IInv, MarkInv PROVE ServedAndSearchedAgree
      OBVIOUS
    <2>1. ServedIsMarked
      BY DEF IInv, AgreeInv, CatalogInv, StoreFollowsOperation, ServedIsMarked
    <2>2. ASSUME SearchStatus = "ready"
          PROVE  /\ loaded \in disk
                 /\ \/ loaded.n \in torn
                    \/ \E g \in All : /\ snapshotOf[g] = snapshotOf[store]
                                     /\ \A b \in DOMAIN loaded.from : loaded.from[b] = g
      <3>1. status.state = "ready" /\ status.of = snapshotOf[store]
        BY <2>2 DEF SearchStatus
      <3>2. loaded \in disk /\ loaded.of = snapshotOf[store]
        BY <3>1 DEF IInv, AgreeInv, IndexInv, IndexIsKept, StatusIsOf
      <3> QED BY <3>2 DEF IInv, AgreeInv, IndexInv, IndexesAreRead, ReadFrom
    <2> QED BY <2>1, <2>2 DEF ServedAndSearchedAgree, ReadyIndexIsTheCatalog, MarkInv
  <1> QED BY <1>1, Inductive, MarksWhatItIndexed, PTL

-----------------------------------------------------------------------------
(* The refinement: what each step does to the catalogs the user has.       *)

\* A step that keeps the mark, which catalogs have a row and which of those have a
\* directory shows nothing to the user.
LEMMA PromiseUntouched ==
    ASSUME UNCHANGED active,
           \A g \in All : row'[g] # "none" /\ dir'[g] \in {"whole", "deleting"} <=>
                          row[g] # "none" /\ dir[g] \in {"whole", "deleting"}
    PROVE  UNCHANGED <<Kept, active>>
  BY DEF Kept

\* Registering is the moment of an import.
LEMMA RegisterImports ==
    ASSUME IInv, NEW ok \in BOOLEAN, Register(ok)
    PROVE  (\E g \in Generations : Promise!Import(g)) \/ UNCHANGED <<Kept, active>>
  <1> USE DEF IInv, AgreeInv, CatalogInv
  <1>1. op \in Operations /\ op # NoOp /\ op.at = "register" /\ op.kind = "import"
    BY DEF Register, At, NoOp, CatalogTypes
  <1>2. op.gen \in All /\ row[op.gen] = "none" /\ dir[op.gen] = "whole" /\ op.gen # Embedded
    BY <1>1, OperationFields DEF ClaimIsTrue, Importing, RowsHaveDirectories
  <1>3. CASE ok
    <2>1. row' = [row EXCEPT ![op.gen] = "available"] /\ UNCHANGED <<dir, active>>
      BY <1>3 DEF Register
    <2>2. op.gen \notin Kept /\ Kept' = Kept \cup {op.gen}
      BY <1>2, <2>1 DEF Kept, CatalogTypes
    <2> QED BY <1>2, <2>1, <2>2 DEF Promise!Import, All
  <1>4. CASE ~ok
    <2>1. dir' = [dir EXCEPT ![op.gen] = "none"] /\ UNCHANGED <<row, active>>
      BY <1>4 DEF Register
    <2> QED BY <1>2, <2>1, PromiseUntouched DEF CatalogTypes
  <1> QED BY <1>3, <1>4

\* Deleting the row is the moment of a removal.
LEMMA DeleteRowRemoves ==
    ASSUME IInv, NEW ok \in BOOLEAN, DeleteRow(ok)
    PROVE  (\E g \in Generations : Promise!Remove(g)) \/ UNCHANGED <<Kept, active>>
  <1> USE DEF IInv, AgreeInv, CatalogInv
  <1>1. /\ op # NoOp /\ op.gen \in All /\ op.gen # Embedded /\ row[op.gen] # "none"
        /\ UNCHANGED active
    BY OperationFields DEF DeleteRow, At, NoOp, CatalogTypes, ClaimIsTrue, Importing
  <1>2. CASE ok /\ active # op.gen
    <2>1. row' = [row EXCEPT ![op.gen] = "none"] /\ UNCHANGED dir
      BY <1>2 DEF DeleteRow
    <2>2. op.gen \in Kept /\ Kept' = Kept \ {op.gen}
      BY <1>1, <2>1 DEF Kept, CatalogTypes, RowsHaveDirectories
    <2> QED BY <1>1, <1>2, <2>2 DEF Promise!Remove, All
  <1>3. CASE ~(ok /\ active # op.gen)
    <2>1. dir' = [dir EXCEPT ![op.gen] = IF @ = "deleting" THEN "whole" ELSE @] /\ UNCHANGED row
      BY <1>3 DEF DeleteRow
    <2> QED BY <1>1, <2>1, PromiseUntouched DEF CatalogTypes
  <1> QED BY <1>2, <1>3

\* Moving the mark is the moment of an activation.
LEMMA MoveMarkActivates ==
    ASSUME IInv, NEW ok \in BOOLEAN, MoveMark(ok)
    PROVE  \/ \E g \in Generations \cup {Embedded} : Promise!Activate(g)
           \/ UNCHANGED <<Kept, active>>
  <1> USE DEF IInv, AgreeInv, CatalogInv
  <1>1. op # NoOp /\ op.gen \in All /\ row[op.gen] # "none" /\ UNCHANGED dir
    BY OperationFields DEF MoveMark, CatalogTypes, ClaimIsTrue, Importing
  <1>2. CASE ok
    <2>1. active' = op.gen /\ row' = [row EXCEPT ![op.gen] = "available"]
      BY <1>2 DEF MoveMark
    <2>2. op.gen \in Kept /\ UNCHANGED Kept
      BY <1>1, <2>1 DEF Kept, CatalogTypes, RowsHaveDirectories
    <2> QED BY <1>1, <2>1, <2>2 DEF Promise!Activate, All
  <1>3. CASE ~ok
    <2>1. UNCHANGED <<active, row>>
      BY <1>3 DEF MoveMark
    <2> QED BY <1>1, <2>1, PromiseUntouched
  <1> QED BY <1>2, <1>3

\* A restart puts back what was set aside and drops what was half built, which changes
\* no catalog; it falls back to the embedded one when the active one does not open.
LEMMA RestartFallsBack ==
    ASSUME IInv, NEW opens \in BOOLEAN, NEW loads \in BOOLEAN, Restart(opens, loads)
    PROVE  Promise!FallBack \/ UNCHANGED <<Kept, active>>
  <1> USE DEF IInv, AgreeInv, CatalogInv
  <1>1. /\ active' = IF opens THEN active ELSE Embedded
        /\ row' = IF opens THEN row
                  ELSE [row EXCEPT ![active] = "failed", ![Embedded] = "available"]
        /\ dir' = [g \in All |-> CleanAbandoned(g)]
    BY DEF Restart
  <1>2. \A g \in All : row'[g] # "none" <=> row[g] # "none"
    BY <1>1 DEF CatalogTypes, RowsHaveDirectories, All
  <1>3. \A g \in All : row[g] # "none" => dir[g] \in {"whole", "deleting"} /\ dir'[g] = "whole"
    BY <1>1 DEF CleanAbandoned, CatalogTypes, RowsHaveDirectories
  <1>4. UNCHANGED Kept
    BY <1>2, <1>3 DEF Kept
  <1> QED BY <1>1, <1>4 DEF Promise!FallBack

\* Marking the row of a catalog leaves it a row.
LEMMA MarkingIsUnseen ==
    ASSUME IInv, op # NoOp, op.at \in {"open", "read", "reindex", "reindexing"},
           MarkFailed \/ UNCHANGED row, UNCHANGED <<dir, active>>
    PROVE  UNCHANGED <<Kept, active>>
  <1>1. op.gen \in All /\ row[op.gen] # "none" /\ CatalogTypes
    BY OperationFields DEF IInv, AgreeInv, CatalogInv, CatalogTypes, ClaimIsTrue, Importing
  <1>2. \A g \in All : row'[g] = "none" <=> row[g] = "none"
    BY <1>1, RowsRemain
  <1> QED BY <1>2, PromiseUntouched

\* The steps of an import before it registers touch a directory without a row, and so does
\* the cleaning after a removal.
LEMMA BuildingIsUnseen ==
    ASSUME IInv, \/ CreateBuilding
                 \/ \E ok \in BOOLEAN : FinishBuilding(ok) \/ CleanDirectory(ok)
    PROVE  UNCHANGED <<Kept, active>>
  <1> USE DEF IInv, AgreeInv, CatalogInv
  <1>1. op # NoOp /\ op.at \in {"build", "finish", "clean"}
    BY DEF CreateBuilding, FinishBuilding, CleanDirectory, At, NoOp
  <1>2. op.gen \in All /\ row[op.gen] = "none"
    BY <1>1, OperationFields DEF CatalogTypes, ClaimIsTrue, Importing
  <1>3. /\ UNCHANGED <<row, active>>
        /\ \A g \in All : g # op.gen => dir'[g] = dir[g]
    BY DEF CreateBuilding, FinishBuilding, CleanDirectory, CatalogTypes
  <1> QED BY <1>2, <1>3, PromiseUntouched

\* The end of a rebuild shows only in the row of an import that was not activated.
LEMMA RebuildEndIsUnseen ==
    ASSUME IInv, CompleteRebuild \/ \E cancel \in BOOLEAN : FailRebuild(cancel)
    PROVE  UNCHANGED <<Kept, active>>
  <1>1. /\ rebuild # NoRebuild /\ UNCHANGED <<dir, active>>
        /\ \E ok \in BOOLEAN : Resume(ok)
    BY DEF CompleteRebuild, FailRebuild
  <1>2. rebuild.owner \in {"activation", "restore", "ui"}
    BY <1>1, RebuildFields DEF IInv, AgreeInv, IndexInv, IndexTypes
  <1>3. CASE rebuild.owner = "restore"
    <2>1. op # NoOp /\ op.at = "reindexing" /\ MarkFailed
      BY <1>1, <1>3 DEF Resume, IInv, AgreeInv, RebuildIsAwaited
    <2> QED BY <1>1, <2>1, MarkingIsUnseen
  <1>4. CASE rebuild.owner # "restore"
    BY <1>1, <1>2, <1>4, PromiseUntouched DEF Resume
  <1> QED BY <1>3, <1>4

\* Imports, activations and removals happen at once or not at all, whatever fails and
\* whenever the launcher stops: every step is a step of CatalogPromise or shows nothing.
THEOREM ImplementsPromise == Spec => KeepsPromise
  <1>1. Init => Promise!Init
    BY DEF Init, Promise!Init, Kept, All
  <1>2. IInv /\ [Next]_vars => [Promise!Next]_(Promise!promise)
    <2> SUFFICES ASSUME IInv, [Next]_vars
                 PROVE  Promise!Next \/ UNCHANGED <<Kept, active>>
      BY DEF Promise!promise
    <2>1. CASE \E ok \in BOOLEAN : Register(ok)
      BY <2>1, RegisterImports DEF Promise!Next
    <2>2. CASE \E ok \in BOOLEAN : DeleteRow(ok)
      BY <2>2, DeleteRowRemoves DEF Promise!Next
    <2>3. CASE \E ok \in BOOLEAN : MoveMark(ok)
      BY <2>3, MoveMarkActivates DEF Promise!Next
    <2>4. CASE \E opens, loads \in BOOLEAN : Restart(opens, loads)
      BY <2>4, RestartFallsBack DEF Promise!Next
    <2>5. CASE CreateBuilding \/ \E ok \in BOOLEAN : FinishBuilding(ok) \/ CleanDirectory(ok)
      BY <2>5, BuildingIsUnseen
    <2>6. CASE \E ok \in BOOLEAN : OpenCandidate(ok) \/ ReadBack(ok)
      <3>1. op # NoOp /\ op.at \in {"open", "read"}
        BY <2>6 DEF OpenCandidate, ReadBack, NoOp
      <3>2. (MarkFailed \/ UNCHANGED row) /\ UNCHANGED <<dir, active>>
        BY <2>6 DEF OpenCandidate, ReadBack
      <3> QED BY <3>1, <3>2, MarkingIsUnseen
    <2>7. CASE RebuildForRestore
      BY <2>7, MarkingIsUnseen DEF RebuildForRestore
    <2>8. CASE CompleteRebuild \/ \E ok \in BOOLEAN : FailRebuild(ok)
      BY <2>8, RebuildEndIsUnseen
    <2>9. CASE \E g \in All : StartRemoval(g)
      <3>1. PICK g \in All : StartRemoval(g)
        BY <2>9
      <3>2. /\ UNCHANGED <<row, active>>
            /\ dir' = [dir EXCEPT ![g] = IF @ = "whole" THEN "deleting" ELSE @]
        BY <3>1 DEF StartRemoval
      <3> QED BY <3>2, PromiseUntouched DEF IInv, AgreeInv, CatalogInv, CatalogTypes
    <2>10. CASE \/ \E g \in Generations : StartImport(g)
                \/ \E g \in All : StartActivation(g)
      BY <2>10, PromiseUntouched DEF StartImport, StartActivation, catalog
    <2>11. CASE RebuildForActivation \/ RestorePrevious \/ CancelOperation
      BY <2>11, PromiseUntouched DEF RebuildForActivation, RestorePrevious, CancelOperation, catalog
    <2>12. CASE UiStart \/ UiBegin \/ ReadBatch \/ CleanSearchCache
      BY <2>12, PromiseUntouched DEF UiStart, UiBegin, ReadBatch, CleanSearchCache, catalog
    <2>13. CASE UNCHANGED vars
      BY <2>13, PromiseUntouched DEF vars
    <2> QED BY <2>1, <2>2, <2>3, <2>4, <2>5, <2>6, <2>7, <2>8, <2>9, <2>10, <2>11, <2>12, <2>13
            DEF Next
  <1> QED BY <1>1, <1>2, Inductive, PTL DEF Spec, KeepsPromise, Promise!Spec

=============================================================================
