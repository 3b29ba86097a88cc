----------------------- MODULE PackageInstall_proofs ------------------------
(***************************************************************************)
(* Proofs about PackageInstall, for any number of installations, names,    *)
(* operations, crashes and visits: its type invariant, that what the user  *)
(* had at a destination is kept, that a recorded installation stays whole  *)
(* at its recorded name, and that a replacement that is not committed can  *)
(* be undone, each as long as no inspection has met a preparation and the  *)
(* cleanup has taken nothing of a folder that one is unpacking.            *)
(***************************************************************************)
EXTENDS PackageInstall, TLAPS

-----------------------------------------------------------------------------
(* The inductive invariant.  First what holds whatever is met, and what     *)
(* lies where as long as nothing is.                                        *)

\* Places of each actor.
Undoing      == {"recover", "reject", "restore", "drop"}
Committing   == {"commit", "unmark", "discard"}
Before       == {"preview", "select", "stage", "unpack", "mark", "activate",
                 "replace", "swap", "rename", "undo", "clear"}
After        == {"activated", "save", "rollback"}
PreparePlaces == {"idle", "sources"} \cup Undoing \cup Committing
                   \cup Before \cup After
InspectPlaces == {"idle"} \cup Undoing
CleanupPlaces == {"idle", "list", "sweep", "delete"} \cup Committing

\* The preparation is before its activation: its staging folder, if there
\* is one, is not in place.  A rollback ends, the other recoveries go on.
Early ==
  \/ P.pc \in Before
  \/ P.pc \in Undoing /\ P.back # "idle"

\* The preparation's installation is not recorded yet.
Unrecorded == P.pc \in Undoing \cup Before \cup After

PrepareOK ==
  /\ P.pc \in PreparePlaces
  /\ P.pc # "idle" => P.op = ops /\ P.op \in Ops /\ P.inst \in Installations
  /\ P.back \in {"preview", "select", "replace", "idle"}
  /\ P.fault \in {"idle", "clear"}
  /\ P.pc = "recover" => P.back # "idle"
  /\ P.policy # "KeepBoth" => P.name = 1
  /\ P.swapped => P.policy = "ReplaceExisting"
  /\ P.swapped => P.pc \notin Before \ {"rename", "undo", "clear"} /\ ~(P.pc \in Undoing /\ Early)
  /\ P.pc \in {"replace", "swap"} => P.policy = "ReplaceExisting"
  /\ P.pc = "undo" => P.swapped
  /\ P.pc \in Undoing /\ P.back = "replace" => P.policy = "ReplaceExisting"
  /\ P.pc \in Undoing /\ P.back = "idle" => P.fault = "idle"
  /\ Unrecorded => row[P.inst] = 0
  /\ P.pc \in Committing => row[P.inst] = P.name

InspectOK ==
  LET I == act["inspect"] IN
  /\ I.pc \in InspectPlaces
  /\ I.pc # "idle" => I.inst \in Installations
  /\ I.back = "idle" /\ I.fault = "idle"

CleanupOK ==
  LET C == act["cleanup"] IN
  /\ C.pc \in CleanupPlaces
  /\ C.pc \in Committing => C.name \in RecordedNames
  /\ C.todo \subseteq RecordedNames
  /\ C.pc = "delete" => C.op \in Ops

\* The backup an actor works with is of an operation whose marker was
\* written.
BackupsKnown ==
  \A a \in Actors : act[a].pc \in {"reject", "restore", "drop", "unmark", "discard"} =>
    /\ act[a].backup \in 1 .. ops
    /\ Early => act[a].backup # P.op

IsRejected(p) == p[1] \in {"rejected", "rejectedByInspection"}

\* The user's content is never changed; in a destination and among what was
\* rejected from one lie whole installations and the user's content; only
\* the latter is replaced, and staging folders are never the user's.
Fits(p, dir) ==
  /\ dir.of \in UserContents => dir = Folder(dir.of)
  /\ (p \in Names \/ IsRejected(p)) /\ dir.of \in Installations =>
       dir.whole /\ dir.installation
  /\ p[1] = "replaced" => dir.of \in UserContents
  /\ p[1] = "stage" => dir.of \in Installations
  /\ p \in Names /\ dir.replaces # 0 => p = Requested

Contents == \A p \in Paths : Exists(p) => Fits(p, fs[p])

\* The folder is unpacked; it is also marked as the installation.
Ready    == \/ P.pc \in {"activate", "replace", "swap", "rename", "undo"}
            \/ P.pc \in Undoing /\ P.back = "replace"
Unpacked == P.pc = "mark" \/ Ready

\* What the preparation has unpacked, at the places that rely on it.
StagingOK ==
  LET p == Staging(P.op) IN
  Early /\ P.op \in Ops /\ Exists(p) =>
    /\ P.pc = "unpack" \/ Unpacked =>
         fs[p].of = P.inst /\ fs[p].replaces = IF P.swapped THEN P.op ELSE 0
    /\ Unpacked => fs[p].whole
    /\ Ready => fs[p].installation

\* One folder carries the marker of an operation, and before the activation
\* it is the staging folder.
MarkersOnce ==
  \A p, q \in Paths : Exists(p) /\ Exists(q) /\ fs[p].replaces = fs[q].replaces =>
    fs[p].replaces = 0 \/ p = q

MarkersKnown ==
  \A p \in Paths : Exists(p) /\ fs[p].replaces # 0 =>
    /\ fs[p].replaces \in 1 .. ops
    /\ Early /\ fs[p].replaces = P.op => P.swapped /\ p = Staging(P.op)

\* What holds whatever is met.
Course ==
  /\ TypeOK
  /\ PrepareOK /\ InspectOK /\ CleanupOK
  /\ BackupsKnown
  /\ MarkersOnce
  /\ MarkersKnown

\* Together with what lies where.
Structure == Course /\ Contents /\ StagingOK

-----------------------------------------------------------------------------
(* Then what holds as long as no inspection or cleanup met a preparation.   *)

\* Only installations are rejected.
RejectedAreInstallations ==
  \A p \in Paths : Exists(p) /\ IsRejected(p) => fs[p].of \in Installations

\* The activated installation lies at its destination, and goes with its
\* replacement.
ActivatedInPlace ==
  P.pc \in After =>
    LET p == Destination("prepare") IN
    /\ Exists(p)
    /\ fs[p].of = P.inst
    /\ fs[p].replaces = IF P.swapped THEN P.op ELSE 0

\* Whose replacement is undone: the installation's the recovery is for; it
\* has been moved away and its backup is there.
UndoesItsOwn ==
  \A a \in Actors :
    LET b == act[a].backup IN
    /\ act[a].pc = "reject" =>
         \A p \in Paths : Exists(p) /\ fs[p].replaces = b => fs[p].of = act[a].inst
    /\ act[a].pc = "restore" =>
         /\ Exists(Rejected(a, b)) /\ fs[Rejected(a, b)].replaces = b
         /\ Exists(Replaced(b))

\* What was recorded to be replaced.
RecordedIsGiven ==
  \A i \in Installations : row[i] # 0 =>
    LET b == fs[<<"name", row[i]>>].replaces IN
    b # 0 /\ Exists(Replaced(b)) => fs[Replaced(b)].of \in given

\* A commit discards what was recorded to be replaced, and no marker is left
\* by which it could be undone.
CommitsWhatIsGiven ==
  \A a \in Actors :
    LET b == act[a].backup IN
    /\ act[a].pc \in {"unmark", "discard"} /\ Exists(Replaced(b)) =>
         fs[Replaced(b)].of \in given
    /\ act[a].pc = "unmark" => fs[Destination(a)].replaces \in {0, b}
    /\ act[a].pc = "discard" =>
         \A p \in Paths : Exists(p) => fs[p].replaces # b

\* What was renamed away is there when the replacement is activated.
ReplacedIsThere ==
  P.pc = "swap" \/ (P.pc = "rename" /\ P.swapped) => Exists(Replaced(P.op))

\* The three properties, as long as no preparation was met.
ContentsAreKept ==
  \A c \in placed : c \in given \/ \E p \in Paths : Holds(p, c)

RecordedAreInPlace ==
  \A i \in Installations : row[i] # 0 =>
    LET p == <<"name", row[i]>> IN
    Holds(p, i) /\ fs[p].whole /\ fs[p].installation

MarkedHaveTheirBackup ==
  \A p \in Names : HasReplacementMarker(p) => Exists(Replaced(fs[p].replaces))

Promises ==
  /\ RejectedAreInstallations
  /\ ActivatedInPlace
  /\ UndoesItsOwn
  /\ RecordedIsGiven
  /\ CommitsWhatIsGiven
  /\ ReplacedIsThere
  /\ ContentsAreKept
  /\ RecordedAreInPlace
  /\ MarkedHaveTheirBackup

IInv == Course /\ (~intruded => Contents /\ StagingOK /\ Promises)

-----------------------------------------------------------------------------
(* Paths, directories and the steps of the file system.                     *)

LEMMA FolderIsDirectory ==
  \A c \in UserContents : Folder(c) \in Directories /\ Folder(c) # Nothing
BY ConstantsAssumption
   DEF Folder, Nothing, Directories, UserContents, Progress, Orphan, Visitor

LEMMA NothingIsNoDirectory == Nothing \notin Directories
BY DEF Nothing, Directories

\* The kinds of paths are apart.
LEMMA PathKinds ==
  /\ Requested \in Names
  /\ \A p \in Names : p \in Paths /\ p[1] = "name" /\ ~IsRejected(p)
  /\ \A n \in 1 .. LastName : <<"name", n>> \in Names
  /\ \A op \in Ops :
       /\ Staging(op) \in Paths \ Names /\ Staging(op)[1] = "stage"
       /\ Replaced(op) \in Paths \ Names /\ Replaced(op)[1] = "replaced"
       /\ ~IsRejected(Staging(op)) /\ ~IsRejected(Replaced(op))
       /\ \A a \in Actors :
            Rejected(a, op) \in Paths \ Names /\ IsRejected(Rejected(a, op))
BY ConstantsAssumption
   DEF Requested, Names, Paths, Staging, Replaced, Rejected, IsRejected, Ops

LEMMA RenameMoves ==
  ASSUME TypeOK, NEW p \in Paths, NEW q \in Paths, CanRename(p, q), Rename(p, q)
  PROVE  /\ fs' \in [Paths -> Directories \cup {Nothing}]
         /\ p # q /\ fs'[p] = Nothing /\ fs'[q] = fs[p]
         /\ \A r \in Paths \ {p, q} : fs'[r] = fs[r]
BY DEF CanRename, Rename, TypeOK, Exists

LEMMA TryRenameTyped ==
  ASSUME TypeOK, NEW p \in Paths, NEW q \in Paths, TryRename(p, q)
  PROVE  fs' \in [Paths -> Directories \cup {Nothing}]
BY DEF TryRename, CanRename, Rename, TypeOK, Exists

LEMMA RemoveTakes ==
  ASSUME TypeOK, NEW p \in Paths, RemovePath(p)
  PROVE  /\ fs' \in [Paths -> Directories \cup {Nothing}]
         /\ fs'[p] = Nothing
         /\ \A r \in Paths \ {p} : fs'[r] = fs[r]
BY DEF RemovePath, TypeOK

\* What is left of a directory without one of its entries.
LEMMA RemnantsAreLess ==
  ASSUME NEW dir \in Directories, NEW remnant \in Remnants(dir)
  PROVE  /\ remnant \in Directories /\ remnant # Nothing
         /\ remnant.of = dir.of /\ remnant.replaces \in {0, dir.replaces}
<1>1. remnant \in Directories
  BY DEF Remnants, Directories
<1>2. remnant.of = dir.of /\ remnant.replaces \in {0, dir.replaces}
  BY DEF Remnants, Directories
<1> QED BY <1>1, <1>2, NothingIsNoDirectory

LEMMA AtRestTyped == AtRest \in Memory
BY ConstantsAssumption DEF AtRest, Memory, PCs, Policies

LEMMA InspectingTyped ==
  ASSUME NEW m \in Memory, NEW back \in PCs, NEW fault \in PCs
  PROVE  Inspecting(m, back, fault) \in Memory
<1>1. "recover" \in PCs
  BY DEF PCs
<1> QED BY <1>1 DEF Inspecting, Memory

LEMMA GotoTyped ==
  ASSUME TypeOK, NEW a \in Actors, NEW place \in PCs, Goto(a, place)
  PROVE  act' \in [Actors -> Memory]
BY AtRestTyped DEF Goto, TypeOK, Memory

\* The folders an actor works with are folders.
LEMMA PathsOfActors ==
  ASSUME Course
  PROVE  /\ Destination("prepare") \in Names /\ Destination("cleanup") \in Names
         /\ P.pc # "idle" => P.op \in Ops
         /\ \A a \in Actors :
              act[a].pc \in {"reject", "restore", "drop", "unmark", "discard"} =>
                act[a].backup \in Ops
<1>1. \A a \in Actors : Destination(a) \in Names
  BY PathKinds DEF Course, TypeOK, Memory, Destination
<1>2. 1 .. ops \subseteq Ops
  BY ConstantsAssumption DEF Course, TypeOK, Ops
<1> QED
  BY <1>1, <1>2 DEF Course, PrepareOK, BackupsKnown, Actors

-----------------------------------------------------------------------------
(* Types, and the places of the actors.                                     *)

LEMMA RecoveryTyped ==
  ASSUME Course, NEW a \in {"prepare", "inspect"}, RollbackReplacement(a)
  PROVE  TypeOK'
<1> USE PathKinds DEF Course
<1>1. a \in Actors /\ Rejected(a, act[a].backup) = Rejected(a, act[a].backup)
  BY DEF Actors
<1>2. act[a].fault \in PCs /\ act[a].back \in PCs
  BY <1>1 DEF TypeOK, Memory
<1>3. CASE Recover(a)
  <2>1. fs[Requested].replaces \in Ops \cup {0} \/ ~Exists(Requested)
    BY DEF TypeOK, Directories, Exists
  <2>2. act' \in [Actors -> Memory]
    BY <1>1, <1>2, <1>3, <2>1, GotoTyped
       DEF Recover, TypeOK, Memory, PCs, HasReplacementMarker
  <2> QED BY <1>3, <2>2 DEF Recover, TypeOK, Records, Counters
<1>4. CASE Reject(a)
  <2>1. act[a].backup \in Ops
    BY <1>1, <1>4, PathsOfActors DEF Reject, At
  <2>2. fs' \in [Paths -> Directories \cup {Nothing}]
    BY <1>1, <1>4, <2>1, RenameMoves DEF Reject, TypeOK
  <2>3. act' \in [Actors -> Memory]
    BY <1>1, <1>2, <1>4, GotoTyped DEF Reject, PCs
  <2> QED BY <1>4, <2>2, <2>3 DEF Reject, TypeOK, Records, Counters, Intrudes
<1>5. CASE Restore(a)
  <2>1. act[a].backup \in Ops
    BY <1>1, <1>5, PathsOfActors DEF Restore, At
  <2>2. fs' \in [Paths -> Directories \cup {Nothing}]
    BY <1>1, <1>5, <2>1, RenameMoves, TryRenameTyped DEF Restore
  <2>3. act' \in [Actors -> Memory]
    BY <1>1, <1>2, <1>5, GotoTyped DEF Restore, PCs
  <2> QED BY <1>5, <2>2, <2>3 DEF Restore, TypeOK, Records, Counters
<1>6. CASE Drop(a)
  <2>1. act[a].backup \in Ops
    BY <1>1, <1>6, PathsOfActors DEF Drop, At
  <2>2. fs' \in [Paths -> Directories \cup {Nothing}]
    BY <1>1, <1>6, <2>1, RemoveTakes DEF Drop, TypeOK
  <2>3. act' \in [Actors -> Memory]
    BY <1>1, <1>2, <1>6, GotoTyped DEF Drop
  <2> QED BY <1>6, <2>2, <2>3 DEF Drop, TypeOK, Records, Counters
<1> QED
  BY <1>3, <1>4, <1>5, <1>6 DEF RollbackReplacement

LEMMA CommitTyped ==
  ASSUME Course, NEW a \in {"prepare", "cleanup"},
         Commit(a) \/ Unmark(a) \/ Discard(a)
  PROVE  TypeOK'
<1> USE DEF Course
<1>1. a \in Actors /\ Destination(a) \in Names /\ Destination(a) \in Paths
  BY PathsOfActors, PathKinds DEF Actors
<1>2. \A p \in Paths : Exists(p) => fs[p] \in Directories
  BY DEF TypeOK, Exists
<1>3. CASE Commit(a)
  <2>1. act' \in [Actors -> Memory]
    BY <1>1, <1>2, <1>3, GotoTyped
       DEF Commit, HasReplacementMarker, TypeOK, Memory, Directories, PCs,
           AfterCommit, MarkerFirst
  <2> QED BY <1>3, <2>1 DEF Commit, TypeOK, Records, Counters
<1>4. CASE Unmark(a)
  <2>1. fs' \in [Paths -> Directories \cup {Nothing}]
    BY <1>1, <1>2, <1>4 DEF Unmark, HasReplacementMarker, TypeOK, Directories
  <2>2. act' \in [Actors -> Memory]
    BY <1>1, <1>4, GotoTyped DEF Unmark, PCs
  <2> QED BY <1>4, <2>1, <2>2 DEF Unmark, TypeOK, Records, Counters
<1>5. CASE Discard(a)
  <2>1. Replaced(act[a].backup) \in Paths
    BY <1>1, <1>5, PathsOfActors, PathKinds DEF Discard, At
  <2>2. fs' \in [Paths -> Directories \cup {Nothing}]
    BY <1>5, <2>1, RemoveTakes DEF Discard, TypeOK
  <2>3. act' \in [Actors -> Memory]
    BY <1>1, <1>5, GotoTyped DEF Discard, AfterCommit, PCs
  <2> QED BY <1>5, <2>2, <2>3 DEF Discard, TypeOK, Records, Counters
<1> QED
  BY <1>3, <1>4, <1>5

LEMMA PrepareTyped ==
  ASSUME Course, PrepareStep
  PROVE  TypeOK'
<1> USE DEF Course, P
<1> DEFINE fsOK  == fs' \in [Paths -> Directories \cup {Nothing}]
           actOK == act' \in [Actors -> Memory]
<1>1. P \in Memory /\ "prepare" \in Actors
  BY DEF TypeOK, Actors
<1>2. ASSUME At("prepare", "idle") PROVE FALSE
  BY <1>2 DEF PrepareStep, RollbackReplacement, Recover, Reject, Restore, Drop,
     Preview, Select, CreateStaging, Unpack, WriteMarker, Activate, Replace,
     WriteReplacementMarker, RenameIntoPlace, Undo, Clear, Activated,
     SavePrepared, Rollback, Commit, Unmark, Discard, DeleteSources, At
<1>3. /\ P.op \in Ops /\ P.inst \in Installations
      /\ Destination("prepare") \in Names
      /\ Staging(P.op) \in Paths /\ Replaced(P.op) \in Paths
      /\ Requested \in Paths /\ Destination("prepare") \in Paths
  BY <1>2, PathsOfActors, PathKinds DEF At, PrepareOK
<1>4. \A place \in PCs : Goto("prepare", place) => actOK
  BY <1>1, GotoTyped
<1>5. \A n \in FreeAlternatives : n \in 1 .. LastName
  BY DEF FreeAlternatives
<1>6. \A p \in Paths : Exists(p) => fs[p] \in Directories
  BY DEF TypeOK, Exists
<1>7. CASE RollbackReplacement("prepare")
  BY <1>7, RecoveryTyped
<1>8. CASE Preview
  <2>1. \A orphan \in BOOLEAN :
          Inspecting([P EXCEPT !.orphan = orphan], "select", "idle") \in Memory
    <3>1. \A orphan \in BOOLEAN : [P EXCEPT !.orphan = orphan] \in Memory
      BY <1>1 DEF Memory
    <3> QED BY <3>1, InspectingTyped DEF PCs
  <2>2. \E orphan \in BOOLEAN :
          act' = [act EXCEPT !["prepare"] =
                    Inspecting([P EXCEPT !.orphan = orphan], "select", "idle")]
    BY <1>8 DEF Preview
  <2>3. actOK
    BY <1>1, <2>1, <2>2 DEF TypeOK
  <2> QED BY <1>8, <2>3 DEF Preview, TypeOK, Records, Counters
<1>9. CASE Select
  <2>1. actOK
    <3>1. \A n \in 1 .. LastName : [P EXCEPT !.name = n, !.pc = "stage"] \in Memory
      BY <1>1 DEF Memory, PCs
    <3>2. ASSUME NEW n \in 1 .. LastName,
                 act' = [act EXCEPT !["prepare"].name = n, !["prepare"].pc = "stage"]
          PROVE  actOK
      BY <1>1, <3>1, <3>2 DEF TypeOK
    <3> QED BY <1>4, <1>5, <1>9, <3>2 DEF Select, PCs
  <2> QED BY <1>9, <2>1 DEF Select, TypeOK, Records, Counters
<1>10. CASE CreateStaging
  <2>1. fsOK
    <3>1. \A b \in BOOLEAN :
            [of |-> P.inst, whole |-> FALSE, tree |-> P.op, staging |-> b,
             installation |-> FALSE, replaces |-> 0] \in Directories
      BY <1>3 DEF Directories
    <3> QED BY <1>3, <1>10, <3>1 DEF CreateStaging, TypeOK
  <2>2. actOK
    BY <1>4, <1>10 DEF CreateStaging, PCs
  <2> QED BY <1>10, <2>1, <2>2 DEF CreateStaging, TypeOK, Records, Counters
<1>11. CASE Unpack
  <2>1. fsOK
    <3>1. \A d \in Directories :
            [d EXCEPT !.whole = TRUE, !.staging = FALSE] \in Directories
      BY DEF Directories
    <3>2. CASE Exists(Staging(P.op)) /\ fs' = [fs EXCEPT ![Staging(P.op)] =
                 [fs[Staging(P.op)] EXCEPT !.whole = TRUE, !.staging = FALSE]]
      BY <1>3, <1>6, <3>1, <3>2 DEF TypeOK
    <3>3. CASE fs' = fs
      BY <3>3 DEF TypeOK
    <3> QED BY <1>11, <3>2, <3>3 DEF Unpack
  <2>2. actOK
    BY <1>4, <1>11 DEF Unpack, PCs
  <2> QED BY <1>11, <2>1, <2>2 DEF Unpack, TypeOK, Records, Counters
<1>12. CASE WriteMarker
  <2>1. fsOK
    <3>1. \A d \in Directories : [d EXCEPT !.installation = TRUE] \in Directories
      BY DEF Directories
    <3> QED BY <1>3, <1>6, <1>12, <3>1 DEF WriteMarker, TypeOK
  <2>2. actOK
    BY <1>4, <1>12 DEF WriteMarker, PCs
  <2> QED BY <1>12, <2>1, <2>2 DEF WriteMarker, TypeOK, Records, Counters
<1>13. CASE Activate
  <2>1. actOK
    <3>1. Inspecting(P, "replace", "clear") \in Memory
      BY <1>1, InspectingTyped DEF PCs
    <3> QED BY <1>1, <1>4, <1>13, <3>1 DEF Activate, TypeOK, PCs
  <2> QED BY <1>13, <2>1 DEF Activate, TypeOK, Records, Counters
<1>14. CASE Replace
  <2>1. fsOK
    BY <1>3, <1>14, RenameMoves DEF Replace, TypeOK
  <2>2. actOK
    BY <1>4, <1>14 DEF Replace, PCs
  <2> QED BY <1>14, <2>1, <2>2 DEF Replace, TypeOK, Records, Counters
<1>15. CASE WriteReplacementMarker
  <2>1. fsOK
    BY <1>3, <1>6, <1>15, TryRenameTyped
       DEF WriteReplacementMarker, TypeOK, Directories
  <2>2. actOK
    BY <1>1, <1>4, <1>15 DEF WriteReplacementMarker, TypeOK, Memory, PCs
  <2> QED
    BY <1>15, <2>1, <2>2 DEF WriteReplacementMarker, TypeOK, Records, Counters
<1>16. CASE RenameIntoPlace
  <2>1. fsOK
    BY <1>3, <1>16, RenameMoves DEF RenameIntoPlace, MayActivate, TypeOK
  <2>2. actOK
    BY <1>1, <1>4, <1>5, <1>16 DEF RenameIntoPlace, TypeOK, Memory, PCs
  <2> QED BY <1>16, <2>1, <2>2 DEF RenameIntoPlace, TypeOK, Records, Counters
<1>17. CASE Undo
  <2>1. fsOK
    BY <1>3, <1>6, <1>17 DEF Undo, CanRename, Exists, TypeOK, Directories
  <2>2. actOK
    BY <1>4, <1>17 DEF Undo, PCs
  <2> QED BY <1>17, <2>1, <2>2 DEF Undo, TypeOK, Records, Counters
<1>18. CASE Clear
  <2>1. fsOK
    BY <1>3, <1>18, RemoveTakes DEF Clear, TypeOK
  <2>2. actOK
    BY <1>4, <1>18 DEF Clear, PCs
  <2> QED BY <1>18, <2>1, <2>2 DEF Clear, TypeOK, Records, Counters
<1>19. CASE Activated
  <2>1. actOK
    BY <1>4, <1>19 DEF Activated, PCs
  <2> QED BY <1>19, <2>1 DEF Activated, TypeOK, Records, Counters
<1>20. CASE SavePrepared
  <2>1. actOK
    BY <1>4, <1>20 DEF SavePrepared, PCs
  <2>2. row' \in [Installations -> 0 .. LastName]
    BY <1>1, <1>20 DEF SavePrepared, TypeOK, Memory
  <2>3. given' \subseteq UserContents \cup Installations
    BY <1>3, <1>6, <1>20 DEF SavePrepared, TypeOK, Directories
  <2> QED BY <1>20, <2>1, <2>2, <2>3 DEF SavePrepared, TypeOK, Counters
<1>21. CASE Rollback
  <2>1. fsOK
    BY <1>3, <1>21, RemoveTakes DEF Rollback, TypeOK
  <2>2. actOK
    BY <1>1, <1>3, <1>4, <1>6, <1>21
       DEF Rollback, HasReplacementMarker, TypeOK, Memory, Directories, PCs
  <2> QED BY <1>21, <2>1, <2>2 DEF Rollback, TypeOK, Records, Counters
<1>22. CASE Commit("prepare") \/ Unmark("prepare") \/ Discard("prepare")
  BY <1>22, CommitTyped
<1>23. CASE DeleteSources
  <2>1. actOK
    BY <1>4, <1>23 DEF DeleteSources, PCs
  <2> QED BY <1>23, <2>1 DEF DeleteSources, TypeOK, Counters
<1> QED
  BY <1>7, <1>8, <1>9, <1>10, <1>11, <1>12, <1>13, <1>14, <1>15, <1>16, <1>17,
     <1>18, <1>19, <1>20, <1>21, <1>22, <1>23 DEF PrepareStep

LEMMA OthersTyped ==
  ASSUME Course, Next, ~PrepareStep
  PROVE  TypeOK'
<1> USE DEF Course
<1>1. {"prepare", "inspect", "cleanup"} = Actors
  BY DEF Actors
<1>2. \A a \in Actors, place \in PCs : Goto(a, place) => act' \in [Actors -> Memory]
  BY GotoTyped
<1>3. CASE \E i \in Installations, policy \in Policies : Start(i, policy)
  <2>1. PICK i \in Installations, policy \in Policies : Start(i, policy)
    BY <1>3
  <2>2. ops' \in 0 .. MaxOps /\ ops' \in Ops
    BY <2>1, ConstantsAssumption DEF Start, TypeOK, Ops
  <2>3. act' \in [Actors -> Memory]
    <3> DEFINE m == [AtRest EXCEPT !.op = ops + 1, !.inst = i, !.policy = policy]
    <3>1. m \in Memory
      BY <2>1, <2>2, AtRestTyped DEF Start, Memory
    <3>2. Inspecting(m, "preview", "idle") \in Memory
      BY <3>1, InspectingTyped DEF PCs
    <3> QED BY <1>1, <2>1, <3>2 DEF Start, TypeOK
  <2> QED BY <2>1, <2>2, <2>3 DEF Start, TypeOK
<1>4. CASE \E i \in Installations : InspectDestination(i)
  <2>1. act' \in [Actors -> Memory]
    <3>1. ASSUME NEW i \in Installations
          PROVE  Inspecting([AtRest EXCEPT !.inst = i], "idle", "idle") \in Memory
      <4>1. [AtRest EXCEPT !.inst = i] \in Memory
        BY AtRestTyped DEF Memory
      <4> QED BY <4>1, InspectingTyped DEF PCs
    <3> QED BY <1>1, <1>4, <3>1 DEF InspectDestination, TypeOK
  <2> QED BY <1>4, <2>1 DEF InspectDestination, TypeOK, Records, Counters
<1>5. CASE RollbackReplacement("inspect")
  BY <1>5, RecoveryTyped
<1>6. CASE StartCleanup
  BY <1>1, <1>2, <1>6 DEF StartCleanup, TypeOK, Records, Counters, PCs
<1>7. CASE CleanupStep
  <2>1. CASE List
    <3>1. RecordedNames \subseteq 1 .. LastName
      BY ConstantsAssumption DEF RecordedNames, TypeOK
    <3>2. act' \in [Actors -> Memory]
      BY <1>1, <1>2, <2>1, <3>1 DEF List, TypeOK, Memory, PCs
    <3> QED BY <2>1, <3>2 DEF List, TypeOK, Records, Counters
  <2>2. CASE Sweep
    <3>1. act["cleanup"].todo \subseteq 1 .. LastName
      BY <1>1 DEF TypeOK, Memory
    <3>2. act' \in [Actors -> Memory]
      <4> DEFINE C == act["cleanup"]
      <4>1. C \in Memory
        BY <1>1 DEF TypeOK
      <4>2. \A n \in C.todo :
              [C EXCEPT !.pc = "commit", !.name = n, !.todo = C.todo \ {n}] \in Memory
        BY <3>1, <4>1 DEF Memory, PCs
      <4>3. \A op \in Ops : [C EXCEPT !.pc = "delete", !.op = op] \in Memory
        BY <4>1 DEF Memory, PCs
      <4>4. ASSUME NEW n \in C.todo,
                   act' = [act EXCEPT !["cleanup"].pc = "commit",
                                      !["cleanup"].name = n,
                                      !["cleanup"].todo = C.todo \ {n}]
            PROVE  act' \in [Actors -> Memory]
        BY <1>1, <4>2, <4>4 DEF TypeOK
      <4>5. ASSUME NEW op \in Ops,
                   act' = [act EXCEPT !["cleanup"].pc = "delete", !["cleanup"].op = op]
            PROVE  act' \in [Actors -> Memory]
        BY <1>1, <4>3, <4>5 DEF TypeOK
      <4> QED BY <1>1, <1>2, <2>2, <4>4, <4>5 DEF Sweep, PCs
    <3> QED BY <2>2, <3>2 DEF Sweep, TypeOK, Records, Counters
  <2>3. CASE DeleteStaging
    <3>1. act["cleanup"].op \in Ops
      BY <2>3 DEF DeleteStaging, CleanupOK, At
    <3>2. fs' \in [Paths -> Directories \cup {Nothing}]
      BY <2>3, <3>1, PathKinds, RemoveTakes DEF DeleteStaging, TypeOK
    <3>3. act' \in [Actors -> Memory]
      BY <1>1, <1>2, <2>3 DEF DeleteStaging, PCs
    <3> QED BY <2>3, <3>2, <3>3 DEF DeleteStaging, TypeOK, Records, Counters
  <2>4. CASE DeleteEntry
    <3>1. PICK p \in Paths :
            /\ Exists(p)
            /\ \E remnant \in Remnants(fs[p]) : fs' = [fs EXCEPT ![p] = remnant]
      BY <2>4 DEF DeleteEntry
    <3>2. PICK remnant \in Remnants(fs[p]) : fs' = [fs EXCEPT ![p] = remnant]
      BY <3>1
    <3>21. remnant \in Directories
      BY <3>1, RemnantsAreLess DEF TypeOK, Exists
    <3>3. fs' \in [Paths -> Directories \cup {Nothing}]
      BY <3>2, <3>21 DEF TypeOK
    <3>4. act' = act /\ intruded' \in BOOLEAN
      BY <2>4 DEF DeleteEntry, Tears, TypeOK
    <3> QED BY <2>4, <3>3, <3>4 DEF DeleteEntry, TypeOK, Records, Counters
  <2> QED BY <1>7, <2>1, <2>2, <2>3, <2>4, CommitTyped DEF CleanupStep
<1>8. CASE Visit
  <2>1. fs' \in [Paths -> Directories \cup {Nothing}]
    BY <1>8, PathKinds, FolderIsDirectory DEF Visit, TypeOK, UserContents
  <2> QED BY <1>8, <2>1, ConstantsAssumption DEF Visit, TypeOK, UserContents
<1>9. CASE Crash
  <2>1. act' \in [Actors -> Memory]
    BY <1>9, AtRestTyped DEF Crash
  <2> QED BY <1>9, <2>1, ConstantsAssumption DEF Crash, TypeOK
<1> QED
  BY <1>3, <1>4, <1>5, <1>6, <1>7, <1>8, <1>9 DEF Next

LEMMA Typed ==
  ASSUME Course, [Next]_vars
  PROVE  TypeOK'
<1>1. CASE Next
  BY <1>1, PrepareTyped, OthersTyped
<1>2. CASE UNCHANGED vars
  BY <1>2 DEF vars, Course, TypeOK
<1> QED BY <1>1, <1>2

-----------------------------------------------------------------------------
(* Where the actors are.                                                    *)

HasBackup == {"reject", "restore", "drop", "unmark", "discard"}

\* A step of the preparation moves the preparation only, and never back
\* before its activation.
PrepareMoves ==
  /\ PrepareOK'
  /\ \A a \in Actors \ {"prepare"} : act'[a] = act[a]
  /\ Early' => Early /\ P'.op = P.op /\ P'.inst = P.inst /\ (P.swapped => P'.swapped)
  /\ P'.pc \in HasBackup =>
       /\ P'.backup \in 1 .. ops
       /\ Early' => P'.backup # P'.op
  /\ ops' = ops
  /\ \A i \in Installations : row[i] # 0 => row'[i] = row[i]

LEMMA MarkersRead ==
  ASSUME Course, NEW p \in Names, HasReplacementMarker(p)
  PROVE  /\ fs[p].replaces \in 1 .. ops
         /\ Early => fs[p].replaces # P.op
BY PathKinds, PathsOfActors
   DEF Course, MarkersKnown, HasReplacementMarker, PrepareOK, Early,
       Before, Undoing

LEMMA PrepareStepMoves ==
  ASSUME Course, PrepareStep
  PROVE  PrepareMoves
<1> USE DEF P, At, PrepareMoves, HasBackup, Undoing, Committing, Before, After,
            PreparePlaces, Early, Unrecorded
<1>1. P \in Memory /\ act \in [Actors -> Memory] /\ "prepare" \in Actors
      /\ row \in [Installations -> 0 .. LastName]
  BY DEF Course, TypeOK, Actors
<1>2. PrepareOK /\ (P.pc \in HasBackup => P.backup \in 1 .. ops /\ (Early => P.backup # P.op))
  BY <1>1 DEF Course, BackupsKnown
<1>3. Requested \in Names /\ Destination("prepare") \in Names
  BY PathKinds, PathsOfActors
<1>4. ASSUME NEW place \in PreparePlaces, Goto("prepare", place)
      PROVE  /\ place = "idle" => act'["prepare"] = AtRest
             /\ place # "idle" =>
                  LET Q == act'["prepare"] IN
                  /\ Q.pc = place
                  /\ Q.op = P.op /\ Q.inst = P.inst /\ Q.policy = P.policy
                  /\ Q.swapped = P.swapped /\ Q.name = P.name
                  /\ Q.backup = P.backup /\ Q.back = P.back /\ Q.fault = P.fault
             /\ \A a \in Actors \ {"prepare"} : act'[a] = act[a]
  <2>1. CASE place = "idle"
    BY <1>1, <1>4, <2>1 DEF Goto
  <2>2. CASE place # "idle"
    <3>1. act' = [act EXCEPT !["prepare"] = [P EXCEPT !.pc = place]]
      BY <1>1, <1>4, <2>2 DEF Goto
    <3> QED BY <1>1, <2>2, <3>1 DEF Memory
  <2> QED BY <2>1, <2>2
<1>5. /\ AtRest.pc = "idle" /\ AtRest.back = "idle" /\ AtRest.fault = "idle"
      /\ AtRest.policy = "Refuse" /\ AtRest.name = 1 /\ AtRest.swapped = FALSE
  BY DEF AtRest
<1>6. ASSUME Goto("prepare", "idle"), row' = row, ops' = ops
      PROVE  PrepareMoves
  BY <1>1, <1>4, <1>5, <1>6 DEF PrepareOK
<1>7. CASE Recover("prepare")
  <2>1. CASE HasReplacementMarker(Requested)
    <3>1. fs[Requested].replaces \in 1 .. ops /\ (Early => fs[Requested].replaces # P.op)
      BY <1>3, <2>1, MarkersRead
    <3>2. CASE MayUndo(fs[Requested], P.inst)
      <4>1. act' = [act EXCEPT !["prepare"] =
                      [P EXCEPT !.pc = "reject", !.backup = fs[Requested].replaces]]
        BY <1>1, <1>7, <2>1, <3>2 DEF Recover
      <4> QED
        BY <1>1, <1>2, <1>7, <3>1, <4>1 DEF Recover, PrepareOK, Records, Counters
    <3>3. CASE ~MayUndo(fs[Requested], P.inst)
      BY <1>1, <1>2, <1>4, <1>6, <1>7, <2>1, <3>3
         DEF Recover, PrepareOK, Records, Counters
    <3> QED BY <3>2, <3>3
  <2>2. CASE ~HasReplacementMarker(Requested)
    BY <1>1, <1>2, <1>4, <1>7, <2>2 DEF Recover, PrepareOK, Records, Counters
  <2> QED BY <2>1, <2>2
<1>8. CASE Reject("prepare")
  BY <1>1, <1>2, <1>4, <1>6, <1>8 DEF Reject, PrepareOK, Records, Counters
<1>9. CASE Restore("prepare")
  BY <1>1, <1>2, <1>4, <1>6, <1>9 DEF Restore, PrepareOK, Records, Counters
<1>10. CASE Drop("prepare")
  BY <1>1, <1>2, <1>4, <1>6, <1>10 DEF Drop, PrepareOK, Records, Counters
<1>11. CASE Preview
  BY <1>1, <1>2, <1>11 DEF Preview, Inspecting, PrepareOK, Records, Counters
<1>12. CASE Select
  <2>1. row' = row /\ ops' = ops /\ P.pc = "select"
    BY <1>12 DEF Select, Records, Counters
  <2>2. CASE Goto("prepare", "stage")
    BY <1>1, <1>2, <1>4, <2>1, <2>2 DEF PrepareOK
  <2>3. ASSUME NEW n, P.policy = "KeepBoth",
               act' = [act EXCEPT !["prepare"].name = n, !["prepare"].pc = "stage"]
        PROVE  PrepareMoves
    <3>1. act' = [act EXCEPT !["prepare"] = [P EXCEPT !.name = n, !.pc = "stage"]]
      BY <1>1, <2>3
    <3> QED BY <1>1, <1>2, <2>1, <2>3, <3>1 DEF Memory, PrepareOK
  <2> QED BY <1>6, <1>12, <2>1, <2>2, <2>3 DEF Select
<1>13. CASE CreateStaging
  BY <1>1, <1>2, <1>4, <1>6, <1>13 DEF CreateStaging, PrepareOK, Records, Counters
<1>14. CASE Unpack
  BY <1>1, <1>2, <1>4, <1>14 DEF Unpack, PrepareOK, Records, Counters
<1>15. CASE WriteMarker
  BY <1>1, <1>2, <1>4, <1>15 DEF WriteMarker, PrepareOK, Records, Counters
<1>16. CASE Activate
  <2>1. row' = row /\ ops' = ops /\ P.pc = "activate"
    BY <1>16 DEF Activate, Records, Counters
  <2>2. CASE Goto("prepare", "clear") \/ Goto("prepare", "rename")
    BY <1>1, <1>2, <1>4, <2>1, <2>2 DEF PrepareOK
  <2>3. CASE /\ P.policy = "ReplaceExisting"
             /\ act' = [act EXCEPT !["prepare"] = Inspecting(P, "replace", "clear")]
    BY <1>1, <1>2, <2>1, <2>3 DEF Inspecting, Memory, PrepareOK
  <2> QED BY <1>16, <2>2, <2>3 DEF Activate
<1>17. CASE Replace
  BY <1>1, <1>2, <1>4, <1>17 DEF Replace, PrepareOK, Records, Counters
<1>18. CASE WriteReplacementMarker
  <2>1. row' = row /\ ops' = ops /\ P.pc = "swap"
    BY <1>18 DEF WriteReplacementMarker, Records, Counters
  <2>2. CASE Goto("prepare", "clear")
    BY <1>1, <1>2, <1>4, <2>1, <2>2 DEF PrepareOK
  <2>3. CASE act' = [act EXCEPT !["prepare"].pc = "rename", !["prepare"].swapped = TRUE]
    <3>1. act' = [act EXCEPT !["prepare"] = [P EXCEPT !.pc = "rename", !.swapped = TRUE]]
      BY <1>1, <2>3
    <3> QED BY <1>1, <1>2, <2>1, <3>1 DEF Memory, PrepareOK
  <2> QED BY <1>18, <2>2, <2>3 DEF WriteReplacementMarker
<1>19. CASE RenameIntoPlace
  <2>1. row' = row /\ ops' = ops /\ P.pc = "rename"
    BY <1>19 DEF RenameIntoPlace, Records, Counters
  <2>2. CASE \/ Goto("prepare", "activated")
             \/ Goto("prepare", IF P.swapped THEN "undo" ELSE "clear")
    BY <1>1, <1>2, <1>4, <2>1, <2>2 DEF PrepareOK
  <2>3. ASSUME NEW n, P.policy = "KeepBoth", act' = [act EXCEPT !["prepare"].name = n]
        PROVE  PrepareMoves
    <3>1. act' = [act EXCEPT !["prepare"] = [P EXCEPT !.name = n]]
      BY <1>1, <2>3
    <3> QED BY <1>1, <1>2, <2>1, <2>3, <3>1 DEF Memory, PrepareOK
  <2> QED BY <1>19, <2>2, <2>3 DEF RenameIntoPlace
<1>20. CASE Undo
  BY <1>1, <1>2, <1>4, <1>20 DEF Undo, PrepareOK, Records, Counters
<1>21. CASE Clear
  BY <1>6, <1>21 DEF Clear, Records, Counters
<1>22. CASE Activated
  BY <1>1, <1>2, <1>4, <1>22 DEF Activated, PrepareOK, Records, Counters
<1>23. CASE SavePrepared
  BY <1>1, <1>2, <1>4, <1>23 DEF SavePrepared, PrepareOK, Counters
<1>24. CASE Rollback
  <2>1. HasReplacementMarker(Destination("prepare")) =>
          fs[Destination("prepare")].replaces \in 1 .. ops
    BY <1>3, MarkersRead
  <2>2. row' = row /\ ops' = ops /\ P.pc = "rollback"
    BY <1>24 DEF Rollback, Records, Counters
  <2>3. ASSUME NEW b \in 1 .. ops,
               act' = [act EXCEPT !["prepare"].pc = "reject", !["prepare"].backup = b,
                                  !["prepare"].back = "idle", !["prepare"].fault = "idle"]
        PROVE  PrepareMoves
    <3>1. act' = [act EXCEPT !["prepare"] =
                    [P EXCEPT !.pc = "reject", !.backup = b,
                              !.back = "idle", !.fault = "idle"]]
      BY <1>1, <2>3
    <3> QED BY <1>1, <1>2, <2>2, <2>3, <3>1 DEF Memory, PrepareOK
  <2> QED
    BY <1>6, <1>24, <2>1, <2>2, <2>3 DEF Rollback
<1>25. CASE Commit("prepare")
  <2>1. HasReplacementMarker(Destination("prepare")) =>
          fs[Destination("prepare")].replaces \in 1 .. ops
    BY <1>3, MarkersRead
  <2>2. row' = row /\ ops' = ops /\ P.pc = "commit"
    BY <1>25 DEF Commit, Records, Counters
  <2>3. CASE Goto("prepare", "sources")
    BY <1>1, <1>2, <1>4, <2>2, <2>3 DEF PrepareOK
  <2>4. ASSUME NEW b \in 1 .. ops,
               act' = [act EXCEPT !["prepare"].pc = "unmark", !["prepare"].backup = b]
        PROVE  PrepareMoves
    <3>1. act' = [act EXCEPT !["prepare"] = [P EXCEPT !.pc = "unmark", !.backup = b]]
      BY <1>1, <2>4
    <3> QED BY <1>1, <1>2, <2>2, <2>4, <3>1 DEF Memory, PrepareOK
  <2> QED
    BY <1>6, <1>25, <2>1, <2>2, <2>3, <2>4 DEF Commit, AfterCommit, MarkerFirst
<1>26. CASE Unmark("prepare")
  BY <1>1, <1>2, <1>4, <1>6, <1>26 DEF Unmark, PrepareOK, Records, Counters
<1>27. CASE Discard("prepare")
  BY <1>1, <1>2, <1>4, <1>27 DEF Discard, AfterCommit, PrepareOK, Records, Counters
<1>28. CASE DeleteSources
  BY <1>6, <1>28 DEF DeleteSources, Counters
<1> QED
  BY <1>7, <1>8, <1>9, <1>10, <1>11, <1>12, <1>13, <1>14, <1>15, <1>16, <1>17,
     <1>18, <1>19, <1>20, <1>21, <1>22, <1>23, <1>24, <1>25, <1>26, <1>27, <1>28
     DEF PrepareStep, RollbackReplacement

\* A step of an inspection or of the cleanup moves that actor only.
InspectMoves ==
  /\ InspectOK'
  /\ \A a \in Actors \ {"inspect"} : act'[a] = act[a]
  /\ act'["inspect"].pc \in HasBackup =>
       /\ act'["inspect"].backup \in 1 .. ops
       /\ Early => act'["inspect"].backup # P.op
  /\ ops' = ops /\ row' = row

LEMMA InspectStepMoves ==
  ASSUME Course,
         \/ RollbackReplacement("inspect")
         \/ \E i \in Installations : InspectDestination(i)
  PROVE  InspectMoves
<1> DEFINE I == act["inspect"]
<1> USE DEF At, InspectMoves, HasBackup, Undoing, InspectPlaces
<1>1. I \in Memory /\ act \in [Actors -> Memory] /\ "inspect" \in Actors
  BY DEF Course, TypeOK, Actors
<1>2. /\ InspectOK
      /\ I.pc \in HasBackup => I.backup \in 1 .. ops /\ (Early => I.backup # P.op)
  BY <1>1 DEF Course, BackupsKnown
<1>3. ASSUME NEW place \in Undoing, Goto("inspect", place)
      PROVE  /\ act'["inspect"] = [I EXCEPT !.pc = place]
             /\ \A a \in Actors \ {"inspect"} : act'[a] = act[a]
  BY <1>1, <1>3 DEF Goto
<1>4. ASSUME Goto("inspect", "idle"), row' = row, ops' = ops
      PROVE  InspectMoves
  <2>1. act'["inspect"] = AtRest /\ \A a \in Actors \ {"inspect"} : act'[a] = act[a]
    BY <1>1, <1>4 DEF Goto
  <2> QED BY <1>4, <2>1 DEF AtRest, InspectOK
<1>5. CASE Recover("inspect")
  <2>1. row' = row /\ ops' = ops /\ I.back = "idle" /\ I.fault = "idle"
    BY <1>2, <1>5 DEF Recover, Records, Counters, InspectOK
  <2>2. CASE HasReplacementMarker(Requested) /\ MayUndo(fs[Requested], I.inst)
    <3> DEFINE b == fs[Requested].replaces
    <3>1. b \in 1 .. ops /\ (Early => b # P.op)
      BY <2>2, PathKinds, MarkersRead
    <3>2. act' = [act EXCEPT !["inspect"] = [I EXCEPT !.pc = "reject", !.backup = b]]
      BY <1>1, <1>5, <2>2 DEF Recover
    <3> QED BY <1>1, <1>2, <1>5, <2>1, <3>1, <3>2 DEF Recover, Memory, InspectOK
  <2> QED BY <1>4, <1>5, <2>1, <2>2 DEF Recover
<1>6. CASE Reject("inspect")
  BY <1>1, <1>2, <1>3, <1>4, <1>6 DEF Reject, InspectOK, Records, Counters, Memory
<1>7. CASE Restore("inspect")
  BY <1>1, <1>2, <1>3, <1>4, <1>7 DEF Restore, InspectOK, Records, Counters, Memory
<1>8. CASE Drop("inspect")
  BY <1>2, <1>4, <1>8 DEF Drop, InspectOK, Records, Counters
<1>9. CASE \E i \in Installations : InspectDestination(i)
  <2>1. PICK i \in Installations : InspectDestination(i)
    BY <1>9
  <2>2. act' = [act EXCEPT !["inspect"] =
                  [AtRest EXCEPT !.inst = i, !.pc = "recover",
                                 !.back = "idle", !.fault = "idle"]]
    BY <2>1 DEF InspectDestination, Inspecting
  <2>3. LET J == act'["inspect"] IN
          J.pc = "recover" /\ J.inst = i /\ J.back = "idle" /\ J.fault = "idle"
    BY <1>1, <2>2 DEF AtRest
  <2>4. \A a \in Actors \ {"inspect"} : act'[a] = act[a]
    BY <1>1, <2>2
  <2> QED
    BY <2>1, <2>3, <2>4 DEF InspectDestination, InspectOK, Records, Counters
<1> QED
  BY <1>5, <1>6, <1>7, <1>8, <1>9 DEF RollbackReplacement

CleanupMoves ==
  /\ CleanupOK'
  /\ \A a \in Actors \ {"cleanup"} : act'[a] = act[a]
  /\ act'["cleanup"].pc \in HasBackup =>
       /\ act'["cleanup"].backup \in 1 .. ops
       /\ Early => act'["cleanup"].backup # P.op
  /\ ops' = ops /\ row' = row

LEMMA CleanupStepMoves ==
  ASSUME Course, StartCleanup \/ CleanupStep
  PROVE  CleanupMoves
<1> DEFINE C == act["cleanup"]
<1> USE DEF At, CleanupMoves, HasBackup, Committing, CleanupPlaces
<1>1. C \in Memory /\ act \in [Actors -> Memory] /\ "cleanup" \in Actors
  BY DEF Course, TypeOK, Actors
<1>2. /\ CleanupOK
      /\ C.pc \in HasBackup => C.backup \in 1 .. ops /\ (Early => C.backup # P.op)
  BY <1>1 DEF Course, BackupsKnown
<1>3. row' = row /\ ops' = ops /\ RecordedNames' = RecordedNames
  BY DEF StartCleanup, CleanupStep, List, Sweep, DeleteEntry, DeleteStaging, Commit,
         Unmark, Discard, Records, Counters, RecordedNames
<1>4. ASSUME NEW place \in CleanupPlaces \ {"idle"}, Goto("cleanup", place)
      PROVE  /\ LET D == act'["cleanup"] IN
                /\ D.pc = place
                /\ D.op = C.op /\ D.name = C.name
                /\ D.backup = C.backup /\ D.todo = C.todo
             /\ \A a \in Actors \ {"cleanup"} : act'[a] = act[a]
  <2>1. act' = [act EXCEPT !["cleanup"] = [C EXCEPT !.pc = place]]
    BY <1>1, <1>4 DEF Goto
  <2> QED BY <1>1, <2>1 DEF Memory
<1>5. ASSUME Goto("cleanup", "idle")
      PROVE  CleanupMoves
  <2>1. act'["cleanup"] = AtRest /\ \A a \in Actors \ {"cleanup"} : act'[a] = act[a]
    BY <1>1, <1>5 DEF Goto
  <2> QED BY <1>3, <2>1 DEF AtRest, CleanupOK
<1>6. CASE StartCleanup
  BY <1>1, <1>2, <1>3, <1>4, <1>6 DEF StartCleanup, CleanupOK
<1>7. CASE List
  <2>1. CASE act' = [act EXCEPT !["cleanup"].pc = "sweep",
                                !["cleanup"].todo = RecordedNames]
    <3>1. act' = [act EXCEPT !["cleanup"] =
                    [C EXCEPT !.pc = "sweep", !.todo = RecordedNames]]
      BY <1>1, <2>1
    <3> QED BY <1>1, <1>2, <1>3, <3>1 DEF CleanupOK, Memory
  <2> QED BY <1>5, <1>7, <2>1 DEF List
<1>8. CASE Sweep
  <2>1. ASSUME NEW n \in C.todo,
               act' = [act EXCEPT !["cleanup"].pc = "commit",
                                  !["cleanup"].name = n,
                                  !["cleanup"].todo = C.todo \ {n}]
        PROVE  CleanupMoves
    <3>1. act' = [act EXCEPT !["cleanup"] =
                    [C EXCEPT !.pc = "commit", !.name = n, !.todo = C.todo \ {n}]]
      BY <1>1, <2>1
    <3> QED BY <1>1, <1>2, <1>3, <3>1 DEF CleanupOK, Memory
  <2>2. ASSUME NEW op \in Ops,
               act' = [act EXCEPT !["cleanup"].pc = "delete", !["cleanup"].op = op]
        PROVE  CleanupMoves
    <3>1. act' = [act EXCEPT !["cleanup"] = [C EXCEPT !.pc = "delete", !.op = op]]
      BY <1>1, <2>2
    <3> QED BY <1>1, <1>2, <1>3, <2>2, <3>1 DEF CleanupOK, Memory
  <2> QED BY <1>5, <1>8, <2>1, <2>2 DEF Sweep
<1>9. CASE DeleteStaging
  BY <1>1, <1>2, <1>3, <1>4, <1>5, <1>9 DEF DeleteStaging, CleanupOK
<1>91. CASE DeleteEntry
  BY <1>2, <1>3, <1>91 DEF DeleteEntry, CleanupOK
<1>10. CASE Commit("cleanup")
  <2>1. CASE Goto("cleanup", "sweep")
    BY <1>1, <1>2, <1>3, <1>4, <2>1 DEF CleanupOK
  <2>2. ASSUME HasReplacementMarker(Destination("cleanup")),
               act' = [act EXCEPT !["cleanup"].pc = "unmark",
                         !["cleanup"].backup = fs[Destination("cleanup")].replaces]
        PROVE  CleanupMoves
    <3> DEFINE b == fs[Destination("cleanup")].replaces
    <3>1. b \in 1 .. ops /\ (Early => b # P.op)
      BY <2>2, PathsOfActors, MarkersRead
    <3>2. act' = [act EXCEPT !["cleanup"] = [C EXCEPT !.pc = "unmark", !.backup = b]]
      BY <1>1, <2>2
    <3> QED BY <1>1, <1>2, <1>3, <1>10, <3>1, <3>2 DEF Commit, CleanupOK, Memory
  <2> QED BY <1>5, <1>10, <2>1, <2>2 DEF Commit, AfterCommit, MarkerFirst
<1>11. CASE Unmark("cleanup")
  BY <1>1, <1>2, <1>3, <1>4, <1>5, <1>11 DEF Unmark, CleanupOK
<1>12. CASE Discard("cleanup")
  BY <1>1, <1>2, <1>3, <1>4, <1>12 DEF Discard, AfterCommit, CleanupOK
<1> QED
  BY <1>6, <1>7, <1>8, <1>9, <1>91, <1>10, <1>11, <1>12 DEF CleanupStep

LEMMA PlacesStep ==
  ASSUME Course, [Next]_vars
  PROVE  PrepareOK' /\ InspectOK' /\ CleanupOK' /\ BackupsKnown'
<1>1. Actors = {"prepare", "inspect", "cleanup"} /\ ops \in Nat
  BY DEF Actors, Course, TypeOK
<1>2. PrepareOK /\ InspectOK /\ CleanupOK /\ BackupsKnown
  BY DEF Course
<1>3. CASE PrepareStep
  <2>1. PrepareMoves
    BY <1>3, PrepareStepMoves
  <2>2. act'["inspect"] = act["inspect"] /\ act'["cleanup"] = act["cleanup"]
    BY <1>1, <2>1 DEF PrepareMoves
  <2>3. RecordedNames \subseteq RecordedNames'
    BY <2>1 DEF PrepareMoves, RecordedNames
  <2>4. InspectOK' /\ CleanupOK'
    BY <1>2, <2>2, <2>3 DEF InspectOK, CleanupOK
  <2>5. BackupsKnown'
    <3>1. (Early' => Early /\ P'.op = P.op) /\ ops' = ops
      BY <2>1 DEF PrepareMoves
    <3>2. ASSUME NEW a \in {"inspect", "cleanup"}, act'[a].pc \in HasBackup
          PROVE  act'[a].backup \in 1 .. ops' /\ (Early' => act'[a].backup # P'.op)
      BY <1>1, <1>2, <2>2, <3>1, <3>2 DEF HasBackup, BackupsKnown
    <3>3. P'.pc \in HasBackup => P'.backup \in 1 .. ops' /\ (Early' => P'.backup # P'.op)
      BY <2>1, <3>1 DEF PrepareMoves
    <3> QED BY <1>1, <3>2, <3>3 DEF HasBackup, BackupsKnown, P
  <2> QED BY <2>1, <2>4, <2>5 DEF PrepareMoves
<1>4. CASE RollbackReplacement("inspect") \/ \E i \in Installations : InspectDestination(i)
  <2>1. InspectMoves
    BY <1>4, InspectStepMoves
  <2>2. act'["prepare"] = P /\ act'["cleanup"] = act["cleanup"]
    BY <1>1, <2>1 DEF InspectMoves, P
  <2>3. PrepareOK' /\ CleanupOK' /\ (Early' <=> Early) /\ P' = P
    BY <1>2, <2>1, <2>2
       DEF InspectMoves, P, PrepareOK, CleanupOK, RecordedNames, Unrecorded, Early
  <2>4. BackupsKnown'
    BY <1>1, <1>2, <2>1, <2>2, <2>3 DEF InspectMoves, HasBackup, BackupsKnown, P
  <2> QED BY <2>1, <2>3, <2>4 DEF InspectMoves
<1>5. CASE StartCleanup \/ CleanupStep
  <2>1. CleanupMoves
    BY <1>5, CleanupStepMoves
  <2>2. act'["prepare"] = P /\ act'["inspect"] = act["inspect"]
    BY <1>1, <2>1 DEF CleanupMoves, P
  <2>3. PrepareOK' /\ InspectOK' /\ (Early' <=> Early) /\ P' = P
    BY <1>2, <2>1, <2>2 DEF CleanupMoves, P, PrepareOK, InspectOK, Unrecorded, Early
  <2>4. BackupsKnown'
    BY <1>1, <1>2, <2>1, <2>2, <2>3 DEF CleanupMoves, HasBackup, BackupsKnown, P
  <2> QED BY <2>1, <2>3, <2>4 DEF CleanupMoves
<1>6. CASE \E i \in Installations, policy \in Policies : Start(i, policy)
  <2>1. PICK i \in Installations, policy \in Policies : Start(i, policy)
    BY <1>6
  <2>2. act' = [act EXCEPT !["prepare"] =
                  [AtRest EXCEPT !.op = ops + 1, !.inst = i, !.policy = policy,
                     !.pc = "recover", !.back = "preview", !.fault = "idle"]]
        /\ ops' = ops + 1 /\ row' = row /\ row[i] = 0 /\ ops < MaxOps
    BY <2>1 DEF Start, Inspecting
  <2>3. /\ act'["inspect"] = act["inspect"] /\ act'["cleanup"] = act["cleanup"]
        /\ act'["prepare"] = [AtRest EXCEPT !.op = ops + 1, !.inst = i, !.policy = policy,
                     !.pc = "recover", !.back = "preview", !.fault = "idle"]
    BY <1>1, <2>2 DEF Course, TypeOK
  <2>7. /\ P'.pc = "recover" /\ P'.op = ops + 1 /\ P'.inst = i /\ P'.policy = policy
        /\ P'.back = "preview" /\ P'.fault = "idle" /\ P'.name = 1 /\ P'.swapped = FALSE
    BY <2>3 DEF P, AtRest
  <2>4. PrepareOK'
    BY <1>1, <2>7, <2>2, ConstantsAssumption
       DEF PrepareOK, Unrecorded, Early, Undoing, Before, After,
           Committing, PreparePlaces, Ops
  <2>5. InspectOK' /\ CleanupOK'
    BY <1>2, <2>2, <2>3 DEF InspectOK, CleanupOK, RecordedNames
  <2>6. BackupsKnown'
    <3>1. act'["prepare"].pc = "recover" /\ P'.op = ops + 1
      BY <2>7 DEF P
    <3>2. ASSUME NEW a \in {"inspect", "cleanup"}, act'[a].pc \in HasBackup
          PROVE  act'[a].backup \in 1 .. ops
      BY <1>1, <1>2, <2>3, <3>2 DEF HasBackup, BackupsKnown
    <3> QED BY <1>1, <2>2, <3>1, <3>2 DEF BackupsKnown, HasBackup
  <2> QED BY <2>4, <2>5, <2>6
<1>7. CASE Visit \/ UNCHANGED vars
  BY <1>2, <1>7
     DEF Visit, vars, PrepareOK, InspectOK, CleanupOK, BackupsKnown, RecordedNames,
         P, Early, Unrecorded
<1>8. CASE Crash
  <2>1. \A a \in Actors : act'[a] = AtRest
    BY <1>8 DEF Crash
  <2>2. act'["prepare"] = AtRest /\ act'["inspect"] = AtRest /\ act'["cleanup"] = AtRest
    BY <1>1, <2>1
  <2> QED
    BY <2>1, <2>2
       DEF P, PrepareOK, InspectOK, CleanupOK, BackupsKnown, AtRest, Early, Unrecorded,
           Undoing, Before, After, Committing, PreparePlaces, InspectPlaces,
           CleanupPlaces
<1> QED
  BY <1>3, <1>4, <1>5, <1>6, <1>7, <1>8 DEF Next

-----------------------------------------------------------------------------
(* What was met stays met.                                                  *)

LEMMA MetStays ==
  ASSUME [Next]_vars
  PROVE  intruded => intruded'
<1>1. ASSUME NEW a \in Actors, RollbackReplacement(a)
      PROVE  intruded => intruded'
  BY <1>1 DEF RollbackReplacement, Recover, Reject, Restore, Drop
<1>2. ASSUME NEW a \in Actors, Commit(a) \/ Unmark(a) \/ Discard(a)
      PROVE  intruded' = intruded
  BY <1>2 DEF Commit, Unmark, Discard
<1>3. CASE PrepareStep
  BY <1>1, <1>2, <1>3
     DEF Actors, PrepareStep, Preview, Select, CreateStaging, Unpack, WriteMarker,
         Activate, Replace, WriteReplacementMarker, RenameIntoPlace, Undo, Clear,
         Activated, SavePrepared, Rollback, DeleteSources
<1>4. CASE StartCleanup \/ CleanupStep
  BY <1>2, <1>4
     DEF Actors, StartCleanup, CleanupStep, List, Sweep, DeleteEntry, DeleteStaging
<1>5. CASE \E i \in Installations, policy \in Policies : Start(i, policy)
  BY <1>5 DEF Start
<1>6. CASE \E i \in Installations : InspectDestination(i)
  BY <1>6 DEF InspectDestination
<1>7. CASE Visit \/ Crash \/ UNCHANGED vars
  BY <1>7 DEF Visit, Crash, vars
<1> QED
  BY <1>1, <1>3, <1>4, <1>5, <1>6, <1>7 DEF Next, Actors

-----------------------------------------------------------------------------
(* What lies where, and the markers.                                        *)

\* The preparation keeps its operation as long as it is not activated.
SameEarly ==
  /\ Early' => Early /\ P'.op = P.op /\ (P.swapped => P'.swapped)
  /\ intruded => intruded'

\* What lies where counts as long as nothing was met.
Files == (intruded \/ Contents) /\ MarkersOnce /\ MarkersKnown

\* Directories that are kept or go disturb nothing.
LEMMA LessIsFine ==
  ASSUME Course, Files, ops' = ops, SameEarly,
         \A r \in Paths : fs'[r] \in {fs[r], Nothing}
  PROVE  Files'
<1>1. \A r \in Paths : Exists(r)' => Exists(r) /\ fs'[r] = fs[r]
  BY DEF Exists
<1>2. intruded' \/ Contents'
  BY <1>1 DEF Files, Contents, SameEarly
<1>3. MarkersOnce'
  BY <1>1 DEF Files, MarkersOnce
<1>4. MarkersKnown'
  BY <1>1 DEF Files, MarkersKnown, SameEarly
<1> QED BY <1>2, <1>3, <1>4 DEF Files

\* A directory moves to where it fits; the staging folder only when it is
\* activated.
LEMMA MovedIsFine ==
  ASSUME Course, Files, ops' = ops, SameEarly,
         NEW p \in Paths, NEW q \in Paths, CanRename(p, q), Rename(p, q),
         intruded' \/ Fits(q, fs[p]), Early' => p # Staging(P.op)
  PROVE  Files'
<1>1. /\ fs'[p] = Nothing /\ fs'[q] = fs[p] /\ Exists(p) /\ p # q
      /\ \A r \in Paths \ {p, q} : fs'[r] = fs[r]
  BY RenameMoves DEF Course, CanRename
<1>2. \A r \in Paths : Exists(r)' =>
        \/ r = q
        \/ r # p /\ Exists(r) /\ fs'[r] = fs[r]
  BY <1>1 DEF Exists
<1>3. intruded' \/ Contents'
  BY <1>1, <1>2 DEF Files, Contents, SameEarly
<1>4. MarkersOnce'
  BY <1>1, <1>2 DEF Course, MarkersOnce
<1>5. MarkersKnown'
  BY <1>1, <1>2 DEF Course, MarkersKnown, SameEarly
<1> QED BY <1>3, <1>4, <1>5 DEF Files

\* A directory that fits appears or changes, without a marker that was not
\* there but the one of the preparation's replacement.
LEMMA WrittenIsFine ==
  ASSUME Course, Files, ops' = ops, SameEarly,
         NEW p \in Paths, NEW dir, intruded' \/ Fits(p, dir),
         fs' = [fs EXCEPT ![p] = dir],
         \/ dir.replaces = 0
         \/ Exists(p) /\ dir.replaces = fs[p].replaces
         \/ /\ Early /\ ~P.swapped /\ P'.swapped
            /\ p = Staging(P.op) /\ dir.replaces = P.op /\ P.op \in 1 .. ops
  PROVE  Files'
<1>1. fs'[p] = dir /\ \A r \in Paths \ {p} : fs'[r] = fs[r]
  BY DEF Course, TypeOK
<1>2. \A r \in Paths : Exists(r)' => r = p \/ (r # p /\ Exists(r) /\ fs'[r] = fs[r])
  BY <1>1 DEF Exists
<1>3. intruded' \/ Contents'
  BY <1>1, <1>2 DEF Files, Contents, SameEarly
<1>4. Early /\ ~P.swapped => \A r \in Paths : Exists(r) => fs[r].replaces # P.op \/ P.op = 0
  BY DEF Course, MarkersKnown
<1>5. MarkersOnce'
  BY <1>1, <1>2, <1>4 DEF Course, MarkersOnce
<1>6. MarkersKnown'
  BY <1>1, <1>2, <1>4 DEF Course, MarkersKnown, SameEarly
<1> QED BY <1>3, <1>5, <1>6 DEF Files

LEMMA TriedIsFine ==
  ASSUME Course, Files, ops' = ops, SameEarly,
         NEW p \in Paths, NEW q \in Paths, TryRename(p, q),
         intruded' \/ (Exists(p) => Fits(q, fs[p])), Early' => p # Staging(P.op)
  PROVE  Files'
<1>1. CASE CanRename(p, q)
  BY <1>1, MovedIsFine DEF TryRename, CanRename
<1>2. CASE ~CanRename(p, q)
  BY <1>2, LessIsFine DEF TryRename
<1> QED BY <1>1, <1>2

LEMMA UndoingFiles ==
  ASSUME Course, Files, NEW a \in {"prepare", "inspect"}, RollbackReplacement(a), SameEarly
  PROVE  Files'
<1> DEFINE b == act[a].backup
<1>1. ops' = ops /\ a \in Actors
  BY DEF RollbackReplacement, Recover, Reject, Restore, Drop, Records, Counters, Actors
<1>2. CASE Recover(a)
  BY <1>1, <1>2, LessIsFine DEF Recover
<1>3. ASSUME act[a].pc \in {"reject", "restore", "drop"}
      PROVE  /\ Rejected(a, b) \in Paths \ Names /\ IsRejected(Rejected(a, b))
             /\ Rejected(a, b)[1] \notin {"replaced", "stage"}
             /\ Replaced(b) \in Paths /\ Replaced(b)[1] = "replaced"
             /\ Requested \in Paths /\ Requested \in Names /\ Requested[1] = "name"
             /\ ~IsRejected(Requested)
             /\ \A op \in Ops : Staging(op) \notin {Requested, Replaced(b), Rejected(a, b)}
             /\ \A op \in Ops : Staging(op)[1] = "stage"
  BY <1>1, <1>3, PathsOfActors, PathKinds DEF IsRejected
<1>4. Early' => P.op \in Ops
  BY PathsOfActors DEF SameEarly, Early, Before, Undoing
<1>5. CASE Reject(a)
  <2>1. intruded' \/ (Exists(Requested) => Fits(Rejected(a, b), fs[Requested]))
    BY <1>3, <1>5 DEF Reject, At, SameEarly, Files, Contents, Fits
  <2> QED
    BY <1>1, <1>3, <1>4, <1>5, <2>1, LessIsFine, MovedIsFine
       DEF Reject, At, CanRename
<1>6. CASE Restore(a)
  <2>1. intruded' \/ (Exists(Replaced(b)) => Fits(Requested, fs[Replaced(b)]))
    <3>1. \A c \in UserContents : Folder(c).replaces = 0 /\ c \notin Installations
      BY ConstantsAssumption DEF Folder
    <3> QED BY <1>3, <1>6, <3>1 DEF Restore, At, SameEarly, Files, Contents, Fits
  <2>2. intruded' \/ (Exists(Rejected(a, b)) => Fits(Requested, fs[Rejected(a, b)]))
    BY <1>3, <1>6 DEF Restore, At, SameEarly, Files, Contents, Fits
  <2> QED
    BY <1>1, <1>3, <1>4, <1>6, <2>1, <2>2, TriedIsFine, MovedIsFine
       DEF Restore, At, CanRename
<1>7. CASE Drop(a)
  BY <1>1, <1>3, <1>7, LessIsFine, RemoveTakes DEF Drop, At, Course
<1> QED
  BY <1>2, <1>5, <1>6, <1>7 DEF RollbackReplacement

LEMMA CommittingFiles ==
  ASSUME Course, Files, NEW a \in {"prepare", "cleanup"}, SameEarly,
         Commit(a) \/ Unmark(a) \/ Discard(a)
  PROVE  Files'
<1>1. ops' = ops /\ a \in Actors /\ Destination(a) \in Names /\ Destination(a) \in Paths
  BY PathsOfActors, PathKinds DEF Commit, Unmark, Discard, Records, Counters, Actors
<1>2. CASE Commit(a)
  BY <1>1, <1>2, LessIsFine DEF Commit
<1>3. CASE Unmark(a)
  <2> DEFINE p   == Destination(a)
             dir == [fs[p] EXCEPT !.replaces = 0]
  <2>1. CASE HasReplacementMarker(p) /\ fs' = [fs EXCEPT ![p] = dir]
    <3>1. fs[p] \in Directories /\ Exists(p) /\ fs[p].replaces # 0
      BY <1>1, <2>1 DEF HasReplacementMarker, Exists, Course, TypeOK
    <3>2. dir.of = fs[p].of /\ dir.whole = fs[p].whole
          /\ dir.installation = fs[p].installation /\ dir.replaces = 0
      BY <3>1 DEF Directories
    <3>3. intruded' \/ fs[p].of \notin UserContents
      <4>1. \A c : Folder(c).replaces = 0
        BY DEF Folder
      <4>2. intruded' \/ (fs[p].of \in UserContents => fs[p] = Folder(fs[p].of))
        BY <1>1, <3>1 DEF SameEarly, Files, Contents, Fits
      <4> QED BY <3>1, <4>1, <4>2
    <3>4. intruded' \/ Fits(p, dir)
      BY <1>1, <3>1, <3>2, <3>3, PathKinds DEF SameEarly, Files, Contents, Fits
    <3> QED BY <1>1, <2>1, <3>2, <3>4, WrittenIsFine
  <2> QED BY <1>1, <1>3, <2>1, LessIsFine DEF Unmark
<1>4. CASE Discard(a)
  BY <1>1, <1>4, PathsOfActors, PathKinds, LessIsFine, RemoveTakes
     DEF Discard, At, Course
<1> QED BY <1>2, <1>3, <1>4

LEMMA PrepareFiles ==
  ASSUME Course, Files, ~intruded => StagingOK, PrepareStep
  PROVE  Files'
<1> USE DEF P, At
<1>1. /\ P \in Memory /\ act \in [Actors -> Memory] /\ "prepare" \in Actors
      /\ PrepareOK /\ (~intruded => StagingOK /\ Contents)
  BY DEF Course, TypeOK, Actors, Files
<1>2. SameEarly /\ ops' = ops /\ P.pc # "idle"
  <2>1. ASSUME P.pc = "idle" PROVE FALSE
    BY <2>1 DEF PrepareStep, RollbackReplacement, Recover, Reject, Restore, Drop,
       Preview, Select, CreateStaging, Unpack, WriteMarker, Activate, Replace,
       WriteReplacementMarker, RenameIntoPlace, Undo, Clear, Activated,
       SavePrepared, Rollback, Commit, Unmark, Discard, DeleteSources
  <2>2. intruded => intruded'
    BY MetStays DEF Next
  <2> QED BY <2>1, <2>2, PrepareStepMoves DEF PrepareMoves, SameEarly
<1>3. /\ P.op \in Ops /\ P.op \in 1 .. ops /\ P.inst \in Installations
      /\ Destination("prepare") \in Names /\ Destination("prepare") \in Paths
      /\ Destination("prepare")[1] = "name"
      /\ Staging(P.op) \in Paths \ Names /\ Staging(P.op)[1] = "stage"
      /\ Replaced(P.op) \in Paths \ Names /\ Replaced(P.op)[1] = "replaced"
      /\ ~IsRejected(Staging(P.op)) /\ ~IsRejected(Replaced(P.op))
      /\ Requested \in Paths /\ Requested \in Names /\ Requested[1] = "name"
  <2>1. P.op \in 1 .. ops
    BY <1>1, <1>2, ConstantsAssumption DEF PrepareOK, Course, TypeOK, Ops
  <2> QED BY <1>1, <1>2, <2>1, PathsOfActors, PathKinds DEF PrepareOK
<1>4. /\ \A c : Folder(c).replaces = 0
      /\ \A i \in Installations : i \notin UserContents
      /\ Folder(Progress).of \in UserContents
  BY ConstantsAssumption DEF Folder, UserContents
<1>5. \A p \in Paths : Exists(p) =>
        fs[p] \in Directories /\ (~intruded' => Fits(p, fs[p]))
  BY <1>1, <1>2 DEF Course, TypeOK, Exists, Contents, SameEarly
<1>6. CASE RollbackReplacement("prepare")
  BY <1>2, <1>6, UndoingFiles
<1>7. CASE Preview \/ Select \/ Activate \/ Activated \/ SavePrepared \/ DeleteSources
  BY <1>2, <1>7, LessIsFine
     DEF Preview, Select, Activate, Activated, SavePrepared, DeleteSources
<1>8. CASE CreateStaging
  <2>1. \A b \in BOOLEAN :
          Fits(Staging(P.op), [of |-> P.inst, whole |-> FALSE, tree |-> P.op,
                               staging |-> b, installation |-> FALSE, replaces |-> 0])
    BY <1>3, <1>4 DEF Fits
  <2>2. ASSUME NEW b \in BOOLEAN,
               fs' = [fs EXCEPT ![Staging(P.op)] =
                        [of |-> P.inst, whole |-> FALSE, tree |-> P.op, staging |-> b,
                         installation |-> FALSE, replaces |-> 0]]
        PROVE  Files'
    BY <1>2, <1>3, <2>1, <2>2, WrittenIsFine
  <2>3. CASE fs' = fs
    BY <1>2, <2>3, LessIsFine
  <2> QED BY <1>8, <2>2, <2>3 DEF CreateStaging
<1>9. CASE Unpack
  <2> DEFINE p   == Staging(P.op)
             dir == [fs[p] EXCEPT !.whole = TRUE, !.staging = FALSE]
  <2>1. CASE Exists(p) /\ fs' = [fs EXCEPT ![p] = dir]
    <3>1. dir.of = fs[p].of /\ dir.replaces = fs[p].replaces
      BY <1>3, <1>5, <2>1 DEF Directories
    <3>2. intruded' \/ fs[p].of \in Installations
      BY <1>3, <1>5, <2>1 DEF Fits
    <3>3. intruded' \/ Fits(p, dir)
      BY <1>3, <1>4, <3>1, <3>2 DEF Fits
    <3> QED BY <1>2, <1>3, <2>1, <3>1, <3>3, WrittenIsFine
  <2> QED BY <1>2, <1>9, <2>1, LessIsFine DEF Unpack
<1>10. CASE WriteMarker
  <2> DEFINE p   == Staging(P.op)
             dir == [fs[p] EXCEPT !.installation = TRUE]
  <2>1. CASE Exists(p) /\ fs' = [fs EXCEPT ![p] = dir]
    <3>1. dir.of = fs[p].of /\ dir.replaces = fs[p].replaces
      BY <1>3, <1>5, <2>1 DEF Directories
    <3>2. intruded' \/ fs[p].of \in Installations
      BY <1>3, <1>5, <2>1 DEF Fits
    <3>3. intruded' \/ Fits(p, dir)
      BY <1>3, <1>4, <3>1, <3>2 DEF Fits
    <3> QED BY <1>2, <1>3, <2>1, <3>1, <3>3, WrittenIsFine
  <2> QED BY <1>2, <1>10, <2>1, LessIsFine DEF WriteMarker
<1>11. CASE Replace
  <2>1. MayReplace /\ Exists(Requested) =>
          intruded' \/ Fits(Replaced(P.op), fs[Requested])
    <3>1. Exists(Requested) => fs[Requested].of \in Installations \cup UserContents
      BY <1>3, <1>5 DEF Directories
    <3> QED
      BY <1>3, <1>4, <1>5, <3>1
         DEF MayReplace, HasInstallationMarker, Fits, UserContents
  <2> QED
    BY <1>2, <1>3, <1>11, <2>1, LessIsFine, MovedIsFine DEF Replace, CanRename
<1>12. CASE WriteReplacementMarker
  <2> DEFINE p   == Staging(P.op)
             dir == [fs[p] EXCEPT !.replaces = P.op]
  <2>1. CASE Exists(p) /\ fs' = [fs EXCEPT ![p] = dir] /\ P'.swapped
    <3>1. dir.of = fs[p].of /\ dir.replaces = P.op
      BY <1>3, <1>5, <2>1 DEF Directories
    <3>2. intruded' \/ fs[p].of \in Installations
      BY <1>3, <1>5, <2>1 DEF Fits
    <3>3. intruded' \/ Fits(p, dir)
      BY <1>3, <1>4, <3>1, <3>2 DEF Fits
    <3>4. Early /\ ~P.swapped
      BY <1>1, <1>12 DEF WriteReplacementMarker, PrepareOK, Early, Before
    <3> QED BY <1>2, <1>3, <2>1, <3>1, <3>3, <3>4, WrittenIsFine
  <2>2. CASE TryRename(Replaced(P.op), Requested)
    <3>1. intruded' \/ (Exists(Replaced(P.op)) => Fits(Requested, fs[Replaced(P.op)]))
      BY <1>3, <1>4, <1>5 DEF Fits
    <3> QED BY <1>2, <1>3, <2>2, <3>1, TriedIsFine
  <2>3. act' = [act EXCEPT !["prepare"].pc = "rename", !["prepare"].swapped = TRUE]
          => P'.swapped
    BY <1>1 DEF Memory
  <2> QED BY <1>12, <2>1, <2>2, <2>3 DEF WriteReplacementMarker
<1>13. CASE RenameIntoPlace
  <2> DEFINE p == Staging(P.op)
  <2>1. CASE /\ CanRename(p, Destination("prepare"))
             /\ Rename(p, Destination("prepare"))
             /\ Goto("prepare", "activated")
    <3>1. Early /\ P.pc = "rename" /\ Exists(p)
      BY <1>13, <2>1 DEF RenameIntoPlace, Early, Before, CanRename
    <3>2. ~intruded' => /\ fs[p].of = P.inst /\ fs[p].whole /\ fs[p].installation
                        /\ fs[p].replaces = IF P.swapped THEN P.op ELSE 0
      BY <1>1, <1>2, <1>3, <3>1 DEF SameEarly, StagingOK, Unpacked, Ready
    <3>3. P.swapped => Destination("prepare") = Requested
      BY <1>1 DEF PrepareOK, Destination, Requested
    <3>4. intruded' \/ Fits(Destination("prepare"), fs[p])
      BY <1>3, <1>4, <3>2, <3>3 DEF Fits
    <3>5. ~Early'
      BY <1>1, <2>1 DEF Goto, Early, Memory, Before, Undoing
    <3> QED BY <1>2, <1>3, <2>1, <3>4, <3>5, MovedIsFine
  <2>2. CASE fs' = fs
    BY <1>2, <2>2, LessIsFine
  <2> QED BY <1>13, <2>1, <2>2 DEF RenameIntoPlace, MayActivate
<1>14. CASE Undo
  <2> DEFINE p   == Staging(P.op)
             q   == Replaced(P.op)
             dir == [fs[p] EXCEPT !.replaces = 0]
  <2>1. Exists(p) => dir.replaces = 0 /\ (intruded' \/ Fits(p, dir))
    <3>1. Exists(p) => /\ dir.of = fs[p].of /\ dir.replaces = 0
                       /\ intruded' \/ fs[p].of \in Installations
      BY <1>3, <1>5 DEF Directories, Fits
    <3> QED BY <1>3, <1>4, <3>1 DEF Fits
  <2>2. CASE fs' = [fs EXCEPT ![p] = dir] /\ Exists(p)
    BY <1>2, <1>3, <2>1, <2>2, WrittenIsFine
  <2>3. CASE fs' = fs
    BY <1>2, <2>3, LessIsFine
  <2>4. CASE CanRename(q, Requested) /\ ~Exists(p)
             /\ fs' = [fs EXCEPT ![q] = Nothing, ![Requested] = fs[q]]
    <3>1. Rename(q, Requested) /\ (intruded' \/ Fits(Requested, fs[q]))
      BY <1>3, <1>4, <1>5, <2>4 DEF Rename, CanRename, Fits
    <3> QED BY <1>2, <1>3, <2>4, <3>1, MovedIsFine
  <2>5. CASE CanRename(q, Requested) /\ Exists(p)
             /\ fs' = [[fs EXCEPT ![p] = dir] EXCEPT ![q] = Nothing, ![Requested] = fs[q]]
    <3>1. (intruded' \/ Fits(Requested, fs[q])) /\ Exists(q)
      BY <1>3, <1>4, <1>5, <2>5 DEF CanRename, Fits
    <3>11. Early /\ (Early' => P'.op = P.op)
      BY <1>2, <1>14 DEF Undo, Early, Before, SameEarly
    <3>12. fs[q].replaces # 0 => fs[q].replaces # P.op
      BY <1>3, <3>1, <3>11 DEF Files, MarkersKnown
    <3>2. /\ fs'[p] = dir /\ fs'[q] = Nothing /\ fs'[Requested] = fs[q]
          /\ \A r \in Paths \ {p, q, Requested} : fs'[r] = fs[r]
      BY <1>3, <2>5 DEF Course, TypeOK
    <3>3. \A r \in Paths : Exists(r)' =>
            \/ r = p /\ fs'[r].replaces = 0 /\ (intruded' \/ Fits(r, fs'[r]))
            \/ r = Requested /\ fs'[r] = fs[q] /\ (intruded' \/ Fits(r, fs'[r]))
            \/ r \notin {p, q, Requested} /\ Exists(r) /\ fs'[r] = fs[r]
      BY <1>3, <2>1, <2>5, <3>1, <3>2 DEF Exists
    <3>4. intruded' \/ Contents'
      BY <1>5, <3>3 DEF Contents
    <3>5. MarkersOnce'
      BY <1>3, <3>1, <3>3 DEF Files, MarkersOnce
    <3>6. MarkersKnown'
      BY <1>2, <1>3, <3>1, <3>11, <3>12, <3>3 DEF Files, MarkersKnown, SameEarly
    <3> QED BY <3>4, <3>5, <3>6 DEF Files
  <2> QED BY <1>14, <2>2, <2>3, <2>4, <2>5 DEF Undo
<1>15. CASE Clear
  BY <1>2, <1>3, <1>15, LessIsFine, RemoveTakes DEF Clear, Course
<1>16. CASE Rollback
  BY <1>2, <1>3, <1>16, LessIsFine, RemoveTakes DEF Rollback, Course
<1>17. CASE Commit("prepare") \/ Unmark("prepare") \/ Discard("prepare")
  BY <1>2, <1>17, CommittingFiles
<1> QED
  BY <1>6, <1>7, <1>8, <1>9, <1>10, <1>11, <1>12, <1>13, <1>14, <1>15, <1>16, <1>17
     DEF PrepareStep

LEMMA FilesStep ==
  ASSUME Course, Files, ~intruded => StagingOK, [Next]_vars
  PROVE  Files'
<1>1. Actors = {"prepare", "inspect", "cleanup"} /\ ops \in Nat
  BY DEF Actors, Course, TypeOK
<1>0. intruded => intruded'
  BY MetStays
<1>2. CASE PrepareStep
  BY <1>2, PrepareFiles
<1>3. CASE RollbackReplacement("inspect") \/ \E i \in Installations : InspectDestination(i)
  <2>1. P' = P /\ (Early' <=> Early) /\ ops' = ops
    BY <1>1, <1>3, InspectStepMoves DEF InspectMoves, P, Early
  <2>2. SameEarly
    BY <1>0, <2>1 DEF SameEarly
  <2>3. CASE RollbackReplacement("inspect")
    BY <2>2, <2>3, UndoingFiles
  <2>4. CASE \E i \in Installations : InspectDestination(i)
    BY <2>1, <2>2, <2>4, LessIsFine DEF InspectDestination
  <2> QED BY <1>3, <2>3, <2>4
<1>4. CASE StartCleanup \/ CleanupStep
  <2>1. P' = P /\ (Early' <=> Early) /\ ops' = ops
    BY <1>1, <1>4, CleanupStepMoves DEF CleanupMoves, P, Early
  <2>2. SameEarly
    BY <1>0, <2>1 DEF SameEarly
  <2>3. CASE StartCleanup \/ List \/ Sweep
    BY <2>1, <2>2, <2>3, LessIsFine DEF StartCleanup, List, Sweep
  <2>4. CASE DeleteStaging
    <3>1. Staging(act["cleanup"].op) \in Paths
      BY <2>4, PathKinds DEF DeleteStaging, At, Course, CleanupOK
    <3> QED BY <2>1, <2>2, <2>4, <3>1, LessIsFine, RemoveTakes DEF DeleteStaging, Course
  <2>6. CASE DeleteEntry
    <3> DEFINE C == act["cleanup"]
    <3>1. PICK p \in Paths :
            /\ Exists(p)
            /\ \E remnant \in Remnants(fs[p]) : fs' = [fs EXCEPT ![p] = remnant]
            /\ intruded' = (intruded \/ Tears(p))
      BY <2>6 DEF DeleteEntry
    <3>2. PICK remnant \in Remnants(fs[p]) : fs' = [fs EXCEPT ![p] = remnant]
      BY <3>1
    <3>3. fs[p] \in Directories /\ remnant.of = fs[p].of
          /\ remnant.replaces \in {0, fs[p].replaces}
      BY <3>1, RemnantsAreLess DEF Course, TypeOK, Exists
    <3>4. ASSUME ~intruded'
          PROVE  Fits(p, remnant)
      <4>1. p = Staging(C.op) /\ C.op \in Ops /\ Contents
        BY <2>6, <3>1, <3>4 DEF Tears, Files, DeleteEntry, At, Course, CleanupOK
      <4>2. p \notin Names /\ ~IsRejected(p) /\ p[1] = "stage"
        BY <4>1, PathKinds DEF IsRejected
      <4>3. fs[p].of \in Installations
        BY <3>1, <4>1, <4>2 DEF Contents, Fits
      <4> QED
        BY <3>3, <4>2, <4>3, ConstantsAssumption DEF Fits
    <3> QED BY <2>1, <2>2, <3>1, <3>2, <3>3, <3>4, WrittenIsFine
  <2>5. CASE Commit("cleanup") \/ Unmark("cleanup") \/ Discard("cleanup")
    BY <2>2, <2>5, CommittingFiles
  <2> QED BY <1>4, <2>3, <2>4, <2>5, <2>6 DEF CleanupStep
<1>5. CASE \E i \in Installations, policy \in Policies : Start(i, policy)
  <2>1. PICK i \in Installations, policy \in Policies : Start(i, policy)
    BY <1>5
  <2>2. /\ fs' = fs /\ ops' = ops + 1
        /\ P' = [AtRest EXCEPT !.op = ops + 1, !.inst = i, !.policy = policy,
                   !.pc = "recover", !.back = "preview", !.fault = "idle"]
    BY <1>1, <2>1 DEF Start, Inspecting, P, Course, TypeOK
  <2>3. P'.op = ops + 1
    BY <2>2 DEF AtRest
  <2>4. (intruded' \/ Contents') /\ MarkersOnce'
    BY <1>0, <2>2 DEF Files, Contents, MarkersOnce, Exists
  <2>5. MarkersKnown'
    BY <1>1, <2>2, <2>3 DEF Course, MarkersKnown, Exists
  <2> QED BY <2>4, <2>5 DEF Files
<1>6. CASE Visit
  <2>1. SameEarly /\ ops' = ops
    BY <1>0, <1>6 DEF Visit, SameEarly, Early, P
  <2>2. /\ Folder(Visitor).replaces = 0 /\ Folder(Visitor).of = Visitor
        /\ Visitor \in UserContents /\ Visitor \notin Installations
    BY ConstantsAssumption DEF Folder, UserContents
  <2>3. Requested \in Paths /\ Requested \in Names /\ Requested[1] = "name"
    BY PathKinds
  <2>4. Fits(Requested, Folder(Visitor))
    BY <2>2, <2>3 DEF Fits
  <2> QED BY <1>6, <2>1, <2>2, <2>3, <2>4, WrittenIsFine DEF Visit
<1>7. CASE Crash
  <2>1. P' = AtRest /\ ops' = ops /\ fs' = fs
    BY <1>1, <1>7 DEF Crash, P
  <2>2. SameEarly
    BY <1>0, <2>1 DEF SameEarly, Early, AtRest, Before, Undoing
  <2> QED BY <2>1, <2>2, LessIsFine
<1>8. CASE UNCHANGED vars
  <2>1. P' = P /\ ops' = ops /\ fs' = fs /\ (Early' <=> Early)
    BY <1>8 DEF vars, P, Early
  <2> QED BY <1>0, <2>1, LessIsFine DEF SameEarly
<1> QED
  BY <1>2, <1>3, <1>4, <1>5, <1>6, <1>7, <1>8 DEF Next

\* The staging folder follows the preparation's place.
LEMMA PrepareStaging ==
  ASSUME Structure, PrepareStep
  PROVE  StagingOK'
<1> USE DEF P, At, Unpacked, Ready, Early, Before, Undoing
<1>1. /\ P \in Memory /\ act \in [Actors -> Memory] /\ "prepare" \in Actors
      /\ PrepareOK /\ StagingOK /\ fs \in [Paths -> Directories \cup {Nothing}]
  BY DEF Structure, Course, TypeOK, Actors
<1>2. PrepareMoves /\ PrepareOK'
  BY PrepareStepMoves DEF PrepareMoves, Structure
<1>3. P.op \in Ops => Staging(P.op) \in Paths /\ Staging(P.op) \notin Names
                      /\ Staging(P.op) # Replaced(P.op) /\ Staging(P.op) # Requested
  BY PathKinds
<1>4. \A p \in Paths : Exists(p) => fs[p] \in Directories
  BY <1>1 DEF Exists
<1>5. ASSUME NEW place, Goto("prepare", place), place # "idle"
      PROVE  /\ P'.pc = place /\ P'.op = P.op /\ P'.inst = P.inst
             /\ P'.swapped = P.swapped /\ P'.back = P.back
  <2>1. act' = [act EXCEPT !["prepare"] = [P EXCEPT !.pc = place]]
    BY <1>1, <1>5 DEF Goto
  <2> QED BY <1>1, <2>1 DEF Memory
<1>6. ASSUME Goto("prepare", "idle") PROVE StagingOK'
  BY <1>1, <1>6 DEF Goto, AtRest, StagingOK
\* Nothing is required of the staging folder after the step.
<1>7. /\ P'.pc \in {"preview", "select", "stage", "clear"} => StagingOK'
      /\ P'.pc \notin Before \cup Undoing => StagingOK'
      /\ P'.pc \in Undoing /\ P'.back # "replace" => StagingOK'
  BY DEF StagingOK
<1>71. ASSUME NEW place \in {"preview", "select", "stage", "clear", "activated", "save",
                             "rollback", "sources", "commit", "unmark", "discard"},
              Goto("prepare", place)
       PROVE  StagingOK'
  <2>1. P'.pc = place
    BY <1>5, <1>71
  <2>2. CASE place \in {"preview", "select", "stage", "clear"}
    BY <1>7, <2>1, <2>2
  <2>3. CASE place \notin {"preview", "select", "stage", "clear"}
    BY <1>7, <1>71, <2>1, <2>3
  <2> QED BY <2>2, <2>3
\* The staging folder stays as it is.
<1>8. ASSUME P'.op = P.op, P'.inst = P.inst, P'.swapped = P.swapped,
             fs'[Staging(P.op)] = fs[Staging(P.op)],
             P'.pc = "unpack" \/ Unpacked' => P.pc = "unpack" \/ Unpacked,
             Unpacked' => Unpacked, Ready' => Ready
      PROVE  StagingOK'
  BY <1>1, <1>2, <1>8 DEF StagingOK, Exists, PrepareMoves
<1>9. P.pc # "idle" => P.op \in Ops
  BY <1>1 DEF PrepareOK
<1>10. CASE RollbackReplacement("prepare")
  <2>1. P.pc \in Undoing /\ P.op \in Ops
    BY <1>9, <1>10 DEF RollbackReplacement, Recover, Reject, Restore, Drop
  <2>2. fs'[Staging(P.op)] = fs[Staging(P.op)]
    <3>1. P.pc # "recover" =>
            /\ Replaced(P.backup) \in Paths /\ Rejected("prepare", P.backup) \in Paths
            /\ Staging(P.op) \notin {Requested, Replaced(P.backup),
                                     Rejected("prepare", P.backup)}
      BY <1>1, <2>1, PathsOfActors, PathKinds DEF Structure
    <3> QED
      BY <1>1, <1>3, <1>10, <2>1, <3>1
         DEF RollbackReplacement, Recover, Reject, Restore, Drop, TryRename, CanRename,
             Rename, RemovePath
  <2>3. CASE Goto("prepare", P.fault)
    BY <1>1, <1>6, <1>71, <2>3 DEF PrepareOK
  <2>4. CASE Goto("prepare", P.back)
    <3>1. CASE P.back = "replace"
      BY <1>5, <1>8, <2>1, <2>2, <2>4, <3>1
    <3> QED BY <1>1, <1>6, <1>71, <2>4, <3>1 DEF PrepareOK
  <2>5. ASSUME NEW place \in Undoing, Goto("prepare", place)
        PROVE  StagingOK'
    BY <1>5, <1>8, <2>1, <2>2, <2>5
  <2>6. ASSUME NEW b, act' = [act EXCEPT !["prepare"].pc = "reject",
                                         !["prepare"].backup = b]
        PROVE  StagingOK'
    <3>1. act' = [act EXCEPT !["prepare"] = [P EXCEPT !.pc = "reject", !.backup = b]]
      BY <1>1, <2>6
    <3>2. /\ P'.pc = "reject" /\ P'.op = P.op /\ P'.inst = P.inst
          /\ P'.swapped = P.swapped /\ P'.back = P.back
      BY <1>1, <3>1 DEF Memory
    <3> QED BY <1>8, <2>1, <2>2, <3>2
  <2> QED
    BY <1>10, <2>3, <2>4, <2>5, <2>6
       DEF RollbackReplacement, Recover, Reject, Restore, Drop
<1>11. CASE Preview
  <2>1. P'.pc = "recover" /\ P'.back = "select"
    BY <1>1, <1>11 DEF Preview, Inspecting, Memory
  <2> QED BY <1>7, <2>1
<1>12. CASE Select
  <2>1. ASSUME NEW n, act' = [act EXCEPT !["prepare"].name = n, !["prepare"].pc = "stage"]
        PROVE  StagingOK'
    <3>1. act' = [act EXCEPT !["prepare"] = [P EXCEPT !.name = n, !.pc = "stage"]]
      BY <1>1, <2>1
    <3>2. P'.pc = "stage"
      BY <1>1, <3>1 DEF Memory
    <3> QED BY <1>7, <3>2
  <2> QED BY <1>6, <1>12, <1>71, <2>1 DEF Select
<1>13. CASE CreateStaging
  <2>1. CASE Goto("prepare", "idle")
    BY <1>6, <2>1
  <2>2. CASE /\ Goto("prepare", "unpack")
             /\ fs' = [fs EXCEPT ![Staging(P.op)] =
                         [of |-> P.inst, whole |-> FALSE, tree |-> P.op, staging |-> TRUE,
                          installation |-> FALSE, replaces |-> 0]]
    <3>1. /\ P'.pc = "unpack" /\ P'.op = P.op /\ P'.inst = P.inst
          /\ P'.swapped = P.swapped
      BY <1>5, <2>2
    <3>2. fs'[Staging(P.op)].of = P.inst /\ fs'[Staging(P.op)].replaces = 0
      BY <1>1, <1>3, <1>9, <1>13, <2>2 DEF CreateStaging
    <3>3. ~P.swapped
      BY <1>1, <1>13 DEF CreateStaging, PrepareOK
    <3> QED BY <3>1, <3>2, <3>3 DEF StagingOK
  <2> QED BY <1>13, <2>1, <2>2 DEF CreateStaging
<1>14. CASE Unpack
  <2> DEFINE p   == Staging(P.op)
             dir == [fs[p] EXCEPT !.whole = TRUE, !.staging = FALSE]
  <2>1. CASE Goto("prepare", "clear")
    BY <1>71, <2>1
  <2>2. CASE Goto("prepare", "mark") /\ Exists(p) /\ fs' = [fs EXCEPT ![p] = dir]
    <3>1. /\ P'.pc = "mark" /\ P'.op = P.op /\ P'.inst = P.inst
          /\ P'.swapped = P.swapped
      BY <1>5, <2>2
    <3>2. P.pc = "unpack" /\ p \in Paths /\ P.op \in Ops
      BY <1>3, <1>9, <1>14 DEF Unpack
    <3>3. /\ fs'[p].of = fs[p].of /\ fs'[p].replaces = fs[p].replaces /\ fs'[p].whole
      BY <1>1, <1>4, <2>2, <3>2 DEF Directories
    <3> QED BY <1>1, <2>2, <3>1, <3>2, <3>3 DEF StagingOK
  <2> QED BY <1>14, <2>1, <2>2 DEF Unpack
<1>15. CASE WriteMarker
  <2> DEFINE p   == Staging(P.op)
             dir == [fs[p] EXCEPT !.installation = TRUE]
  <2>1. CASE Goto("prepare", "clear")
    BY <1>71, <2>1
  <2>2. CASE Goto("prepare", "activate") /\ Exists(p) /\ fs' = [fs EXCEPT ![p] = dir]
    <3>1. /\ P'.pc = "activate" /\ P'.op = P.op /\ P'.inst = P.inst
          /\ P'.swapped = P.swapped
      BY <1>5, <2>2
    <3>2. P.pc = "mark" /\ p \in Paths /\ P.op \in Ops
      BY <1>3, <1>9, <1>15 DEF WriteMarker
    <3>3. /\ fs'[p].of = fs[p].of /\ fs'[p].replaces = fs[p].replaces
          /\ fs'[p].whole = fs[p].whole /\ fs'[p].installation
      BY <1>1, <1>4, <2>2, <3>2 DEF Directories
    <3> QED BY <1>1, <2>2, <3>1, <3>2, <3>3 DEF StagingOK
  <2> QED BY <1>15, <2>1, <2>2 DEF WriteMarker
<1>16. CASE Activate
  <2>1. CASE Goto("prepare", "clear")
    BY <1>71, <2>1
  <2>2. CASE Goto("prepare", "rename")
    BY <1>5, <1>8, <1>16, <2>2 DEF Activate
  <2>3. CASE act' = [act EXCEPT !["prepare"] = Inspecting(P, "replace", "clear")]
    <3>1. /\ P'.pc = "recover" /\ P'.back = "replace" /\ P'.op = P.op
          /\ P'.inst = P.inst /\ P'.swapped = P.swapped
      BY <1>1, <2>3 DEF Inspecting, Memory
    <3> QED BY <1>8, <1>16, <3>1 DEF Activate
  <2> QED BY <1>16, <2>1, <2>2, <2>3 DEF Activate
<1>17. CASE Replace
  <2>1. CASE Goto("prepare", "clear")
    BY <1>71, <2>1
  <2>2. CASE Goto("prepare", "swap") /\ Rename(Requested, Replaced(P.op))
    <3>1. fs'[Staging(P.op)] = fs[Staging(P.op)]
      BY <1>1, <1>3, <1>9, <1>17, <2>2 DEF Replace, Rename
    <3> QED BY <1>5, <1>8, <1>17, <2>2, <3>1 DEF Replace
  <2> QED BY <1>17, <2>1, <2>2 DEF Replace
<1>18. CASE WriteReplacementMarker
  <2> DEFINE p   == Staging(P.op)
             dir == [fs[p] EXCEPT !.replaces = P.op]
  <2>1. CASE Goto("prepare", "clear")
    BY <1>71, <2>1
  <2>2. CASE /\ Exists(p) /\ fs' = [fs EXCEPT ![p] = dir]
             /\ act' = [act EXCEPT !["prepare"].pc = "rename",
                                   !["prepare"].swapped = TRUE]
    <3>1. act' = [act EXCEPT !["prepare"] = [P EXCEPT !.pc = "rename", !.swapped = TRUE]]
      BY <1>1, <2>2
    <3>2. P'.pc = "rename" /\ P'.op = P.op /\ P'.inst = P.inst /\ P'.swapped
      BY <1>1, <3>1 DEF Memory
    <3>3. P.pc = "swap" /\ p \in Paths /\ P.op \in Ops
      BY <1>3, <1>9, <1>18 DEF WriteReplacementMarker
    <3>4. /\ fs'[p].of = fs[p].of /\ fs'[p].replaces = P.op
          /\ fs'[p].whole = fs[p].whole /\ fs'[p].installation = fs[p].installation
      BY <1>1, <1>4, <2>2, <3>3 DEF Directories
    <3> QED BY <1>1, <2>2, <3>2, <3>3, <3>4 DEF StagingOK
  <2> QED BY <1>18, <2>1, <2>2 DEF WriteReplacementMarker
<1>19. CASE RenameIntoPlace
  <2>1. CASE Goto("prepare", "activated")
    BY <1>71, <2>1
  <2>2. CASE /\ Goto("prepare", IF P.swapped THEN "undo" ELSE "clear")
             /\ UNCHANGED fs
    BY <1>5, <1>8, <1>19, <1>71, <2>2 DEF RenameIntoPlace
  <2>3. ASSUME NEW n, act' = [act EXCEPT !["prepare"].name = n], UNCHANGED fs
        PROVE  StagingOK'
    <3>1. act' = [act EXCEPT !["prepare"] = [P EXCEPT !.name = n]]
      BY <1>1, <2>3
    <3>2. /\ P'.pc = P.pc /\ P'.op = P.op /\ P'.inst = P.inst
          /\ P'.swapped = P.swapped /\ P'.back = P.back
      BY <1>1, <3>1 DEF Memory
    <3> QED BY <1>8, <2>3, <3>2
  <2> QED BY <1>19, <2>1, <2>2, <2>3 DEF RenameIntoPlace
<1>20. CASE Undo
  BY <1>20, <1>71 DEF Undo
<1>21. CASE Clear \/ DeleteSources
  BY <1>6, <1>21 DEF Clear, DeleteSources
<1>22. CASE Activated
  BY <1>22, <1>71 DEF Activated
<1>23. CASE SavePrepared
  BY <1>6, <1>23, <1>71 DEF SavePrepared
<1>24. CASE Rollback
  <2>1. ASSUME NEW b,
               act' = [act EXCEPT !["prepare"].pc = "reject", !["prepare"].backup = b,
                                  !["prepare"].back = "idle", !["prepare"].fault = "idle"]
        PROVE  StagingOK'
    <3>1. act' = [act EXCEPT !["prepare"] =
                    [P EXCEPT !.pc = "reject", !.backup = b,
                              !.back = "idle", !.fault = "idle"]]
      BY <1>1, <2>1
    <3> QED BY <1>1, <1>7, <3>1 DEF Memory
  <2> QED BY <1>6, <1>24, <2>1 DEF Rollback
<1>25. CASE Commit("prepare")
  <2>1. ASSUME NEW b, act' = [act EXCEPT !["prepare"].pc = "unmark",
                                         !["prepare"].backup = b]
        PROVE  StagingOK'
    <3>1. act' = [act EXCEPT !["prepare"] = [P EXCEPT !.pc = "unmark", !.backup = b]]
      BY <1>1, <2>1
    <3>2. P'.pc = "unmark"
      BY <1>1, <3>1 DEF Memory
    <3> QED BY <1>7, <3>2
  <2> QED BY <1>6, <1>25, <1>71, <2>1 DEF Commit, AfterCommit, MarkerFirst
<1>26. CASE Unmark("prepare")
  BY <1>6, <1>26, <1>71 DEF Unmark
<1>27. CASE Discard("prepare")
  BY <1>27, <1>71 DEF Discard, AfterCommit
<1> QED
  BY <1>10, <1>11, <1>12, <1>13, <1>14, <1>15, <1>16, <1>17, <1>18, <1>19, <1>20,
     <1>21, <1>22, <1>23, <1>24, <1>25, <1>26, <1>27 DEF PrepareStep

\* The other actors leave the preparation's staging folder, or delete it.
LEMMA StagingStep ==
  ASSUME Structure, [Next]_vars, ~intruded'
  PROVE  StagingOK'
<1> USE DEF P
<1>1. /\ Actors = {"prepare", "inspect", "cleanup"} /\ act \in [Actors -> Memory]
      /\ fs \in [Paths -> Directories \cup {Nothing}] /\ StagingOK
  BY DEF Actors, Structure, Course, TypeOK
<1>2. P.pc # "idle" => P.op \in Ops
  BY PathsOfActors DEF Structure
<1>3. ASSUME P' = P, P.op \in Ops => fs'[Staging(P.op)] \in {fs[Staging(P.op)], Nothing}
      PROVE  StagingOK'
  BY <1>1, <1>3 DEF StagingOK, Exists, Early, Unpacked, Ready
<1>4. CASE PrepareStep
  BY <1>4, PrepareStaging
<1>5. CASE RollbackReplacement("inspect")
  <2> DEFINE b == act["inspect"].backup
  <2>1. P' = P
    BY <1>1, <1>5, InspectStepMoves DEF InspectMoves, Structure
  <2>2. act["inspect"].pc # "recover" =>
          /\ Replaced(b) \in Paths /\ Rejected("inspect", b) \in Paths
          /\ \A op \in Ops : Staging(op) \notin {Requested, Replaced(b), Rejected("inspect", b)}
    BY <1>1, <1>5, PathsOfActors, PathKinds
       DEF RollbackReplacement, Recover, Reject, Restore, Drop, At, IsRejected, Structure
  <2>3. \A op \in Ops : fs'[Staging(op)] = fs[Staging(op)]
    BY <1>1, <1>5, <2>2, PathKinds
       DEF RollbackReplacement, Recover, Reject, Restore, Drop, At, TryRename, CanRename,
           Rename, RemovePath
  <2> QED BY <1>3, <2>1, <2>3
<1>6. CASE \E i \in Installations : InspectDestination(i)
  <2>1. P' = P /\ fs' = fs
    BY <1>1, <1>6, InspectStepMoves DEF InspectMoves, InspectDestination, Structure
  <2> QED BY <1>3, <2>1
<1>7. CASE StartCleanup \/ CleanupStep
  <2>1. P' = P
    BY <1>1, <1>7, CleanupStepMoves DEF CleanupMoves, Structure
  <2>2. CASE fs' = fs
    BY <1>3, <2>1, <2>2
  <2>3. CASE DeleteStaging
    BY <1>1, <1>3, <2>1, <2>3, PathKinds DEF DeleteStaging, RemovePath
  <2>4. CASE Unmark("cleanup")
    BY <1>1, <1>3, <2>1, <2>4, PathsOfActors, PathKinds DEF Unmark, Structure
  <2>5. CASE Discard("cleanup")
    BY <1>1, <1>3, <2>1, <2>5, PathsOfActors, PathKinds
       DEF Discard, RemovePath, At, Structure
  <2>6. CASE DeleteEntry
    <3>1. PICK p \in Paths : /\ \E remnant : fs' = [fs EXCEPT ![p] = remnant]
                            /\ intruded' = (intruded \/ Tears(p))
      BY <2>6 DEF DeleteEntry
    <3>2. Staging(P.op) # p
      <4>1. p = Staging(act["cleanup"].op) /\ act["cleanup"].op # P.op
        BY <3>1 DEF Tears
      <4>2. Staging(P.op)[2] = P.op /\ Staging(act["cleanup"].op)[2] = act["cleanup"].op
        BY DEF Staging
      <4> QED BY <4>1, <4>2
    <3>3. P.op \in Ops => fs'[Staging(P.op)] = fs[Staging(P.op)]
      BY <1>1, <3>1, <3>2, PathKinds
    <3> QED BY <1>3, <2>1, <3>3
  <2> QED
    BY <1>7, <2>2, <2>3, <2>4, <2>5, <2>6 DEF StartCleanup, CleanupStep, List, Sweep, Commit
<1>8. CASE \E i \in Installations, policy \in Policies : Start(i, policy)
  <2>1. P'.pc = "recover" /\ P'.back = "preview"
    BY <1>1, <1>8 DEF Start, Inspecting, AtRest
  <2> QED BY <2>1 DEF StagingOK, Unpacked, Ready
<1>9. CASE Visit
  BY <1>1, <1>3, <1>9, PathKinds DEF Visit
<1>10. CASE Crash
  BY <1>1, <1>10 DEF Crash, AtRest, StagingOK, Early, Before, Undoing
<1>11. CASE UNCHANGED vars
  BY <1>3, <1>11 DEF vars
<1> QED
  BY <1>4, <1>5, <1>6, <1>7, <1>8, <1>9, <1>10, <1>11 DEF Next

LEMMA CourseStep ==
  ASSUME Course, intruded \/ Contents, ~intruded => StagingOK, [Next]_vars
  PROVE  Course' /\ (intruded' \/ Contents')
BY Typed, PlacesStep, FilesStep DEF Course, Files

LEMMA StructureStep ==
  ASSUME Structure, [Next]_vars, ~intruded'
  PROVE  Structure'
BY CourseStep, StagingStep DEF Structure

-----------------------------------------------------------------------------
(* The initial state.                                                       *)

LEMMA Initially == Init => IInv
<1> SUFFICES ASSUME Init PROVE IInv
  OBVIOUS
<1>1. PICK original \in {Progress, Orphan, "nothing"} :
        /\ fs = [p \in Paths |->
                   IF p = Requested /\ original # "nothing"
                   THEN Folder(original) ELSE Nothing]
        /\ placed = {original} \ {"nothing"}
  BY DEF Init
<1>2. /\ "nothing" \notin UserContents /\ Progress \in UserContents
      /\ Orphan \in UserContents
  BY DEF UserContents, Progress, Orphan, Visitor
<1>3. \A p \in Paths : Exists(p) =>
        /\ p = Requested /\ original \in UserContents
        /\ fs[p] = Folder(original) /\ fs[p].of = original /\ fs[p].replaces = 0
  BY <1>1, <1>2 DEF Exists, Folder
<1>4. /\ \A a \in Actors : act[a] = AtRest
      /\ AtRest.pc = "idle" /\ AtRest.back = "idle" /\ AtRest.fault = "idle"
      /\ AtRest.policy = "Refuse" /\ AtRest.name = 1 /\ ~AtRest.swapped
      /\ AtRest.todo = {}
  BY DEF Init, AtRest
<1>5. Actors = {"prepare", "inspect", "cleanup"}
  BY DEF Actors
<1>6. TypeOK
  <2>1. fs \in [Paths -> Directories \cup {Nothing}]
    BY <1>1, <1>2, FolderIsDirectory
  <2>2. placed \subseteq UserContents
    BY <1>1, <1>2
  <2>3. act \in [Actors -> Memory]
    BY AtRestTyped DEF Init
  <2>4. row \in [Installations -> 0 .. LastName] /\ sources \subseteq Installations
    BY ConstantsAssumption DEF Init
  <2>5. /\ given \subseteq UserContents \cup Installations /\ intruded \in BOOLEAN
        /\ ops \in 0 .. MaxOps /\ crashes \in 0 .. MaxCrashes /\ visits \in 0 .. MaxVisits
    <3>1. given = {} /\ intruded = FALSE /\ ops = 0 /\ crashes = 0 /\ visits = 0
      BY DEF Init
    <3>2. MaxOps \in Nat /\ MaxCrashes \in Nat /\ MaxVisits \in Nat
      BY ConstantsAssumption
    <3>3. given \subseteq UserContents \cup Installations /\ intruded \in BOOLEAN
      BY <3>1
    <3> QED BY <3>1, <3>2, <3>3
  <2> QED BY <2>1, <2>2, <2>3, <2>4, <2>5 DEF TypeOK
<1>7. PrepareOK /\ InspectOK /\ CleanupOK
  BY <1>4, <1>5
     DEF PrepareOK, InspectOK, CleanupOK, P, PreparePlaces, InspectPlaces, CleanupPlaces,
         Undoing, Committing, Before, After, Unrecorded, Early
<1>8. BackupsKnown
  BY <1>4 DEF BackupsKnown
<1>9. ~Early
  BY <1>4, <1>5 DEF Early, P, Before, Undoing
<1>10. Contents
  BY <1>2, <1>3, PathKinds, ConstantsAssumption DEF Contents, Fits
<1>11. StagingOK /\ MarkersOnce /\ MarkersKnown
  BY <1>3, <1>9 DEF StagingOK, MarkersOnce, MarkersKnown
<1>12. /\ RejectedAreInstallations /\ ActivatedInPlace /\ UndoesItsOwn
       /\ CommitsWhatIsGiven /\ RecordedIsGiven
  <2>1. RejectedAreInstallations
    BY <1>3, PathKinds DEF RejectedAreInstallations
  <2>2. ActivatedInPlace /\ UndoesItsOwn /\ CommitsWhatIsGiven
    BY <1>4, <1>5 DEF ActivatedInPlace, UndoesItsOwn, CommitsWhatIsGiven, P, After
  <2>3. RecordedIsGiven
    BY DEF Init, RecordedIsGiven
  <2> QED BY <2>1, <2>2, <2>3
<1>13. ReplacedIsThere
  BY <1>4, <1>5 DEF ReplacedIsThere, P
<1>14. ContentsAreKept
  BY <1>1, <1>2, PathKinds DEF ContentsAreKept, Holds, Exists, Folder, Nothing
<1>15. RecordedAreInPlace
  BY DEF Init, RecordedAreInPlace
<1>16. MarkedHaveTheirBackup
  BY <1>3, PathKinds DEF MarkedHaveTheirBackup, HasReplacementMarker
<1> QED
  BY <1>6, <1>7, <1>8, <1>10, <1>11, <1>12, <1>13, <1>14, <1>15, <1>16
     DEF IInv, Structure, Course, Promises

-----------------------------------------------------------------------------
(* What a step does to the files while no preparation is met.               *)

OthersStay(S) == \A p \in Paths \ S : fs'[p] = fs[p]

Moves(p, q) ==
  /\ Exists(p) /\ ~Exists(q)
  /\ fs'[q] = fs[p] /\ fs'[p] = Nothing /\ OthersStay({p, q})

Takes(p) == fs'[p] = Nothing /\ OthersStay({p})

Rejects(a) ==
  /\ At(a, "reject") /\ act'[a].pc # "reject" /\ ~Intrudes(a)
  /\ Moves(Requested, Rejected(a, act[a].backup))

Restores(a) ==
  /\ At(a, "restore") /\ act'[a].pc # "restore"
  /\ \/ Moves(Replaced(act[a].backup), Requested)
     \/ Moves(Rejected(a, act[a].backup), Requested)

Drops(a) == At(a, "drop") /\ Takes(Rejected(a, act[a].backup))

Unmarks(a) ==
  LET p == Destination(a) IN
  /\ At(a, "unmark") /\ HasReplacementMarker(p) /\ OthersStay({p})
  /\ fs'[p] # Nothing /\ fs'[p].replaces = 0
  /\ fs'[p].of = fs[p].of /\ fs'[p].whole = fs[p].whole
  /\ fs'[p].installation = fs[p].installation

Discards(a) ==
  At(a, "discard") /\ act'[a].pc # "discard" /\ Takes(Replaced(act[a].backup))

\* A staging folder is created, changed or deleted; its marker stays or goes.
Stages(op) ==
  LET p == Staging(op) IN
  /\ op \in Ops /\ OthersStay({p})
  /\ fs'[p] # Nothing =>
       /\ fs'[p].of \in Installations
       /\ \/ fs'[p].replaces = 0
          \/ Exists(p) /\ fs'[p].replaces = fs[p].replaces /\ fs'[p].of = fs[p].of

Marks ==
  LET p == Staging(P.op) IN
  /\ At("prepare", "swap") /\ Exists(p) /\ OthersStay({p})
  /\ fs'[p] # Nothing /\ fs'[p].replaces = P.op /\ fs'[p].of = fs[p].of

Replaces ==
  At("prepare", "replace") /\ MayReplace /\ Moves(Requested, Replaced(P.op))

Undoes ==
  LET p == Staging(P.op)
      q == Replaced(P.op) IN
  /\ At("prepare", "swap") \/ At("prepare", "undo")
  /\ P'.pc = "clear" /\ Exists(q) /\ ~Exists(Requested)
  /\ fs'[Requested] = fs[q] /\ fs'[q] = Nothing /\ OthersStay({p, q, Requested})
  /\ \/ fs'[p] = fs[p]
     \/ Exists(p) /\ fs'[p] # Nothing /\ fs'[p].replaces = 0 /\ fs'[p].of = fs[p].of

Activates ==
  At("prepare", "rename") /\ Moves(Staging(P.op), Destination("prepare"))

RollsBack ==
  /\ At("prepare", "rollback") /\ P'.pc # "rollback"
  /\ Takes(Destination("prepare"))

Visits ==
  /\ ~Exists(Requested)
  /\ fs'[Requested] = Folder(Visitor) /\ OthersStay({Requested})

Effect ==
  \/ fs' = fs
  \/ \E a \in {"prepare", "inspect"} : Rejects(a) \/ Restores(a) \/ Drops(a)
  \/ \E a \in {"prepare", "cleanup"} : Unmarks(a) \/ Discards(a)
  \/ \E op \in Ops : Stages(op)
  \/ Marks \/ Replaces \/ Undoes \/ Activates \/ RollsBack \/ Visits

LEMMA PathsApart ==
  /\ \A b, c \in Ops : Replaced(b) = Replaced(c) => b = c
  /\ \A b, c \in Ops : Staging(b) = Staging(c) => b = c
  /\ \A b, c \in Ops : Staging(b) # Replaced(c)
  /\ \A b, c \in Ops : Rejected("prepare", b) # Rejected("inspect", c)
  /\ \A a \in Actors, b, c \in Ops :
       Rejected(a, b) \notin {Requested, Replaced(c), Staging(c)}
  /\ \A b \in Ops : Requested \notin {Replaced(b), Staging(b)}
  /\ \A p \in Names, a \in Actors, b \in Ops :
       p \notin {Replaced(b), Staging(b), Rejected(a, b)}
<1>1. \A b, c \in Ops : Rejected("prepare", b) # Rejected("inspect", c)
  BY DEF Rejected
<1>2. \A b, c \in Ops : (Replaced(b) = Replaced(c) => b = c)
                        /\ (Staging(b) = Staging(c) => b = c)
  BY DEF Replaced, Staging
<1> QED BY <1>1, <1>2, PathKinds

LEMMA RenamedMoves ==
  ASSUME TypeOK, NEW p \in Paths, NEW q \in Paths, CanRename(p, q), Rename(p, q)
  PROVE  Moves(p, q)
BY RenameMoves DEF Moves, CanRename, OthersStay

LEMMA RemovedTakes ==
  ASSUME TypeOK, NEW p \in Paths, RemovePath(p)
  PROVE  Takes(p)
BY RemoveTakes DEF Takes, OthersStay

\* Where a subroutine goes.
LEMMA GotoLeaves ==
  ASSUME TypeOK, NEW a \in Actors, NEW place, Goto(a, place)
  PROVE  /\ act'[a].pc = place
         /\ place # "idle" =>
              /\ act'[a].op = act[a].op /\ act'[a].inst = act[a].inst
              /\ act'[a].name = act[a].name /\ act'[a].backup = act[a].backup
              /\ act'[a].swapped = act[a].swapped
         /\ \A c \in Actors \ {a} : act'[c] = act[c]
<1>1. act[a] \in Memory /\ act \in [Actors -> Memory]
  BY DEF TypeOK
<1>2. CASE place = "idle"
  BY <1>1, <1>2 DEF Goto, AtRest
<1>3. CASE place # "idle"
  <2>1. act' = [act EXCEPT ![a] = [act[a] EXCEPT !.pc = place]]
    BY <1>1, <1>3 DEF Goto
  <2> QED BY <1>1, <1>3, <2>1 DEF Memory
<1> QED BY <1>2, <1>3

LEMMA UndoingEffect ==
  ASSUME Structure, NEW a \in {"prepare", "inspect"}, RollbackReplacement(a), ~intruded'
  PROVE  Effect
<1> DEFINE b == act[a].backup
<1>1. TypeOK /\ a \in Actors /\ act[a].fault \in {"idle", "clear"}
  BY DEF Structure, Course, PrepareOK, InspectOK, P, Actors
<1>2. act[a].pc \in HasBackup =>
        /\ Requested \in Paths /\ Replaced(b) \in Paths /\ Rejected(a, b) \in Paths
  BY <1>1, PathsOfActors, PathKinds DEF HasBackup, Structure
<1>3. CASE Recover(a)
  BY <1>3 DEF Recover, Effect
<1>4. CASE Reject(a)
  <2>1. CASE CanRename(Requested, Rejected(a, b)) /\ Rename(Requested, Rejected(a, b))
             /\ Goto(a, "restore") /\ ~Intrudes(a)
    <3>1. Rejects(a)
      BY <1>1, <1>2, <1>4, <2>1, RenamedMoves, GotoLeaves DEF Reject, Rejects, At, HasBackup
    <3> QED BY <3>1 DEF Effect
  <2> QED BY <1>4, <2>1 DEF Reject, Effect
<1>5. CASE Restore(a)
  <2>1. act[a].pc = "restore" /\ act'[a].pc # "restore"
    BY <1>1, <1>5, GotoLeaves DEF Restore, At
  <2>2. ASSUME NEW p \in {Replaced(b), Rejected(a, b)}, CanRename(p, Requested),
               Rename(p, Requested)
        PROVE  Effect
    <3>1. Moves(p, Requested)
      BY <1>1, <1>2, <2>1, <2>2, RenamedMoves DEF HasBackup
    <3>2. Restores(a)
      BY <2>1, <2>2, <3>1 DEF Restores, At
    <3> QED BY <3>2 DEF Effect
  <2> QED BY <1>5, <2>2 DEF Restore, TryRename, Effect
<1>6. CASE Drop(a)
  <2>1. CASE RemovePath(Rejected(a, b))
    <3>1. Drops(a)
      BY <1>1, <1>2, <1>6, <2>1, RemovedTakes DEF Drop, Drops, At, HasBackup
    <3> QED BY <3>1 DEF Effect
  <2> QED BY <1>6, <2>1 DEF Drop, Effect
<1> QED BY <1>3, <1>4, <1>5, <1>6 DEF RollbackReplacement

LEMMA CommittingEffect ==
  ASSUME Structure, NEW a \in {"prepare", "cleanup"}, Commit(a) \/ Unmark(a) \/ Discard(a)
  PROVE  Effect
<1>1. TypeOK /\ a \in Actors /\ Destination(a) \in Paths
  BY PathsOfActors, PathKinds DEF Structure, Course, Actors
<1>2. CASE Commit(a)
  BY <1>2 DEF Commit, Effect
<1>3. CASE Unmark(a)
  <2> DEFINE p == Destination(a)
  <2>1. CASE HasReplacementMarker(p) /\ fs' = [fs EXCEPT ![p] = [fs[p] EXCEPT !.replaces = 0]]
    <3>1. fs[p] \in Directories
      BY <1>1, <2>1 DEF HasReplacementMarker, Exists, TypeOK
    <3>2. [fs[p] EXCEPT !.replaces = 0] \in Directories
      BY <3>1 DEF Directories
    <3>3. fs'[p] # Nothing
      BY <1>1, <2>1, <3>2, NothingIsNoDirectory DEF TypeOK
    <3>4. Unmarks(a)
      BY <1>1, <1>3, <2>1, <3>1, <3>3 DEF Unmark, Unmarks, OthersStay, TypeOK, Directories
    <3> QED BY <3>4 DEF Effect
  <2> QED BY <1>3, <2>1 DEF Unmark, Effect
<1>4. CASE Discard(a)
  <2>1. CASE RemovePath(Replaced(act[a].backup))
    <3>1. Replaced(act[a].backup) \in Paths
      BY <1>1, <1>4, PathsOfActors, PathKinds DEF Discard, At, Structure
    <3>2. act'[a].pc # "discard"
      BY <1>1, <1>4, GotoLeaves DEF Discard, AfterCommit
    <3>3. Discards(a)
      BY <1>1, <1>4, <2>1, <3>1, <3>2, RemovedTakes DEF Discard, Discards
    <3> QED BY <3>3 DEF Effect
  <2> QED BY <1>4, <2>1 DEF Discard, Effect
<1> QED BY <1>2, <1>3, <1>4

LEMMA PrepareEffect ==
  ASSUME Structure, PrepareStep, ~intruded'
  PROVE  Effect
<1> USE DEF P, At
<1>1. /\ TypeOK /\ PrepareOK /\ Contents /\ "prepare" \in Actors
      /\ \A p \in Paths : Exists(p) => fs[p] \in Directories
  BY DEF Structure, Course, Actors, TypeOK, Exists
<1>2. ASSUME P.pc # "idle"
      PROVE  /\ P.op \in Ops /\ P.inst \in Installations
             /\ Staging(P.op) \in Paths /\ Replaced(P.op) \in Paths
             /\ Requested \in Paths /\ Destination("prepare") \in Paths
             /\ Staging(P.op) # Replaced(P.op) /\ Staging(P.op) # Requested
             /\ Staging(P.op)[1] = "stage"
  BY <1>1, <1>2, PathsOfActors, PathKinds DEF PrepareOK, Structure
\* What is in the staging folder is the installation's.
<1>3. ASSUME P.pc # "idle", Exists(Staging(P.op))
      PROVE  fs[Staging(P.op)].of \in Installations
  <2>1. Fits(Staging(P.op), fs[Staging(P.op)])
    BY <1>1, <1>2, <1>3 DEF Contents
  <2> QED BY <1>2, <1>3, <2>1, PathKinds DEF Fits
<1>4. ASSUME P.pc # "idle", NEW dir, fs' = [fs EXCEPT ![Staging(P.op)] = dir],
             \/ dir = Nothing
             \/ dir.of \in Installations /\ dir.replaces = 0
             \/ /\ Exists(Staging(P.op)) /\ dir.replaces = fs[Staging(P.op)].replaces
                /\ dir.of = fs[Staging(P.op)].of
      PROVE  Effect
  <2>1. fs'[Staging(P.op)] = dir /\ OthersStay({Staging(P.op)})
    BY <1>1, <1>2, <1>4 DEF OthersStay, TypeOK
  <2>2. dir = Nothing \/ dir.of \in Installations
    BY <1>3, <1>4
  <2>3. Stages(P.op)
    BY <1>2, <1>4, <2>1, <2>2 DEF Stages
  <2> QED BY <1>2, <1>4, <2>3 DEF Effect
<1>5. CASE RollbackReplacement("prepare")
  BY <1>5, UndoingEffect
<1>6. CASE Preview \/ Select \/ Activate \/ Activated \/ SavePrepared \/ DeleteSources
  BY <1>6 DEF Preview, Select, Activate, Activated, SavePrepared, DeleteSources, Effect
<1>7. CASE CreateStaging
  <2>1. P.pc # "idle"
    BY <1>7 DEF CreateStaging
  <2>2. ASSUME NEW b \in BOOLEAN,
               fs' = [fs EXCEPT ![Staging(P.op)] =
                        [of |-> P.inst, whole |-> FALSE, tree |-> P.op, staging |-> b,
                         installation |-> FALSE, replaces |-> 0]]
        PROVE  Effect
    BY <1>2, <1>4, <2>1, <2>2
  <2> QED BY <1>7, <2>2 DEF CreateStaging, Effect
<1>8. CASE Unpack
  <2> DEFINE p   == Staging(P.op)
             dir == [fs[p] EXCEPT !.whole = TRUE, !.staging = FALSE]
  <2>1. P.pc # "idle" /\ p \in Paths
    BY <1>2, <1>8 DEF Unpack
  <2>2. CASE Exists(p) /\ fs' = [fs EXCEPT ![p] = dir]
    <3>1. dir.of = fs[p].of /\ dir.replaces = fs[p].replaces
      BY <1>1, <2>1, <2>2 DEF Directories
    <3> HIDE DEF dir
    <3> QED BY <1>4, <2>1, <2>2, <3>1
  <2> QED BY <1>8, <2>2 DEF Unpack, Effect
<1>9. CASE WriteMarker
  <2> DEFINE p   == Staging(P.op)
             dir == [fs[p] EXCEPT !.installation = TRUE]
  <2>1. P.pc # "idle" /\ p \in Paths
    BY <1>2, <1>9 DEF WriteMarker
  <2>2. CASE Exists(p) /\ fs' = [fs EXCEPT ![p] = dir]
    <3>1. dir.of = fs[p].of /\ dir.replaces = fs[p].replaces
      BY <1>1, <2>1, <2>2 DEF Directories
    <3> HIDE DEF dir
    <3> QED BY <1>4, <2>1, <2>2, <3>1
  <2> QED BY <1>9, <2>2 DEF WriteMarker, Effect
<1>10. CASE Replace
  <2>1. CASE MayReplace /\ CanRename(Requested, Replaced(P.op))
             /\ Rename(Requested, Replaced(P.op))
    <3>1. Replaces
      BY <1>1, <1>2, <1>10, <2>1, RenamedMoves DEF Replace, Replaces
    <3> QED BY <3>1 DEF Effect
  <2> QED BY <1>10, <2>1 DEF Replace, Effect
<1>11. CASE WriteReplacementMarker
  <2> DEFINE p   == Staging(P.op)
             dir == [fs[p] EXCEPT !.replaces = P.op]
  <2>1. P.pc # "idle"
    BY <1>11 DEF WriteReplacementMarker
  <2>2. CASE Exists(p) /\ fs' = [fs EXCEPT ![p] = dir]
    <3>1. fs[p] \in Directories
      BY <1>1, <1>2, <2>1, <2>2
    <3>2. dir \in Directories /\ dir.of = fs[p].of /\ dir.replaces = P.op
      BY <1>2, <2>1, <3>1 DEF Directories
    <3>3. fs'[p] # Nothing /\ fs'[p].of = fs[p].of /\ fs'[p].replaces = P.op
      BY <1>1, <1>2, <2>1, <2>2, <3>2, NothingIsNoDirectory DEF TypeOK
    <3>4. OthersStay({p})
      BY <1>1, <2>2 DEF OthersStay, TypeOK
    <3>5. Marks
      BY <1>11, <2>2, <3>3, <3>4 DEF WriteReplacementMarker, Marks
    <3> QED BY <3>5 DEF Effect
  <2>3. CASE CanRename(Replaced(P.op), Requested) /\ Rename(Replaced(P.op), Requested)
             /\ Goto("prepare", "clear")
    <3>1. Moves(Replaced(P.op), Requested)
      BY <1>1, <1>2, <2>1, <2>3, RenamedMoves
    <3>2. P'.pc = "clear"
      BY <1>1, <2>3, GotoLeaves
    <3>3. Undoes
      BY <1>2, <1>11, <2>1, <3>1, <3>2
         DEF WriteReplacementMarker, Undoes, Moves, OthersStay
    <3> QED BY <3>3 DEF Effect
  <2> QED BY <1>11, <2>2, <2>3 DEF WriteReplacementMarker, TryRename, Effect
<1>12. CASE RenameIntoPlace
  <2>1. CASE MayActivate(Destination("prepare"))
             /\ Rename(Staging(P.op), Destination("prepare"))
    <3>1. Activates
      BY <1>1, <1>2, <1>12, <2>1, RenamedMoves DEF RenameIntoPlace, Activates, MayActivate
    <3> QED BY <3>1 DEF Effect
  <2> QED BY <1>12, <2>1 DEF RenameIntoPlace, Effect
<1>13. CASE Undo
  <2> DEFINE p   == Staging(P.op)
             q   == Replaced(P.op)
             dir == [fs[p] EXCEPT !.replaces = 0]
             unmarked == IF Exists(p) THEN [fs EXCEPT ![p] = dir] ELSE fs
  <2>1. P.pc # "idle" /\ P'.pc = "clear"
    BY <1>1, <1>13, GotoLeaves DEF Undo
  <2>2. ASSUME Exists(p)
        PROVE  dir # Nothing /\ dir.of = fs[p].of /\ dir.replaces = 0
    <3>1. fs[p] \in Directories
      BY <1>1, <1>2, <2>1, <2>2
    <3>2. dir \in Directories /\ dir.of = fs[p].of /\ dir.replaces = 0
      BY <3>1 DEF Directories
    <3> QED BY <3>2, NothingIsNoDirectory
  <2> HIDE DEF dir
  <2>3. unmarked \in [Paths -> Directories \cup {Nothing} \cup {dir}]
    BY <1>1, <1>2, <2>1 DEF TypeOK
  <2>4. /\ \A r \in Paths \ {p} : unmarked[r] = fs[r]
        /\ unmarked[p] = IF Exists(p) THEN dir ELSE fs[p]
    BY <1>1, <1>2, <2>1 DEF TypeOK
  <2>5. CASE fs' = unmarked
    BY <1>3, <1>4, <2>1, <2>2, <2>5 DEF Effect
  <2> HIDE DEF unmarked
  <2>6. CASE CanRename(q, Requested)
             /\ fs' = [unmarked EXCEPT ![q] = Nothing, ![Requested] = fs[q]]
    <3>1. /\ fs'[q] = Nothing /\ fs'[Requested] = fs[q] /\ fs'[p] = unmarked[p]
          /\ \A r \in Paths \ {p, q, Requested} : fs'[r] = fs[r]
      BY <1>2, <2>1, <2>3, <2>4, <2>6, PathsApart
    <3>2. Undoes
      BY <1>13, <2>1, <2>2, <2>4, <2>6, <3>1 DEF Undo, Undoes, CanRename, OthersStay
    <3> QED BY <3>2 DEF Effect
  <2> QED BY <1>13, <2>5, <2>6 DEF Undo, unmarked, dir, Effect
<1>14. CASE Clear
  <2>1. P.pc # "idle"
    BY <1>14 DEF Clear
  <2> QED BY <1>4, <1>14, <2>1 DEF Clear, RemovePath, Effect
<1>15. CASE Rollback
  <2>1. CASE RemovePath(Destination("prepare")) /\ Goto("prepare", "idle")
    <3>1. RollsBack
      BY <1>1, <1>2, <1>15, <2>1, RemovedTakes, GotoLeaves DEF Rollback, RollsBack
    <3> QED BY <3>1 DEF Effect
  <2> QED BY <1>15, <2>1 DEF Rollback, Effect
<1>16. CASE Commit("prepare") \/ Unmark("prepare") \/ Discard("prepare")
  BY <1>16, CommittingEffect
<1> QED
  BY <1>5, <1>6, <1>7, <1>8, <1>9, <1>10, <1>11, <1>12, <1>13, <1>14, <1>15, <1>16
     DEF PrepareStep

LEMMA EffectOfStep ==
  ASSUME Structure, [Next]_vars, ~intruded'
  PROVE  Effect
<1>1. CASE PrepareStep
  BY <1>1, PrepareEffect
<1>2. CASE RollbackReplacement("inspect")
  BY <1>2, UndoingEffect
<1>3. CASE CleanupStep
  <2>1. CASE DeleteStaging
    <3> DEFINE op == act["cleanup"].op
    <3>1. op \in Ops /\ Staging(op) \in Paths
      BY <2>1, PathKinds DEF DeleteStaging, At, Structure, Course, CleanupOK
    <3>2. CASE RemovePath(Staging(op))
      <4>1. Stages(op)
        BY <3>1, <3>2, RemoveTakes DEF Stages, OthersStay, Structure, Course
      <4> QED BY <3>1, <4>1 DEF Effect
    <3> QED BY <2>1, <3>2 DEF DeleteStaging, Effect
  <2>2. CASE DeleteEntry
    <3> DEFINE op == act["cleanup"].op
    <3>1. PICK p \in Paths :
            /\ Exists(p)
            /\ \E remnant \in Remnants(fs[p]) : fs' = [fs EXCEPT ![p] = remnant]
            /\ intruded' = (intruded \/ Tears(p))
      BY <2>2 DEF DeleteEntry
    <3>2. PICK remnant \in Remnants(fs[p]) : fs' = [fs EXCEPT ![p] = remnant]
      BY <3>1
    <3>3. p = Staging(op) /\ op \in Ops /\ Contents /\ TypeOK
      BY <2>2, <3>1 DEF Tears, DeleteEntry, At, Structure, Course, CleanupOK
    <3>4. /\ remnant.of = fs[p].of /\ remnant # Nothing
          /\ remnant.replaces \in {0, fs[p].replaces}
      BY <3>1, <3>3, RemnantsAreLess DEF Exists, TypeOK
    <3>5. fs[p].of \in Installations
      BY <3>1, <3>3, PathKinds DEF Contents, Fits
    <3>6. fs'[p] = remnant /\ OthersStay({p})
      BY <3>2, <3>3 DEF OthersStay, TypeOK
    <3>7. Stages(op)
      BY <3>1, <3>3, <3>4, <3>5, <3>6 DEF Stages
    <3> QED BY <3>3, <3>7 DEF Effect
  <2> QED BY <1>3, <2>1, <2>2, CommittingEffect DEF CleanupStep, List, Sweep, Effect
<1>4. CASE Visit
  <2>1. Visits
    BY <1>4, PathKinds DEF Visit, Visits, OthersStay, Structure, Course, TypeOK
  <2> QED BY <2>1 DEF Effect
<1> QED
  BY <1>1, <1>2, <1>3, <1>4
     DEF Next, Start, InspectDestination, StartCleanup, Crash, vars, Effect

-----------------------------------------------------------------------------
(* What follows for markers, backups and recorded installations.            *)

\* The paths an actor's step works on.
LEMMA PathsOfEffects ==
  ASSUME Structure
  PROVE  /\ Requested \in Paths /\ Requested \in Names
         /\ Destination("prepare") \in Names /\ Destination("cleanup") \in Names
         /\ \A p \in Names : p \in Paths /\ p[1] = "name" /\ ~IsRejected(p)
         /\ \A op \in Ops :
              /\ Staging(op) \in Paths /\ Replaced(op) \in Paths
              /\ Staging(op)[1] = "stage" /\ Replaced(op)[1] = "replaced"
              /\ ~IsRejected(Staging(op)) /\ ~IsRejected(Replaced(op))
              /\ \A a \in Actors : Rejected(a, op) \in Paths /\ IsRejected(Rejected(a, op))
         /\ \A a \in Actors : act[a].pc \in HasBackup => act[a].backup \in Ops
         /\ P.pc # "idle" => P.op \in Ops
         /\ Actors = {"prepare", "inspect", "cleanup"}
BY PathKinds, PathsOfActors DEF HasBackup, Actors, Structure

\* Every marker was written by a step at its place, or was there before.
LEMMA MarkersComeFrom ==
  ASSUME Structure, Effect, NEW p \in Paths, Exists(p)', fs'[p].replaces # 0
  PROVE  \/ \E q \in Paths : Exists(q) /\ fs[q].replaces = fs'[p].replaces
                             /\ fs[q].of = fs'[p].of
         \/ At("prepare", "swap") /\ fs'[p].replaces = P.op
<1> USE PathsOfEffects DEF HasBackup, Exists, P
<1>1. CASE \E a \in {"prepare", "inspect"} : Rejects(a) \/ Restores(a) \/ Drops(a)
  BY <1>1 DEF Rejects, Restores, Drops, Moves, Takes, OthersStay, At
<1>2. CASE \E a \in {"prepare", "cleanup"} : Unmarks(a) \/ Discards(a)
  BY <1>2 DEF Unmarks, Discards, Takes, OthersStay, At
<1>3. CASE \E op \in Ops : Stages(op)
  BY <1>3 DEF Stages, OthersStay
<1>4. CASE Marks \/ Replaces \/ Undoes
  BY <1>4 DEF Marks, Replaces, Undoes, Moves, OthersStay, At
<1>5. CASE Activates \/ RollsBack
  BY <1>5 DEF Activates, RollsBack, Moves, Takes, OthersStay, At
<1>6. CASE Visits
  BY <1>6 DEF Visits, OthersStay, Folder
<1> QED BY <1>1, <1>2, <1>3, <1>4, <1>5, <1>6 DEF Effect

\* A backup appears only by the preparation's replacement.
LEMMA BackupsAppear ==
  ASSUME Structure, Effect, NEW b \in Ops
  PROVE  \/ fs'[Replaced(b)] \in {fs[Replaced(b)], Nothing}
         \/ At("prepare", "replace") /\ b = P.op
<1> USE PathsOfEffects, PathsApart DEF HasBackup, P
<1>1. CASE \E a \in {"prepare", "inspect"} : Rejects(a) \/ Restores(a) \/ Drops(a)
  BY <1>1 DEF Rejects, Restores, Drops, Moves, Takes, OthersStay, At
<1>2. CASE \E a \in {"prepare", "cleanup"} : Unmarks(a) \/ Discards(a)
  BY <1>2 DEF Unmarks, Discards, Takes, OthersStay, At
<1>3. CASE \E op \in Ops : Stages(op)
  BY <1>3 DEF Stages, OthersStay
<1>4. CASE Marks \/ Replaces \/ Undoes
  BY <1>4 DEF Marks, Replaces, Undoes, Moves, OthersStay, At
<1>5. CASE Activates \/ RollsBack
  BY <1>5 DEF Activates, RollsBack, Moves, Takes, OthersStay, At
<1>6. CASE Visits
  BY <1>6 DEF Visits, OthersStay
<1> QED BY <1>1, <1>2, <1>3, <1>4, <1>5, <1>6 DEF Effect

\* A backup goes by a restoration, by a commit, or when the preparation
\* takes its replacement back.
LEMMA BackupsGo ==
  ASSUME Structure, Effect, NEW b \in Ops, Exists(Replaced(b))
  PROVE  \/ fs'[Replaced(b)] = fs[Replaced(b)]
         \/ \E a \in {"prepare", "inspect"} :
              /\ act[a].pc = "restore" /\ act'[a].pc # "restore" /\ act[a].backup = b
              /\ Moves(Replaced(b), Requested)
         \/ \E a \in {"prepare", "cleanup"} :
              act[a].pc = "discard" /\ act'[a].pc # "discard" /\ act[a].backup = b
                /\ Takes(Replaced(b))
         \/ b = P.op /\ Undoes
<1> USE PathsOfEffects, PathsApart DEF HasBackup, P
<1>1. ASSUME NEW a \in {"prepare", "inspect"}, Rejects(a) \/ Drops(a)
      PROVE  fs'[Replaced(b)] = fs[Replaced(b)]
  BY <1>1 DEF Rejects, Drops, Moves, Takes, OthersStay, At
<1>2. ASSUME NEW a \in {"prepare", "inspect"}, Restores(a)
      PROVE  \/ fs'[Replaced(b)] = fs[Replaced(b)]
             \/ /\ act[a].pc = "restore" /\ act'[a].pc # "restore" /\ act[a].backup = b
                /\ Moves(Replaced(b), Requested)
  <2>1. act[a].pc = "restore" /\ act'[a].pc # "restore" /\ act[a].backup \in Ops
    BY <1>2 DEF Restores, At
  <2>2. CASE Moves(Rejected(a, act[a].backup), Requested)
    BY <2>1, <2>2 DEF Moves, OthersStay
  <2>3. CASE Moves(Replaced(act[a].backup), Requested) /\ act[a].backup # b
    BY <2>1, <2>3 DEF Moves, OthersStay
  <2> QED BY <1>2, <2>1, <2>2, <2>3 DEF Restores
<1>3. ASSUME NEW a \in {"prepare", "cleanup"}, Unmarks(a) \/ Discards(a)
      PROVE  \/ fs'[Replaced(b)] = fs[Replaced(b)]
             \/ act[a].pc = "discard" /\ act'[a].pc # "discard" /\ act[a].backup = b
                  /\ Takes(Replaced(b))
  <2>1. CASE Unmarks(a)
    BY <2>1 DEF Unmarks, OthersStay
  <2>2. CASE Discards(a) /\ act[a].backup # b
    BY <2>2 DEF Discards, Takes, OthersStay, At
  <2> QED BY <1>3, <2>1, <2>2 DEF Discards, At
<1>4. CASE \E op \in Ops : Stages(op)
  BY <1>4 DEF Stages, OthersStay
<1>5. CASE Marks \/ Replaces \/ Undoes
  BY <1>5 DEF Marks, Replaces, Undoes, Moves, OthersStay, At
<1>6. CASE Activates \/ RollsBack
  BY <1>6 DEF Activates, RollsBack, Moves, Takes, OthersStay, At
<1>7. CASE Visits
  BY <1>7 DEF Visits, OthersStay
<1> QED BY <1>1, <1>2, <1>3, <1>4, <1>5, <1>6, <1>7 DEF Effect

\* A recorded installation keeps its place and its files.
KeepsPlace(p) ==
  /\ fs'[p] # Nothing
  /\ fs'[p].of = fs[p].of /\ fs'[p].whole = fs[p].whole
  /\ fs'[p].installation = fs[p].installation
  /\ fs'[p].replaces \in {fs[p].replaces, 0}

LEMMA RecordedStay ==
  ASSUME Structure, Promises, Effect, NEW i \in Installations, row[i] # 0
  PROVE  KeepsPlace(<<"name", row[i]>>)
<1> DEFINE n == <<"name", row[i]>>
<1> USE PathsOfEffects, PathsApart DEF HasBackup, Exists, P
<1>1. /\ n \in Names /\ n \in Paths /\ Exists(n) /\ fs[n].of = i /\ fs[n].installation
      /\ fs[n] \in Directories
  <2>1. row[i] \in 1 .. LastName
    BY ConstantsAssumption DEF Structure, Course, TypeOK
  <2>2. n \in Names /\ n \in Paths
    BY <2>1 DEF Names
  <2> QED BY <2>2 DEF Promises, RecordedAreInPlace, Holds, Structure, Course, TypeOK
<1>2. CASE fs'[n] = fs[n]
  BY <1>1, <1>2 DEF KeepsPlace
<1>3. ASSUME NEW a \in {"prepare", "inspect"}, Rejects(a)
      PROVE  fs'[n] = fs[n]
  <2>1. n # Requested
    <3>1. SUFFICES ASSUME n = Requested PROVE FALSE
      OBVIOUS
    <3>2. act[a].pc = "reject" /\ ~Intrudes(a) /\ fs[n].replaces = act[a].backup
      BY <1>3, <3>1 DEF Rejects, Intrudes, At
    <3>3. fs[n].of = act[a].inst
      BY <1>1, <3>2 DEF Promises, UndoesItsOwn
    <3>4. CASE a = "inspect"
      BY <1>1, <3>2, <3>3, <3>4 DEF Intrudes
    <3>5. CASE a = "prepare"
      BY <1>1, <3>2, <3>3, <3>5 DEF Structure, Course, PrepareOK, P, Unrecorded, Undoing
    <3> QED BY <3>4, <3>5
  <2> QED BY <1>1, <1>3, <2>1 DEF Rejects, Moves, OthersStay, At
<1>4. CASE \E a \in {"prepare", "inspect"} : Restores(a) \/ Drops(a)
  BY <1>1, <1>2, <1>4 DEF Restores, Drops, Moves, Takes, OthersStay, At
<1>5. CASE \E a \in {"prepare", "cleanup"} : Unmarks(a) \/ Discards(a)
  BY <1>1, <1>2, <1>5 DEF Unmarks, Discards, Takes, OthersStay, At, KeepsPlace
<1>6. CASE (\E op \in Ops : Stages(op)) \/ Marks
  BY <1>1, <1>2, <1>6 DEF Stages, Marks, OthersStay, At
<1>7. CASE Replaces
  <2>1. n # Requested
    BY <1>1, <1>7, ConstantsAssumption
       DEF Replaces, MayReplace, HasInstallationMarker, UserContents
  <2> QED BY <1>1, <1>2, <1>7, <2>1 DEF Replaces, Moves, OthersStay, At
<1>8. CASE Undoes \/ Activates \/ Visits
  BY <1>1, <1>2, <1>8 DEF Undoes, Activates, Visits, Moves, OthersStay, At
<1>9. CASE RollsBack
  <2>1. fs[Destination("prepare")].of = P.inst /\ row[P.inst] = 0
    BY <1>9 DEF RollsBack, At, P, Promises, ActivatedInPlace, After, Structure, Course,
                PrepareOK, Unrecorded
  <2> QED BY <1>1, <1>2, <1>9, <2>1 DEF RollsBack, Takes, OthersStay
<1> QED
  BY <1>2, <1>3, <1>4, <1>5, <1>6, <1>7, <1>8, <1>9 DEF Effect

-----------------------------------------------------------------------------
(* How an actor comes to a place.                                           *)

Arrives(a) ==
  LET b == act'[a].backup IN
  /\ act'[a].pc = "reject" =>
       /\ fs' = fs
       /\ \E p \in Names : /\ HasReplacementMarker(p) /\ fs[p].replaces = b
                           /\ fs[p].of = act'[a].inst
  /\ act'[a].pc = "restore" => Rejects(a) /\ b = act[a].backup
  /\ act'[a].pc = "unmark" =>
       /\ At(a, "commit") /\ fs' = fs /\ given' = given
       /\ HasReplacementMarker(Destination(a)) /\ b = fs[Destination(a)].replaces
       /\ act'[a].name = act[a].name
  /\ act'[a].pc = "discard" => Unmarks(a) /\ b = act[a].backup /\ given' = given

LEMMA UndoingArrives ==
  ASSUME Structure, NEW a \in {"prepare", "inspect"}, RollbackReplacement(a), ~intruded'
  PROVE  Arrives(a)
<1> USE DEF At
<1>1. /\ TypeOK /\ a \in Actors /\ act[a] \in Memory /\ act \in [Actors -> Memory]
      /\ act[a].fault \in {"idle", "clear"}
      /\ act[a].back \in {"preview", "select", "replace", "idle"}
  BY DEF Structure, Course, PrepareOK, InspectOK, P, Actors, TypeOK
<1>2. act[a].pc \in {"recover", "reject", "restore", "drop"}
  BY DEF RollbackReplacement, Recover, Reject, Restore, Drop
<1>3. act'[a].pc \notin {"unmark", "discard"}
  BY <1>1, GotoLeaves DEF RollbackReplacement, Recover, Reject, Restore, Drop, Memory
<1>4. ASSUME act'[a].pc = "restore"
      PROVE  Rejects(a) /\ act'[a].backup = act[a].backup
  <2>1. /\ Reject(a) /\ CanRename(Requested, Rejected(a, act[a].backup))
        /\ Rename(Requested, Rejected(a, act[a].backup)) /\ Goto(a, "restore")
        /\ ~Intrudes(a)
    <3>1. CASE Recover(a)
      <4>1. ASSUME NEW b, act' = [act EXCEPT ![a].pc = "reject", ![a].backup = b]
            PROVE  act'[a].pc = "reject"
        <5>1. act' = [act EXCEPT ![a] = [act[a] EXCEPT !.pc = "reject", !.backup = b]]
          BY <1>1, <4>1
        <5> QED BY <1>1, <5>1 DEF Memory
      <4> QED BY <1>1, <1>4, <3>1, <4>1, GotoLeaves DEF Recover
    <3>2. CASE Restore(a) \/ Drop(a)
      BY <1>1, <1>4, <3>2, GotoLeaves DEF Restore, Drop
    <3>3. CASE Reject(a)
      BY <1>1, <1>4, <3>3, GotoLeaves DEF Reject
    <3> QED BY <3>1, <3>2, <3>3 DEF RollbackReplacement
  <2>2. Requested \in Paths /\ Rejected(a, act[a].backup) \in Paths
    BY <1>1, <2>1, PathsOfEffects DEF Reject, HasBackup
  <2> QED
    BY <1>1, <1>4, <2>1, <2>2, GotoLeaves, RenamedMoves DEF Reject, Rejects
<1>5. ASSUME act'[a].pc = "reject"
      PROVE  /\ fs' = fs /\ HasReplacementMarker(Requested) /\ Requested \in Names
             /\ fs[Requested].replaces = act'[a].backup
             /\ fs[Requested].of = act'[a].inst
  <2>1. Recover(a) /\ HasReplacementMarker(Requested) /\ MayUndo(fs[Requested], act[a].inst)
        /\ act' = [act EXCEPT ![a].pc = "reject", ![a].backup = fs[Requested].replaces]
    BY <1>1, <1>5, GotoLeaves DEF RollbackReplacement, Recover, Reject, Restore, Drop
  <2>2. act' = [act EXCEPT ![a] = [act[a] EXCEPT !.pc = "reject",
                                                 !.backup = fs[Requested].replaces]]
    BY <1>1, <2>1
  <2> QED BY <1>1, <2>1, <2>2, PathsOfEffects DEF Recover, MayUndo, Memory
<1> QED BY <1>3, <1>4, <1>5 DEF Arrives

LEMMA CommittingArrives ==
  ASSUME Structure, NEW a \in {"prepare", "cleanup"}, Commit(a) \/ Unmark(a) \/ Discard(a)
  PROVE  Arrives(a)
<1> USE DEF At
<1>1. /\ TypeOK /\ a \in Actors /\ act[a] \in Memory /\ act \in [Actors -> Memory]
      /\ Destination(a) \in Paths
  BY PathsOfEffects DEF Structure, Course, TypeOK, Actors
<1>2. CASE Commit(a)
  <2>1. CASE act' = [act EXCEPT ![a].pc = "unmark",
                                ![a].backup = fs[Destination(a)].replaces]
             /\ HasReplacementMarker(Destination(a))
    <3>1. act' = [act EXCEPT ![a] = [act[a] EXCEPT !.pc = "unmark",
                                                   !.backup = fs[Destination(a)].replaces]]
      BY <1>1, <2>1
    <3>2. /\ act'[a].pc = "unmark" /\ act'[a].backup = fs[Destination(a)].replaces
          /\ act'[a].name = act[a].name
      BY <1>1, <3>1 DEF Memory
    <3> QED BY <1>2, <2>1, <3>2 DEF Commit, Arrives, Records
  <2>2. CASE Goto(a, AfterCommit(a))
    BY <1>1, <2>2, GotoLeaves DEF Arrives, AfterCommit
  <2>3. CASE Goto(a, "idle")
    BY <1>1, <2>3, GotoLeaves DEF Arrives
  <2> QED BY <1>2, <2>1, <2>2, <2>3 DEF Commit, MarkerFirst
<1>3. CASE Unmark(a)
  <2> DEFINE p == Destination(a)
  <2>1. CASE HasReplacementMarker(p) /\ fs' = [fs EXCEPT ![p] = [fs[p] EXCEPT !.replaces = 0]]
             /\ Goto(a, "discard")
    <3>1. fs[p] \in Directories
      BY <1>1, <2>1 DEF HasReplacementMarker, Exists, TypeOK
    <3>2. [fs[p] EXCEPT !.replaces = 0] \in Directories
      BY <3>1 DEF Directories
    <3>3. fs'[p] # Nothing
      BY <1>1, <2>1, <3>2, NothingIsNoDirectory DEF TypeOK
    <3>4. Unmarks(a)
      BY <1>1, <1>3, <2>1, <3>1, <3>3 DEF Unmark, Unmarks, OthersStay, TypeOK, Directories
    <3>5. act'[a].pc = "discard" /\ act'[a].backup = act[a].backup
      BY <1>1, <2>1, GotoLeaves
    <3> QED BY <1>3, <3>4, <3>5 DEF Unmark, Arrives, Records
  <2>2. CASE Goto(a, "idle")
    BY <1>1, <2>2, GotoLeaves DEF Arrives
  <2> QED BY <1>3, <2>1, <2>2 DEF Unmark
<1>4. CASE Discard(a)
  BY <1>1, <1>4, GotoLeaves DEF Discard, AfterCommit, Arrives
<1> QED BY <1>2, <1>3, <1>4

\* The preparation at its replacement and its activation.
ArrivesInPlace ==
  /\ P'.pc \in After =>
       /\ P'.op = P.op /\ P'.inst = P.inst /\ P'.swapped = P.swapped /\ P'.name = P.name
       /\ \/ Activates
          \/ fs' = fs /\ P.pc \in After
  /\ P'.pc = "swap" => Replaces /\ P'.op = P.op
  /\ P'.pc = "rename" /\ P'.swapped => Marks /\ P'.op = P.op

LEMMA PrepareArrives ==
  ASSUME Structure, ActivatedInPlace, PrepareStep, ~intruded'
  PROVE  /\ Arrives("prepare") /\ ArrivesInPlace
         /\ \A a \in Actors \ {"prepare"} : act'[a] = act[a]
<1> USE DEF P, At
<1>1. /\ TypeOK /\ PrepareOK /\ "prepare" \in Actors
      /\ P \in Memory /\ act \in [Actors -> Memory]
  BY DEF Structure, Course, Actors, TypeOK
<1>2. ASSUME P.pc # "idle"
      PROVE  /\ P.op \in Ops
             /\ Staging(P.op) \in Paths /\ Replaced(P.op) \in Paths
             /\ Requested \in Paths /\ Destination("prepare") \in Paths
  BY <1>2, PathsOfEffects
<1>3. \A a \in Actors \ {"prepare"} : act'[a] = act[a]
  BY PrepareStepMoves DEF PrepareMoves, Structure
<1>4. ASSUME NEW place, P'.pc = place,
             place \notin {"reject", "restore", "unmark", "discard", "swap", "rename",
                           "activated", "save", "rollback"}
      PROVE  Arrives("prepare") /\ ArrivesInPlace
  BY <1>4 DEF Arrives, ArrivesInPlace, After
<1>5. CASE RollbackReplacement("prepare")
  <2>1. P'.pc \notin {"swap", "rename", "activated", "save", "rollback"}
    BY <1>1, <1>5, GotoLeaves
       DEF RollbackReplacement, Recover, Reject, Restore, Drop, PrepareOK, Memory
  <2> QED BY <1>3, <1>5, <2>1, UndoingArrives DEF ArrivesInPlace, After
<1>6. CASE Preview
  <2>1. P'.pc = "recover"
    BY <1>1, <1>6 DEF Preview, Inspecting, Memory
  <2> QED BY <1>3, <1>4, <2>1
<1>7. CASE Select
  <2>1. P'.pc \in {"stage", "idle"}
    <3>1. ASSUME NEW n, act' = [act EXCEPT !["prepare"].name = n, !["prepare"].pc = "stage"]
          PROVE  P'.pc = "stage"
      <4>1. act' = [act EXCEPT !["prepare"] = [P EXCEPT !.name = n, !.pc = "stage"]]
        BY <1>1, <3>1
      <4> QED BY <1>1, <4>1 DEF Memory
    <3> QED BY <1>1, <1>7, <3>1, GotoLeaves DEF Select
  <2> QED BY <1>3, <1>4, <2>1
<1>8. CASE CreateStaging \/ Unpack \/ WriteMarker \/ Clear \/ Undo \/ DeleteSources
  <2>1. P'.pc \in {"unpack", "idle", "mark", "clear", "activate"}
    BY <1>1, <1>8, GotoLeaves
       DEF CreateStaging, Unpack, WriteMarker, Clear, Undo, DeleteSources
  <2> QED BY <1>3, <1>4, <2>1
<1>9. CASE Activate
  <2>1. ASSUME act' = [act EXCEPT !["prepare"] = Inspecting(P, "replace", "clear")]
        PROVE  P'.pc = "recover"
    BY <1>1, <2>1 DEF Inspecting, Memory
  <2>2. ASSUME Goto("prepare", "rename")
        PROVE  P'.pc = "rename" /\ ~P'.swapped
    <3>1. ~P.swapped
      BY <1>1, <1>9 DEF Activate, PrepareOK, Before
    <3> QED BY <1>1, <2>2, <3>1, GotoLeaves
  <2>3. ASSUME Goto("prepare", "clear")
        PROVE  P'.pc = "clear"
    BY <1>1, <2>3, GotoLeaves
  <2> QED
    BY <1>3, <1>4, <1>9, <2>1, <2>2, <2>3 DEF Activate, Arrives, ArrivesInPlace, After
<1>10. CASE Replace
  <2>1. CASE MayReplace /\ CanRename(Requested, Replaced(P.op))
             /\ Rename(Requested, Replaced(P.op)) /\ Goto("prepare", "swap")
    <3>1. Replaces
      BY <1>1, <1>2, <1>10, <2>1, RenamedMoves DEF Replace, Replaces
    <3>2. P'.pc = "swap" /\ P'.op = P.op
      BY <1>1, <2>1, GotoLeaves
    <3> QED BY <1>3, <3>1, <3>2 DEF Arrives, ArrivesInPlace, After
  <2>2. CASE Goto("prepare", "clear")
    BY <1>1, <1>3, <1>4, <2>2, GotoLeaves
  <2> QED BY <1>10, <2>1, <2>2 DEF Replace
<1>11. CASE WriteReplacementMarker
  <2> DEFINE p   == Staging(P.op)
             dir == [fs[p] EXCEPT !.replaces = P.op]
  <2>1. P.pc # "idle"
    BY <1>11 DEF WriteReplacementMarker
  <2>2. CASE /\ Exists(p) /\ fs' = [fs EXCEPT ![p] = dir]
             /\ act' = [act EXCEPT !["prepare"].pc = "rename",
                                   !["prepare"].swapped = TRUE]
    <3>1. fs[p] \in Directories
      BY <1>2, <2>1, <2>2 DEF Structure, Course, TypeOK, Exists
    <3>2. dir \in Directories /\ dir.of = fs[p].of /\ dir.replaces = P.op
      BY <1>2, <2>1, <3>1 DEF Directories
    <3>3. fs'[p] # Nothing /\ fs'[p].of = fs[p].of /\ fs'[p].replaces = P.op
      BY <1>1, <1>2, <2>1, <2>2, <3>2, NothingIsNoDirectory DEF TypeOK
    <3>4. Marks
      BY <1>1, <1>11, <2>2, <3>3 DEF WriteReplacementMarker, Marks, OthersStay, TypeOK
    <3>5. act' = [act EXCEPT !["prepare"] = [P EXCEPT !.pc = "rename", !.swapped = TRUE]]
      BY <1>1, <2>2
    <3>6. P'.pc = "rename" /\ P'.op = P.op
      BY <1>1, <3>5 DEF Memory
    <3> QED BY <1>3, <3>4, <3>6 DEF Arrives, ArrivesInPlace, After
  <2>3. CASE Goto("prepare", "clear")
    BY <1>1, <1>3, <1>4, <2>3, GotoLeaves
  <2> QED BY <1>11, <2>2, <2>3 DEF WriteReplacementMarker
<1>12. CASE RenameIntoPlace
  <2>1. CASE /\ MayActivate(Destination("prepare"))
             /\ Rename(Staging(P.op), Destination("prepare")) /\ Goto("prepare", "activated")
    <3>1. Activates
      BY <1>1, <1>2, <1>12, <2>1, RenamedMoves DEF RenameIntoPlace, Activates, MayActivate
    <3>2. /\ P'.pc = "activated" /\ P'.op = P.op /\ P'.inst = P.inst
          /\ P'.swapped = P.swapped /\ P'.name = P.name
      BY <1>1, <2>1, GotoLeaves
    <3> QED BY <1>3, <3>1, <3>2 DEF Arrives, ArrivesInPlace
  <2>2. ASSUME NEW n, act' = [act EXCEPT !["prepare"].name = n], P.policy = "KeepBoth"
        PROVE  P'.pc = "rename" /\ ~P'.swapped
    <3>1. act' = [act EXCEPT !["prepare"] = [P EXCEPT !.name = n]]
      BY <1>1, <2>2
    <3> QED BY <1>1, <1>12, <2>2, <3>1 DEF RenameIntoPlace, PrepareOK, Memory
  <2>3. CASE Goto("prepare", IF P.swapped THEN "undo" ELSE "clear")
    BY <1>1, <1>3, <1>4, <2>3, GotoLeaves
  <2> QED
    BY <1>3, <1>12, <2>1, <2>2, <2>3 DEF RenameIntoPlace, Arrives, ArrivesInPlace, After
<1>13. CASE Activated \/ SavePrepared
  <2>1. \/ P'.pc = "commit"
        \/ /\ P'.pc \in {"save", "rollback"} /\ P.pc \in After
           /\ P'.op = P.op /\ P'.inst = P.inst
           /\ P'.swapped = P.swapped /\ P'.name = P.name /\ fs' = fs
    BY <1>1, <1>13, GotoLeaves DEF Activated, SavePrepared, After
  <2> QED BY <1>3, <1>4, <2>1 DEF Arrives, ArrivesInPlace
<1>14. CASE Rollback
  <2> DEFINE p == Destination("prepare")
  <2>1. CASE /\ HasReplacementMarker(p) /\ fs' = fs
             /\ act' = [act EXCEPT !["prepare"].pc = "reject",
                                   !["prepare"].backup = fs[p].replaces,
                                   !["prepare"].back = "idle",
                                   !["prepare"].fault = "idle"]
    <3>1. act' = [act EXCEPT !["prepare"] =
                    [P EXCEPT !.pc = "reject", !.backup = fs[p].replaces,
                              !.back = "idle", !.fault = "idle"]]
      BY <1>1, <2>1
    <3>2. P'.pc = "reject" /\ P'.backup = fs[p].replaces /\ P'.inst = P.inst
      BY <1>1, <3>1 DEF Memory
    <3>3. fs[p].of = P.inst
      BY <1>14 DEF Rollback, ActivatedInPlace, After
    <3> QED BY <1>3, <2>1, <3>2, <3>3, PathsOfEffects DEF Arrives, ArrivesInPlace, After
  <2>2. CASE Goto("prepare", "idle")
    BY <1>1, <1>3, <1>4, <2>2, GotoLeaves
  <2> QED BY <1>14, <2>1, <2>2 DEF Rollback
<1>15. CASE Commit("prepare") \/ Unmark("prepare") \/ Discard("prepare")
  <2>1. P'.pc \in {"unmark", "sources", "discard", "idle"}
    <3>1. ASSUME NEW b, act' = [act EXCEPT !["prepare"].pc = "unmark",
                                           !["prepare"].backup = b]
          PROVE  P'.pc = "unmark"
      <4>1. act' = [act EXCEPT !["prepare"] = [P EXCEPT !.pc = "unmark", !.backup = b]]
        BY <1>1, <3>1
      <4> QED BY <1>1, <4>1 DEF Memory
    <3> QED
      BY <1>1, <1>15, <3>1, GotoLeaves
         DEF Commit, Unmark, Discard, AfterCommit, MarkerFirst
  <2> QED BY <1>3, <1>15, <2>1, CommittingArrives DEF ArrivesInPlace, After
<1> QED
  BY <1>5, <1>6, <1>7, <1>8, <1>9, <1>10, <1>11, <1>12, <1>13, <1>14, <1>15
     DEF PrepareStep

LEMMA StepArrives ==
  ASSUME Structure, ActivatedInPlace, [Next]_vars, ~intruded'
  PROVE  /\ \A a \in Actors : act'[a] = act[a] \/ Arrives(a)
         /\ P' = P \/ ArrivesInPlace
<1>1. /\ Actors = {"prepare", "inspect", "cleanup"} /\ act \in [Actors -> Memory]
      /\ TypeOK
  BY DEF Actors, Structure, Course, TypeOK
<1>2. CASE PrepareStep
  BY <1>1, <1>2, PrepareArrives
<1>3. CASE RollbackReplacement("inspect")
  <2>1. \A a \in Actors \ {"inspect"} : act'[a] = act[a]
    BY <1>3, InspectStepMoves DEF InspectMoves, Structure
  <2> QED BY <1>1, <1>3, <2>1, UndoingArrives DEF P
<1>4. CASE Commit("cleanup") \/ Unmark("cleanup") \/ Discard("cleanup")
  <2>1. \A a \in Actors \ {"cleanup"} : act'[a] = act[a]
    BY <1>4, CleanupStepMoves DEF CleanupMoves, CleanupStep, Structure
  <2> QED BY <1>1, <1>4, <2>1, CommittingArrives DEF P
<1>5. CASE StartCleanup \/ List \/ Sweep \/ DeleteStaging
  <2>1. \A a \in Actors \ {"cleanup"} : act'[a] = act[a]
    BY <1>5, CleanupStepMoves DEF CleanupMoves, CleanupStep, Structure
  <2>2. act'["cleanup"].pc \in {"idle", "list", "sweep", "commit", "delete"}
    <3> DEFINE C == act["cleanup"]
    <3>1. C \in Memory
      BY <1>1
    <3>2. ASSUME List PROVE act'["cleanup"].pc \in {"idle", "sweep"}
      BY <1>1, <3>1, <3>2, GotoLeaves DEF List, Memory
    <3>3. ASSUME NEW n, act' = [act EXCEPT !["cleanup"].pc = "commit", !["cleanup"].name = n,
                                           !["cleanup"].todo = C.todo \ {n}]
          PROVE  act'["cleanup"].pc = "commit"
      <4>1. act' = [act EXCEPT !["cleanup"] = [C EXCEPT !.pc = "commit", !.name = n,
                                                        !.todo = C.todo \ {n}]]
        BY <1>1, <3>3
      <4> QED BY <1>1, <3>1, <4>1 DEF Memory
    <3>4. ASSUME NEW op, act' = [act EXCEPT !["cleanup"].pc = "delete", !["cleanup"].op = op]
          PROVE  act'["cleanup"].pc = "delete"
      <4>1. act' = [act EXCEPT !["cleanup"] = [C EXCEPT !.pc = "delete", !.op = op]]
        BY <1>1, <3>4
      <4> QED BY <1>1, <3>1, <4>1 DEF Memory
    <3> QED
      BY <1>1, <1>5, <3>2, <3>3, <3>4, GotoLeaves DEF StartCleanup, Sweep, DeleteStaging
  <2> QED BY <1>1, <2>1, <2>2 DEF Arrives, P
<1>6. CASE \E i \in Installations : InspectDestination(i)
  <2>1. \A a \in Actors \ {"inspect"} : act'[a] = act[a]
    BY <1>6, InspectStepMoves DEF InspectMoves, Structure
  <2>2. act'["inspect"].pc = "recover"
    BY <1>1, <1>6 DEF InspectDestination, Inspecting, AtRest
  <2> QED BY <1>1, <2>1, <2>2 DEF Arrives, P
<1>7. CASE \E i \in Installations, policy \in Policies : Start(i, policy)
  <2>1. P'.pc = "recover" /\ \A a \in Actors \ {"prepare"} : act'[a] = act[a]
    BY <1>1, <1>7 DEF Start, Inspecting, AtRest, P
  <2> QED BY <1>1, <2>1 DEF Arrives, ArrivesInPlace, P, After
<1>8. CASE Crash
  BY <1>1, <1>8 DEF Crash, AtRest, Arrives, ArrivesInPlace, P, After
<1>9. CASE DeleteEntry \/ Visit \/ UNCHANGED vars
  BY <1>9 DEF DeleteEntry, Visit, vars, P
<1> QED
  BY <1>2, <1>3, <1>4, <1>5, <1>6, <1>7, <1>8, <1>9 DEF Next, CleanupStep

\* What is recorded is never taken back, and goes with what it replaced.
Recording ==
  /\ At("prepare", "save") /\ fs' = fs
  /\ row' = [row EXCEPT ![P.inst] = P.name]
  /\ given' = given \cup (IF P.swapped /\ Exists(Replaced(P.op))
                          THEN {fs[Replaced(P.op)].of} ELSE {})

LEMMA RecordsStep ==
  ASSUME Structure, [Next]_vars
  PROVE  /\ Recording \/ (row' = row /\ given' = given)
         /\ (Visits /\ placed' = placed \cup {Visitor}) \/ placed' = placed
<1> USE DEF Records, Counters
<1>1. ASSUME NEW a \in Actors, RollbackReplacement(a)
      PROVE  row' = row /\ given' = given /\ placed' = placed
  BY <1>1 DEF RollbackReplacement, Recover, Reject, Restore, Drop
<1>2. ASSUME NEW a \in Actors, Commit(a) \/ Unmark(a) \/ Discard(a)
      PROVE  row' = row /\ given' = given /\ placed' = placed
  BY <1>2 DEF Commit, Unmark, Discard
<1>3. CASE SavePrepared
  BY <1>3 DEF SavePrepared, Recording
<1>4. CASE Preview \/ Select \/ CreateStaging \/ Unpack \/ WriteMarker \/ Activate
           \/ Replace \/ WriteReplacementMarker \/ RenameIntoPlace \/ Undo \/ Clear
           \/ Activated \/ Rollback \/ DeleteSources
  BY <1>4
     DEF Preview, Select, CreateStaging, Unpack, WriteMarker, Activate, Replace,
         WriteReplacementMarker, RenameIntoPlace, Undo, Clear, Activated, Rollback,
         DeleteSources
<1>5. CASE Visit
  BY <1>5, PathKinds DEF Visit, Visits, OthersStay, Structure, Course, TypeOK
<1>6. CASE \E i \in Installations, policy \in Policies : Start(i, policy)
  <2>1. PICK i \in Installations, policy \in Policies : Start(i, policy)
    BY <1>6
  <2>2. row' = row /\ given' = given /\ placed' = placed
    BY <2>1 DEF Start
  <2> QED BY <2>2
<1>7. CASE \E i \in Installations : InspectDestination(i)
  <2>1. PICK i \in Installations : InspectDestination(i)
    BY <1>7
  <2>2. row' = row /\ given' = given /\ placed' = placed
    BY <2>1 DEF InspectDestination
  <2> QED BY <2>2
<1>8. CASE \/ StartCleanup \/ List \/ Sweep \/ DeleteEntry \/ DeleteStaging
           \/ Crash \/ UNCHANGED vars
  <2>1. row' = row /\ given' = given /\ placed' = placed
    BY <1>8 DEF StartCleanup, List, Sweep, DeleteEntry, DeleteStaging, Crash, vars
  <2> QED BY <2>1
<1> QED
  BY <1>1, <1>2, <1>3, <1>4, <1>5, <1>6, <1>7, <1>8
     DEF Next, PrepareStep, CleanupStep, Actors

-----------------------------------------------------------------------------
(* The promises, one by one.                                                *)

LEMMA RejectedStep ==
  ASSUME Structure, Promises, Effect
  PROVE  RejectedAreInstallations'
<1> USE PathsOfEffects DEF HasBackup, Exists, P
<1>1. \A p \in Paths : Exists(p) => fs[p] \in Directories /\ Fits(p, fs[p])
  BY DEF Structure, Course, TypeOK, Contents
<1>2. \A p \in Paths : Exists(p) /\ IsRejected(p) => fs[p].of \in Installations
  BY DEF Promises, RejectedAreInstallations
<1>3. SUFFICES ASSUME NEW p \in Paths, Exists(p)', IsRejected(p)
               PROVE  fs'[p].of \in Installations
  BY DEF RejectedAreInstallations, IsRejected
<1>4. CASE fs'[p] = fs[p]
  BY <1>2, <1>3, <1>4
<1>5. ASSUME NEW a \in {"prepare", "inspect"}, Rejects(a)
      PROVE  fs'[p].of \in Installations
  <2>1. /\ Exists(Requested) /\ fs[Requested].replaces = act[a].backup
        /\ act[a].backup \in Ops
    BY <1>5 DEF Rejects, Moves, Intrudes, At
  <2>2. fs[Requested].of \notin UserContents
    <3>1. act[a].backup # 0 /\ \A c : Folder(c).replaces = 0
      BY <2>1 DEF Folder, Ops
    <3>2. Fits(Requested, fs[Requested])
      BY <1>1, <2>1
    <3> QED BY <2>1, <3>1, <3>2 DEF Fits
  <2>3. fs[Requested].of \in Installations
    BY <1>1, <2>1, <2>2 DEF Directories
  <2> QED BY <1>3, <1>4, <1>5, <2>3 DEF Rejects, Moves, OthersStay, At
<1>6. CASE \E a \in {"prepare", "inspect"} : Restores(a) \/ Drops(a)
  BY <1>3, <1>4, <1>6 DEF Restores, Drops, Moves, Takes, OthersStay, At
<1>7. CASE \E a \in {"prepare", "cleanup"} : Unmarks(a) \/ Discards(a)
  BY <1>3, <1>4, <1>7 DEF Unmarks, Discards, Takes, OthersStay, At
<1>8. CASE (\E op \in Ops : Stages(op)) \/ Marks
  BY <1>3, <1>4, <1>8 DEF Stages, Marks, OthersStay, At
<1>9. CASE Replaces \/ Undoes
  BY <1>3, <1>4, <1>9 DEF Replaces, Undoes, Moves, OthersStay, At
<1>10. CASE Activates \/ RollsBack \/ Visits
  BY <1>3, <1>4, <1>10 DEF Activates, RollsBack, Visits, Moves, Takes, OthersStay, At
<1> QED
  BY <1>4, <1>5, <1>6, <1>7, <1>8, <1>9, <1>10 DEF Effect

\* The activated installation stays in place until the preparation moves it.
LEMMA ActivatedStays ==
  ASSUME Structure, Promises, Effect, P.pc \in After, ~RollsBack
  PROVE  fs'[Destination("prepare")] = fs[Destination("prepare")]
<1> DEFINE n == Destination("prepare")
<1> USE PathsOfEffects, PathsApart DEF HasBackup, Exists, P, After
<1>1. /\ Exists(n) /\ fs[n].of = P.inst /\ n \in Paths /\ n \in Names
      /\ fs[n].replaces \in {P.op, 0} /\ P.op \in Ops
  BY DEF Promises, ActivatedInPlace
<1>2. row[P.inst] = 0 /\ P.inst \in Installations
  BY DEF Structure, Course, PrepareOK, Unrecorded
<1>3. ASSUME NEW a \in {"prepare", "inspect"}, Rejects(a)
      PROVE  fs'[n] = fs[n]
  <2>1. a = "inspect" /\ fs[Requested].replaces = act[a].backup /\ act[a].backup # P.op
        /\ act[a].backup # 0
    BY <1>3, ConstantsAssumption DEF Rejects, Intrudes, At, Ops
  <2>2. n # Requested
    BY <1>1, <2>1
  <2> QED BY <1>1, <1>3, <2>2 DEF Rejects, Moves, OthersStay, At
<1>4. CASE \E a \in {"prepare", "inspect"} : Restores(a) \/ Drops(a)
  BY <1>1, <1>4 DEF Restores, Drops, Moves, Takes, OthersStay, At
<1>5. ASSUME NEW a \in {"prepare", "cleanup"}, Unmarks(a)
      PROVE  fs'[n] = fs[n]
  <2>1. a = "cleanup" /\ act[a].name \in RecordedNames
    BY <1>5 DEF Unmarks, At, Structure, Course, CleanupOK, Committing
  <2>2. PICK i \in Installations : row[i] # 0 /\ act[a].name = row[i]
    BY <2>1 DEF RecordedNames
  <2>3. fs[Destination("cleanup")].of = i
    BY <2>1, <2>2 DEF Destination, Promises, RecordedAreInPlace, Holds
  <2>4. n # Destination("cleanup")
    BY <1>1, <1>2, <2>2, <2>3
  <2> QED BY <1>1, <1>5, <2>1, <2>4 DEF Unmarks, OthersStay
<1>6. CASE \E a \in {"prepare", "cleanup"} : Discards(a)
  BY <1>1, <1>6 DEF Discards, Takes, OthersStay, At
<1>7. CASE (\E op \in Ops : Stages(op)) \/ Marks
  BY <1>1, <1>7 DEF Stages, Marks, OthersStay, At
<1>8. CASE Replaces \/ Undoes \/ Activates \/ Visits
  BY <1>1, <1>8 DEF Replaces, Undoes, Activates, Visits, Moves, OthersStay, At
<1> QED
  BY <1>1, <1>3, <1>4, <1>5, <1>6, <1>7, <1>8 DEF Effect

LEMMA ActivatedStep ==
  ASSUME Structure, Promises, [Next]_vars, ~intruded'
  PROVE  ActivatedInPlace'
<1> USE DEF P, At
<1>1. /\ Effect /\ (P' = P \/ ArrivesInPlace) /\ Structure'
      /\ act \in [Actors -> Memory] /\ ActivatedInPlace
  BY EffectOfStep, StepArrives, StructureStep DEF Structure, Course, TypeOK, Promises
<1>2. SUFFICES ASSUME P'.pc \in After
               PROVE  /\ Exists(Destination("prepare"))'
                      /\ fs'[Destination("prepare")'].of = P'.inst
                      /\ fs'[Destination("prepare")'].replaces = IF P'.swapped THEN P'.op ELSE 0
  BY DEF ActivatedInPlace
<1>3. CASE P' = P
  <2>1. ~RollsBack
    BY <1>3 DEF RollsBack
  <2> QED
    BY <1>1, <1>2, <1>3, <2>1, ActivatedStays
       DEF ActivatedInPlace, Destination, Exists
<1>4. CASE ArrivesInPlace /\ fs' = fs /\ P.pc \in After
  BY <1>1, <1>2, <1>4 DEF ArrivesInPlace, ActivatedInPlace, Destination, Exists
<1>5. CASE ArrivesInPlace /\ Activates
  <2> DEFINE p == Staging(P.op)
             q == Destination("prepare")
  <2>1. P.pc = "rename" /\ P.op \in Ops /\ Exists(p) /\ fs'[q] = fs[p]
    BY <1>5, PathsOfEffects DEF Activates, Moves
  <2>2. fs[p].of = P.inst /\ fs[p].replaces = IF P.swapped THEN P.op ELSE 0
    BY <2>1 DEF Structure, Course, StagingOK, Early, Before, Unpacked, Ready
  <2>3. Destination("prepare")' = q
    BY <1>2, <1>5 DEF ArrivesInPlace, Destination
  <2> QED BY <1>2, <1>5, <2>1, <2>2, <2>3 DEF ArrivesInPlace, Exists
<1> QED BY <1>1, <1>2, <1>3, <1>4, <1>5 DEF ArrivesInPlace

\* Between the two renames the rejected folder is this actor's alone.
LEMMA RejectedStays ==
  ASSUME Structure, Effect, NEW a \in {"prepare", "inspect"},
         act[a].pc = "restore", act'[a] = act[a]
  PROVE  fs'[Rejected(a, act[a].backup)] = fs[Rejected(a, act[a].backup)]
<1> DEFINE p == Rejected(a, act[a].backup)
<1> USE PathsOfEffects, PathsApart DEF HasBackup, P
<1>1. p \in Paths /\ IsRejected(p) /\ act[a].backup \in Ops
  OBVIOUS
<1>2. ASSUME NEW c \in {"prepare", "inspect"}, Rejects(c) \/ Restores(c) \/ Drops(c)
      PROVE  fs'[p] = fs[p]
  <2>1. c # a
    BY <1>2 DEF Rejects, Restores, Drops, At
  <2>2. act[c].backup \in Ops
    BY <1>2 DEF Rejects, Restores, Drops, At
  <2>3. p # Rejected(c, act[c].backup)
    BY <1>1, <2>1, <2>2
  <2> QED
    BY <1>1, <1>2, <2>2, <2>3 DEF Rejects, Restores, Drops, Moves, Takes, OthersStay
<1>3. CASE \E c \in {"prepare", "cleanup"} : Unmarks(c) \/ Discards(c)
  BY <1>1, <1>3 DEF Unmarks, Discards, Takes, OthersStay, At
<1>4. CASE (\E op \in Ops : Stages(op)) \/ Marks
  BY <1>1, <1>4 DEF Stages, Marks, OthersStay, At
<1>5. CASE Replaces \/ Undoes
  BY <1>1, <1>5 DEF Replaces, Undoes, Moves, OthersStay, At
<1>6. CASE Activates \/ RollsBack \/ Visits
  BY <1>1, <1>6 DEF Activates, RollsBack, Visits, Moves, Takes, OthersStay, At
<1> QED BY <1>2, <1>3, <1>4, <1>5, <1>6 DEF Effect

\* Before its activation the preparation's operation is nobody's backup.
LEMMA OthersBackup ==
  ASSUME Structure, P.pc \in {"replace", "swap", "rename", "undo"}
  PROVE  /\ \A a \in Actors : act[a].pc \in HasBackup => act[a].backup # P.op
         /\ P.op \in Ops
         /\ \A p \in Paths : Exists(p) /\ fs[p].replaces = P.op =>
              P.swapped /\ p = Staging(P.op)
<1>1. Early /\ P.pc # "idle"
  BY DEF Early, Before
<1>2. P.op \in Ops /\ P.op # 0
  BY <1>1, PathsOfEffects DEF Ops
<1> QED
  BY <1>1, <1>2 DEF Structure, Course, BackupsKnown, MarkersKnown, HasBackup

LEMMA UndoesStep ==
  ASSUME Structure, Promises, [Next]_vars, ~intruded'
  PROVE  UndoesItsOwn'
<1> USE DEF HasBackup
<1>1. /\ Effect /\ Structure' /\ UndoesItsOwn /\ MarkersOnce
      /\ \A a \in Actors : act'[a] = act[a] \/ Arrives(a)
      /\ ops \in Nat
  BY EffectOfStep, StepArrives, StructureStep DEF Structure, Course, TypeOK, Promises
<1>2. SUFFICES ASSUME NEW a \in Actors, NEW b, b = act'[a].backup
               PROVE
        /\ act'[a].pc = "reject" =>
             \A p \in Paths : Exists(p)' /\ fs'[p].replaces = b => fs'[p].of = act'[a].inst
        /\ act'[a].pc = "restore" =>
             /\ fs'[Rejected(a, b)] # Nothing /\ fs'[Rejected(a, b)].replaces = b
             /\ fs'[Replaced(b)] # Nothing
  BY DEF UndoesItsOwn, Exists
<1>3. act'[a].pc \in {"reject", "restore"} => b \in Ops /\ b # 0
  <2>1. ops' \in Nat /\ ops' <= MaxOps /\ BackupsKnown'
    BY <1>1, ConstantsAssumption DEF Structure, Course, TypeOK
  <2>2. act'[a].pc \in {"reject", "restore"} => act'[a].backup \in 1 .. ops'
    BY <2>1 DEF BackupsKnown
  <2> QED BY <1>2, <2>1, <2>2, ConstantsAssumption DEF Ops
<1>4. ASSUME act'[a].pc = "reject", NEW p \in Paths, Exists(p)', fs'[p].replaces = b
      PROVE  fs'[p].of = act'[a].inst
  <2>1. CASE act'[a] = act[a]
    <3>1. CASE \E q \in Paths : Exists(q) /\ fs[q].replaces = b /\ fs[q].of = fs'[p].of
      BY <1>1, <1>2, <1>4, <2>1, <3>1 DEF UndoesItsOwn
    <3>2. CASE At("prepare", "swap") /\ b = P.op
      BY <1>2, <1>4, <2>1, <3>2, OthersBackup DEF At, P
    <3> QED BY <1>1, <1>3, <1>4, <3>1, <3>2, MarkersComeFrom
  <2>2. CASE Arrives(a)
    <3>1. fs' = fs
      BY <1>2, <1>4, <2>2 DEF Arrives
    <3>2. PICK q \in Names : /\ HasReplacementMarker(q) /\ fs[q].replaces = b
                             /\ fs[q].of = act'[a].inst
      BY <1>2, <1>4, <2>2 DEF Arrives
    <3>3. p = q
      BY <1>1, <1>2, <1>3, <1>4, <3>1, <3>2, PathKinds DEF MarkersOnce, HasReplacementMarker, Exists
    <3> QED BY <3>1, <3>2, <3>3
  <2> QED BY <1>1, <2>1, <2>2
<1>5. ASSUME act'[a].pc = "restore"
      PROVE  /\ fs'[Rejected(a, b)] # Nothing /\ fs'[Rejected(a, b)].replaces = b
             /\ fs'[Replaced(b)] # Nothing
  <2>3. Rejected(a, b) \in Paths /\ Replaced(b) \in Paths
    BY <1>2, <1>3, <1>5, PathKinds
  <2>1. CASE Arrives(a)
    <3>1. Rejects(a) /\ b = act[a].backup
      BY <1>2, <1>5, <2>1 DEF Arrives
    <3>2. /\ fs[Requested].replaces = b /\ Exists(Requested)
          /\ fs'[Rejected(a, b)] = fs[Requested]
          /\ OthersStay({Requested, Rejected(a, b)})
      BY <3>1 DEF Rejects, Intrudes, Moves
    <3>3. Exists(Replaced(b))
      BY <1>2, <1>3, <1>5, <3>2, PathKinds
         DEF Promises, MarkedHaveTheirBackup, HasReplacementMarker
    <3>4. fs'[Replaced(b)] = fs[Replaced(b)]
      BY <1>2, <1>3, <1>5, <2>3, <3>2, PathsApart DEF OthersStay
    <3> QED BY <3>2, <3>3, <3>4 DEF Exists
  <2>2. CASE act'[a] = act[a]
    <3>1. /\ Exists(Rejected(a, b)) /\ fs[Rejected(a, b)].replaces = b
          /\ Exists(Replaced(b))
      BY <1>1, <1>2, <1>5, <2>2 DEF UndoesItsOwn
    <3>2. a \in {"prepare", "inspect"}
      BY <1>2, <1>5, <2>2
         DEF Actors, Structure, Course, CleanupOK, CleanupPlaces, Committing
    <3>3. fs'[Rejected(a, b)] = fs[Rejected(a, b)]
      BY <1>1, <1>2, <1>5, <2>2, <3>2, RejectedStays
    <3>4. fs'[Replaced(b)] = fs[Replaced(b)]
      <4>1. ASSUME NEW c \in {"prepare", "inspect"}, act[c].pc = "restore",
                   act'[c].pc # "restore", act[c].backup = b
            PROVE  FALSE
        <5>1. c # a
          BY <1>2, <1>5, <4>1
        <5>2. Rejected(c, b) \in Paths /\ Exists(Rejected(c, b))
              /\ fs[Rejected(c, b)].replaces = b
          BY <1>1, <1>2, <1>3, <1>5, <4>1, PathKinds DEF UndoesItsOwn, Actors
        <5>3. Rejected(c, b) # Rejected(a, b)
          BY <1>2, <1>3, <1>5, <3>2, <5>1, PathsApart
        <5> QED BY <1>1, <1>2, <1>3, <1>5, <2>3, <3>1, <5>2, <5>3 DEF MarkersOnce
      <4>2. ASSUME NEW c \in {"prepare", "cleanup"}, act[c].pc = "discard",
                   act[c].backup = b
            PROVE  FALSE
        BY <2>3, <3>1, <4>2 DEF Promises, CommitsWhatIsGiven, Actors
      <4>3. ASSUME b = P.op, Undoes
            PROVE  FALSE
        BY <1>2, <1>5, <2>2, <4>3, OthersBackup DEF Undoes, At, P
      <4> QED BY <1>1, <1>2, <1>3, <1>5, <3>1, <4>1, <4>2, <4>3, BackupsGo
    <3> QED BY <3>1, <3>3, <3>4 DEF Exists
  <2> QED BY <1>1, <2>1, <2>2
<1> QED BY <1>4, <1>5

\* A recorded installation's row and place.
LEMMA RecordedKept ==
  ASSUME Structure, Promises, [Next]_vars, ~intruded', NEW i \in Installations, row[i] # 0
  PROVE  row'[i] = row[i] /\ KeepsPlace(<<"name", row[i]>>)
<1>1. Effect
  BY EffectOfStep
<1>2. row'[i] = row[i]
  <2>1. CASE row' = row
    BY <2>1
  <2>2. CASE Recording
    <3>1. row[P.inst] = 0
      BY <2>2 DEF Recording, At, P, Structure, Course, PrepareOK, Unrecorded, After
    <3> QED BY <2>2, <3>1 DEF Recording, Structure, Course, TypeOK
  <2> QED BY <2>1, <2>2, RecordsStep
<1> QED BY <1>1, <1>2, RecordedStay

\* What the preparation records is in place.
LEMMA RecordingInPlace ==
  ASSUME Structure, Promises, Recording
  PROVE  /\ P.inst \in Installations /\ P.name # 0
         /\ \A i \in Installations : row'[i] = IF i = P.inst THEN P.name ELSE row[i]
         /\ LET p == <<"name", P.name>> IN
            /\ p \in Names /\ p \in Paths /\ Exists(p) /\ fs' = fs
            /\ fs[p].of = P.inst /\ fs[p].whole /\ fs[p].installation
            /\ fs[p].replaces = IF P.swapped THEN P.op ELSE 0
<1> DEFINE p == <<"name", P.name>>
<1>1. P.pc = "save" /\ P.pc \in After
  BY DEF Recording, At, P, After
<1>2. /\ P.inst \in Installations /\ p = Destination("prepare") /\ fs' = fs
      /\ P.name \in 1 .. LastName
  BY <1>1 DEF Structure, Course, PrepareOK, Destination, P, Recording, TypeOK, Memory, Actors
<1>3. /\ Exists(p) /\ fs[p].of = P.inst
      /\ fs[p].replaces = IF P.swapped THEN P.op ELSE 0
  BY <1>1, <1>2 DEF Promises, ActivatedInPlace
<1>4. p \in Names /\ p \in Paths
  BY <1>2, PathsOfEffects
<1>5. fs[p].whole /\ fs[p].installation
  BY <1>2, <1>3, <1>4 DEF Structure, Course, Contents, Fits
<1>6. \A i \in Installations : row'[i] = IF i = P.inst THEN P.name ELSE row[i]
  BY <1>2 DEF Recording, Structure, Course, TypeOK
<1> QED BY <1>2, <1>3, <1>4, <1>5, <1>6

LEMMA RecordedInPlaceStep ==
  ASSUME Structure, Promises, [Next]_vars, ~intruded'
  PROVE  RecordedAreInPlace'
<1>1. SUFFICES ASSUME NEW i \in Installations, row'[i] # 0
               PROVE  LET p == <<"name", row'[i]>> IN
                      /\ fs'[p] # Nothing /\ fs'[p].of = i
                      /\ fs'[p].whole /\ fs'[p].installation
  BY DEF RecordedAreInPlace, Holds, Exists
<1>2. CASE row[i] # 0
  BY <1>1, <1>2, RecordedKept DEF Promises, RecordedAreInPlace, Holds, KeepsPlace
<1>3. CASE row[i] = 0
  <2>1. Recording
    BY <1>1, <1>3, RecordsStep
  <2>2. i = P.inst
    BY <1>1, <1>3, <2>1, RecordingInPlace
  <2> QED BY <1>1, <2>1, <2>2, RecordingInPlace DEF Exists
<1> QED BY <1>2, <1>3

LEMMA GivenStep ==
  ASSUME Structure, Promises, [Next]_vars, ~intruded'
  PROVE  RecordedIsGiven'
<1>1. /\ Effect /\ given \subseteq given' /\ MarkersKnown
      /\ fs \in [Paths -> Directories \cup {Nothing}]
  BY EffectOfStep, RecordsStep DEF Recording, Structure, Course, TypeOK
<1>2. SUFFICES ASSUME NEW i \in Installations, row'[i] # 0, NEW b,
                      b = fs'[<<"name", row'[i]>>].replaces, b # 0,
                      fs'[Replaced(b)] # Nothing
               PROVE  fs'[Replaced(b)].of \in given'
  BY DEF RecordedIsGiven, Exists
<1>3. CASE row[i] # 0
  <2> DEFINE p == <<"name", row[i]>>
  <2>1. /\ row'[i] = row[i] /\ KeepsPlace(p) /\ Exists(p) /\ p \in Paths /\ p \in Names
    <3>1. row[i] \in 1 .. LastName
      BY <1>3, ConstantsAssumption DEF Structure, Course, TypeOK
    <3> QED
      BY <1>3, <3>1, RecordedKept, PathsOfEffects
         DEF Promises, RecordedAreInPlace, Holds, Names
  <2>2. b = fs[p].replaces /\ b \in Ops
    <3>1. b = fs[p].replaces
      BY <1>2, <2>1 DEF KeepsPlace
    <3>2. fs[p] \in Directories
      BY <1>1, <2>1 DEF Exists
    <3> QED BY <1>2, <3>1, <3>2 DEF Directories
  <2>3. ~(At("prepare", "replace") /\ b = P.op)
    <3>1. SUFFICES ASSUME At("prepare", "replace"), b = P.op PROVE FALSE
      OBVIOUS
    <3>2. p = Staging(P.op)
      BY <2>1, <2>2, <3>1, OthersBackup DEF At, P
    <3> QED BY <2>1, <2>2, <3>1, <3>2, PathKinds
  <2>4. fs'[Replaced(b)] = fs[Replaced(b)]
    BY <1>1, <1>2, <2>2, <2>3, BackupsAppear
  <2>5. fs[Replaced(b)].of \in given
    BY <1>2, <1>3, <2>2, <2>4 DEF Promises, RecordedIsGiven, Exists
  <2> QED BY <1>1, <2>4, <2>5
<1>4. CASE row[i] = 0
  <2>1. Recording
    BY <1>2, <1>4, RecordsStep
  <2>2. i = P.inst /\ b = P.op /\ P.swapped /\ fs' = fs
    BY <1>2, <1>4, <2>1, RecordingInPlace
  <2> QED BY <1>2, <2>1, <2>2 DEF Recording, Exists
<1> QED BY <1>3, <1>4

LEMMA CommitsStep ==
  ASSUME Structure, Promises, [Next]_vars, ~intruded'
  PROVE  CommitsWhatIsGiven'
<1> USE DEF HasBackup
<1>1. /\ Effect /\ Structure' /\ CommitsWhatIsGiven /\ MarkersOnce
      /\ \A a \in Actors : act'[a] = act[a] \/ Arrives(a)
      /\ given \subseteq given'
      /\ fs \in [Paths -> Directories \cup {Nothing}]
  BY EffectOfStep, StepArrives, StructureStep, RecordsStep
     DEF Structure, Course, TypeOK, Promises, Recording
<1>2. SUFFICES ASSUME NEW a \in Actors, NEW b, b = act'[a].backup,
                      act'[a].pc \in {"unmark", "discard"}
               PROVE
        /\ fs'[Replaced(b)] # Nothing => fs'[Replaced(b)].of \in given'
        /\ act'[a].pc = "unmark" => fs'[<<"name", act'[a].name>>].replaces \in {0, b}
        /\ act'[a].pc = "discard" =>
             \A p \in Paths : Exists(p)' => fs'[p].replaces # b
  BY DEF CommitsWhatIsGiven, Exists, Destination
<1>3. b \in Ops /\ b # 0
  <2>1. ops' \in Nat /\ ops' <= MaxOps /\ BackupsKnown'
    BY <1>1, ConstantsAssumption DEF Structure, Course, TypeOK
  <2>2. act'[a].backup \in 1 .. ops'
    BY <1>2, <2>1 DEF BackupsKnown
  <2> QED BY <1>2, <2>1, <2>2, ConstantsAssumption DEF Ops
<1>4. Replaced(b) \in Paths
  BY <1>3, PathKinds
\* The name it commits is recorded.
<1>5. ASSUME act[a].pc \in Committing, act[a].pc \in {"commit", "unmark", "discard"}
      PROVE  \E i \in Installations : row[i] # 0 /\ row[i] = act[a].name
  <2>1. act[a].name # 0
    BY DEF Structure, Course, TypeOK, Memory
  <2>2. CASE a = "prepare"
    BY <1>5, <2>1, <2>2 DEF Structure, Course, PrepareOK, P, PreparePlaces
  <2>3. CASE a = "cleanup"
    BY <1>5, <2>3 DEF Structure, Course, CleanupOK, RecordedNames
  <2>4. CASE a = "inspect"
    BY <1>5, <2>4 DEF Structure, Course, InspectOK, InspectPlaces, Undoing, Committing
  <2> QED BY <2>2, <2>3, <2>4 DEF Actors
<1>6. CASE act'[a] = act[a]
  <2>1. act[a].backup = b /\ act[a].pc \in {"unmark", "discard"}
    BY <1>2, <1>6
  <2>2. ~((At("prepare", "replace") \/ At("prepare", "swap")) /\ b = P.op)
    BY <2>1, OthersBackup DEF At, P
  <2>3. fs'[Replaced(b)] # Nothing => fs'[Replaced(b)].of \in given'
    <3>1. fs'[Replaced(b)] \in {fs[Replaced(b)], Nothing}
      BY <1>1, <1>3, <2>2, BackupsAppear
    <3> QED BY <1>1, <2>1, <3>1 DEF CommitsWhatIsGiven, Exists
  <2>4. ASSUME act[a].pc = "unmark"
        PROVE  fs'[<<"name", act[a].name>>].replaces \in {0, b}
    <3>1. PICK i \in Installations : row[i] # 0 /\ row[i] = act[a].name
      BY <1>5, <2>4 DEF Committing
    <3>2. KeepsPlace(<<"name", act[a].name>>)
      BY <3>1, RecordedKept
    <3>3. fs[<<"name", act[a].name>>].replaces \in {0, b}
      BY <1>1, <2>1, <2>4 DEF CommitsWhatIsGiven, Destination
    <3> QED BY <3>2, <3>3 DEF KeepsPlace
  <2>5. ASSUME act[a].pc = "discard", NEW p \in Paths, Exists(p)', fs'[p].replaces = b
        PROVE  FALSE
    BY <1>1, <1>3, <2>1, <2>2, <2>5, MarkersComeFrom DEF CommitsWhatIsGiven
  <2> QED BY <1>6, <2>3, <2>4, <2>5
<1>7. CASE Arrives(a) /\ act'[a].pc = "unmark"
  <2> DEFINE p == <<"name", act[a].name>>
  <2>1. /\ act[a].pc = "commit" /\ fs' = fs /\ Exists(p)
        /\ b = fs[p].replaces /\ act'[a].name = act[a].name
    BY <1>2, <1>7 DEF Arrives, At, HasReplacementMarker, Destination
  <2>2. PICK i \in Installations : row[i] # 0 /\ row[i] = act[a].name
    BY <1>5, <2>1 DEF Committing
  <2>3. Exists(Replaced(b)) => fs[Replaced(b)].of \in given
    BY <1>3, <2>1, <2>2 DEF Promises, RecordedIsGiven
  <2> QED BY <1>1, <1>7, <2>1, <2>3 DEF Exists
<1>8. CASE Arrives(a) /\ act'[a].pc = "discard"
  <2> DEFINE q == Destination(a)
  <2>1. /\ Unmarks(a) /\ b = act[a].backup /\ act[a].pc = "unmark"
        /\ HasReplacementMarker(q) /\ OthersStay({q}) /\ fs'[q].replaces = 0
    BY <1>2, <1>8 DEF Arrives, Unmarks, At
  <2>2. fs[q].replaces = b /\ Exists(q)
    BY <1>1, <2>1 DEF CommitsWhatIsGiven, HasReplacementMarker
  <2>3. q \in Names /\ q \in Paths
    <3>1. act[a].name \in 1 .. LastName
      BY DEF Structure, Course, TypeOK, Memory
    <3> QED BY <3>1, PathKinds DEF Destination
  <2>4. fs'[Replaced(b)] = fs[Replaced(b)]
    BY <1>3, <1>4, <2>1, <2>3, PathKinds DEF OthersStay
  <2>5. fs'[Replaced(b)] # Nothing => fs'[Replaced(b)].of \in given'
    BY <1>1, <2>1, <2>4 DEF CommitsWhatIsGiven, Exists
  <2>6. \A p \in Paths : Exists(p)' => fs'[p].replaces # b
    BY <1>1, <1>3, <2>1, <2>2, <2>3 DEF MarkersOnce, OthersStay, Exists
  <2> QED BY <1>8, <2>5, <2>6
<1> QED BY <1>1, <1>2, <1>6, <1>7, <1>8

LEMMA ReplacedStep ==
  ASSUME Structure, Promises, [Next]_vars, ~intruded'
  PROVE  ReplacedIsThere'
<1> USE DEF P, At, HasBackup
<1>1. Effect /\ (P' = P \/ ArrivesInPlace) /\ Actors = {"prepare", "inspect", "cleanup"}
  BY EffectOfStep, StepArrives DEF Promises, Actors
<1>2. SUFFICES ASSUME P'.pc = "swap" \/ (P'.pc = "rename" /\ P'.swapped)
               PROVE  fs'[Replaced(P'.op)] # Nothing
  BY DEF ReplacedIsThere, Exists
<1>3. CASE P' = P
  <2>1. /\ P.op \in Ops /\ Exists(Replaced(P.op))
        /\ \A a \in Actors : act[a].pc \in {"restore", "discard"} => act[a].backup # P.op
        /\ ~Undoes
    BY <1>2, <1>3, OthersBackup DEF Promises, ReplacedIsThere, Undoes
  <2>2. fs'[Replaced(P.op)] = fs[Replaced(P.op)]
    BY <1>1, <2>1, BackupsGo
  <2> QED BY <1>3, <2>1, <2>2 DEF Exists
<1>4. CASE ArrivesInPlace /\ P'.pc = "swap"
  BY <1>4 DEF ArrivesInPlace, Replaces, Moves, Exists
<1>5. CASE ArrivesInPlace /\ P'.pc = "rename"
  <2>1. Marks /\ P'.op = P.op
    BY <1>2, <1>5 DEF ArrivesInPlace
  <2>2. P.op \in Ops /\ Exists(Replaced(P.op))
    BY <2>1, OthersBackup DEF Marks, Promises, ReplacedIsThere
  <2>3. fs'[Replaced(P.op)] = fs[Replaced(P.op)]
    BY <2>1, <2>2, PathsApart, PathKinds DEF Marks, OthersStay
  <2> QED BY <2>1, <2>2, <2>3 DEF Exists
<1> QED BY <1>1, <1>2, <1>3, <1>4, <1>5

\* What the user had there moves, and goes only when it is given.
LEMMA ContentsStep ==
  ASSUME Structure, Promises, [Next]_vars, ~intruded'
  PROVE  ContentsAreKept'
<1> USE PathsOfEffects, PathsApart DEF HasBackup, P
<1>1. /\ Effect /\ given \subseteq given' /\ placed \subseteq UserContents
      /\ (Visits /\ placed' = placed \cup {Visitor}) \/ placed' = placed
      /\ Nothing.of \notin UserContents /\ UserContents \cap Installations = {}
  BY EffectOfStep, RecordsStep, ConstantsAssumption
     DEF Recording, Structure, Course, TypeOK, Nothing, UserContents, Progress, Orphan, Visitor
<1>2. \A p \in Paths : Exists(p) => Fits(p, fs[p])
  BY DEF Structure, Course, Contents
<1>3. SUFFICES ASSUME NEW c \in placed', c \notin given'
               PROVE  \E p \in Paths : Exists(p)' /\ fs'[p].of = c
  BY DEF ContentsAreKept, Holds
<1>4. CASE Visits /\ c = Visitor
  BY <1>4 DEF Visits, Folder, Exists, Nothing
<1>5. SUFFICES ASSUME NEW p \in Paths, Exists(p), fs[p].of = c, c \in UserContents,
                      c \notin given, c \notin Installations
               PROVE  \E q \in Paths : Exists(q)' /\ fs'[q].of = c
  BY <1>1, <1>3, <1>4 DEF Promises, ContentsAreKept, Holds
<1>6. CASE fs'[p] = fs[p]
  BY <1>5, <1>6 DEF Exists
<1>7. ~IsRejected(p) /\ \A op \in Ops : p # Staging(op)
  BY <1>2, <1>5 DEF Promises, RejectedAreInstallations, Fits
<1>8. ASSUME NEW a \in {"prepare", "inspect"}, Rejects(a) \/ Restores(a) \/ Drops(a)
      PROVE  \E q \in Paths : Exists(q)' /\ fs'[q].of = c
  BY <1>5, <1>6, <1>7, <1>8
     DEF Rejects, Restores, Drops, Moves, Takes, OthersStay, At, Exists
<1>9. ASSUME NEW a \in {"prepare", "cleanup"}, Unmarks(a)
      PROVE  \E q \in Paths : Exists(q)' /\ fs'[q].of = c
  BY <1>5, <1>6, <1>9 DEF Unmarks, OthersStay, Exists
<1>10. ASSUME NEW a \in {"prepare", "cleanup"}, Discards(a)
       PROVE  \E q \in Paths : Exists(q)' /\ fs'[q].of = c
  <2>1. Exists(Replaced(act[a].backup)) => fs[Replaced(act[a].backup)].of \in given
    BY <1>10 DEF Discards, At, Promises, CommitsWhatIsGiven
  <2> QED BY <1>5, <1>6, <1>10, <2>1 DEF Discards, Takes, OthersStay, At
<1>11. CASE (\E op \in Ops : Stages(op)) \/ Marks
  BY <1>6, <1>7, <1>11 DEF Stages, Marks, OthersStay, At
<1>12. CASE Replaces \/ Undoes
  BY <1>5, <1>6, <1>7, <1>12 DEF Replaces, Undoes, Moves, OthersStay, At, Exists
<1>13. CASE Activates
  BY <1>5, <1>6, <1>7, <1>13 DEF Activates, Moves, OthersStay, At, Exists
<1>14. CASE RollsBack
  <2>1. fs[Destination("prepare")].of = P.inst /\ P.inst \in Installations
    BY <1>14
       DEF RollsBack, At, Promises, ActivatedInPlace, After, Structure, Course, PrepareOK
  <2> QED BY <1>5, <1>6, <1>14, <2>1 DEF RollsBack, Takes, OthersStay
<1>15. CASE Visits
  BY <1>5, <1>6, <1>15 DEF Visits, OthersStay
<1> QED
  BY <1>1, <1>6, <1>8, <1>9, <1>10, <1>11, <1>12, <1>13, <1>14, <1>15 DEF Effect

\* No marker is left in a destination when its backup goes.
LEMMA MarkedStep ==
  ASSUME Structure, Promises, [Next]_vars, ~intruded'
  PROVE  MarkedHaveTheirBackup'
<1> USE DEF HasBackup
<1>1. /\ Effect /\ MarkersOnce /\ MarkersKnown /\ Actors = {"prepare", "inspect", "cleanup"}
      /\ ops \in Nat /\ \A p \in Paths : Exists(p) => Fits(p, fs[p])
      /\ fs \in [Paths -> Directories \cup {Nothing}]
      /\ Structure'
  BY EffectOfStep, StructureStep DEF Actors, Structure, Course, TypeOK, Contents
<1>2. SUFFICES ASSUME NEW p \in Names, Exists(p)', NEW b, b = fs'[p].replaces, b # 0
               PROVE  fs'[Replaced(b)] # Nothing
  BY DEF MarkedHaveTheirBackup, HasReplacementMarker, Exists
<1>3. b \in Ops /\ p \in Paths
  <2>1. fs' \in [Paths -> Directories \cup {Nothing}] /\ p \in Paths
    BY <1>1, PathKinds DEF Structure, Course, TypeOK
  <2> QED BY <1>2, <2>1 DEF Exists, Directories
<1>4. Replaced(b) \in Paths /\ Requested \in Paths /\ Requested # Replaced(b)
  BY <1>3, PathKinds
\* Its backup was there before the step.
<1>5. Exists(Replaced(b)) /\ \E q \in Paths :
        /\ Exists(q) /\ fs[q].replaces = b
        /\ \/ q = p
           \/ \E a \in {"prepare", "inspect"} :
                /\ act[a].pc = "restore" /\ q = Rejected(a, b) /\ act[a].backup = b
                /\ Moves(q, p)
           \/ Activates /\ b = P.op
  <2> USE PathsOfEffects, PathsApart DEF P
  <2>1. ASSUME Exists(p), fs[p].replaces = b
        PROVE  Exists(Replaced(b))
    BY <1>2, <2>1 DEF Promises, MarkedHaveTheirBackup, HasReplacementMarker
  <2>2. CASE fs'[p] = fs[p]
    BY <1>2, <1>3, <2>1, <2>2 DEF Exists
  <2>3. ASSUME NEW a \in {"prepare", "inspect"}, Restores(a), fs'[p] # fs[p]
        PROVE  /\ act[a].pc = "restore" /\ act[a].backup = b
               /\ Moves(Rejected(a, b), p) /\ Exists(Rejected(a, b))
               /\ fs[Rejected(a, b)].replaces = b /\ Exists(Replaced(b))
    <3>1. /\ act[a].pc = "restore" /\ act[a].backup \in Ops
          /\ Exists(Rejected(a, act[a].backup)) /\ Exists(Replaced(act[a].backup))
          /\ fs[Rejected(a, act[a].backup)].replaces = act[a].backup
      BY <2>3 DEF Restores, At, Promises, UndoesItsOwn
    <3>2. p = Requested
      BY <1>2, <1>3, <2>3, <3>1 DEF Restores, Moves, OthersStay, Exists
    <3>3. fs[Replaced(act[a].backup)].replaces = 0
      BY <1>1, <3>1 DEF Fits, Folder
    <3>4. Moves(Rejected(a, act[a].backup), p)
      BY <1>2, <2>3, <3>1, <3>2, <3>3 DEF Restores, Moves
    <3>5. act[a].backup = b
      BY <1>2, <3>1, <3>4 DEF Moves
    <3> QED BY <3>1, <3>4, <3>5
  <2>4. CASE \E a \in {"prepare", "inspect"} : Rejects(a) \/ Drops(a)
    BY <1>2, <1>3, <2>2, <2>4 DEF Rejects, Drops, Moves, Takes, OthersStay, At, Exists
  <2>5. CASE \E a \in {"prepare", "cleanup"} : Unmarks(a) \/ Discards(a)
    BY <1>2, <1>3, <2>2, <2>5 DEF Unmarks, Discards, Takes, OthersStay, At, Exists
  <2>6. CASE (\E op \in Ops : Stages(op)) \/ Marks
    BY <1>2, <1>3, <2>2, <2>6 DEF Stages, Marks, OthersStay, At
  <2>7. CASE Replaces
    BY <1>2, <1>3, <2>2, <2>7 DEF Replaces, Moves, OthersStay, At, Exists
  <2>8. CASE Undoes
    <3>1. fs[Replaced(P.op)].replaces = 0
      BY <1>1, <2>8 DEF Undoes, At, Fits, Folder
    <3> QED BY <1>2, <1>3, <2>2, <2>8, <3>1 DEF Undoes, OthersStay, At
  <2>9. CASE Activates
    <3>1. P.pc = "rename" /\ P.op \in Ops /\ Exists(Staging(P.op))
      BY <2>9 DEF Activates, Moves, At
    <3>2. fs[Staging(P.op)].replaces = IF P.swapped THEN P.op ELSE 0
      BY <3>1 DEF Structure, Course, StagingOK, Early, Before, Unpacked, Ready
    <3>3. P.swapped => Exists(Replaced(P.op))
      BY <3>1 DEF Promises, ReplacedIsThere
    <3> QED
      BY <1>2, <1>3, <2>2, <2>9, <3>1, <3>2, <3>3 DEF Activates, Moves, OthersStay, Exists
  <2>10. CASE RollsBack \/ Visits
    BY <1>2, <1>3, <2>2, <2>10 DEF RollsBack, Visits, Takes, OthersStay, Folder, Exists
  <2> QED
    BY <1>1, <1>2, <2>2, <2>3, <2>4, <2>5, <2>6, <2>7, <2>8, <2>9, <2>10 DEF Effect
<1>6. PICK q \in Paths :
        /\ Exists(q) /\ fs[q].replaces = b
        /\ \/ q = p
           \/ \E a \in {"prepare", "inspect"} :
                /\ act[a].pc = "restore" /\ q = Rejected(a, b) /\ act[a].backup = b
                /\ Moves(q, p)
           \/ Activates /\ b = P.op
  BY <1>5
\* And no step takes it away.
<1>7. ASSUME NEW c \in {"prepare", "inspect"}, act[c].pc = "restore", act[c].backup = b,
             Moves(Replaced(b), Requested)
      PROVE  FALSE
  <2> DEFINE r == Rejected(c, b)
  <2>1. r \in Paths /\ Exists(r) /\ fs[r].replaces = b /\ r \notin Names
    BY <1>1, <1>3, <1>7, PathKinds DEF Promises, UndoesItsOwn
  <2>2. q = r
    BY <1>1, <1>2, <1>6, <2>1 DEF MarkersOnce
  <2>3. fs'[r] = fs[r]
    BY <1>1, <1>3, <1>4, <1>7, <2>1, PathsApart DEF Moves, OthersStay
  <2>4. ~(Activates /\ b = P.op)
    BY <1>1, <1>7, OthersBackup DEF Activates, At, P
  <2> QED BY <1>2, <1>6, <2>1, <2>2, <2>3, <2>4 DEF Moves, Exists
<1>8. ASSUME NEW c \in {"prepare", "cleanup"}, act[c].pc = "discard", act[c].backup = b
      PROVE  FALSE
  BY <1>1, <1>6, <1>8 DEF Promises, CommitsWhatIsGiven
<1>9. ASSUME b = P.op, Undoes
      PROVE  FALSE
  <2>1. q = Staging(b) /\ P.pc \in {"swap", "undo"}
    BY <1>6, <1>9, OthersBackup DEF Undoes, At, P
  <2>2. q \notin Names /\ ~IsRejected(q)
    BY <1>3, <2>1, PathKinds
  <2>3. \A a \in Actors : IsRejected(Rejected(a, b))
    BY <1>3, PathKinds
  <2> QED BY <1>1, <1>2, <1>6, <2>1, <2>2, <2>3 DEF Activates, At, P
<1> QED
  BY <1>1, <1>3, <1>5, <1>7, <1>8, <1>9, BackupsGo DEF Exists

-----------------------------------------------------------------------------
(* The theorems.                                                            *)

LEMMA Inductive == Spec => []IInv
<1>1. ASSUME IInv, [Next]_vars
      PROVE  IInv'
  <2>1. Course'
    BY <1>1, CourseStep DEF IInv
  <2>2. ASSUME ~intruded'
        PROVE  Contents' /\ StagingOK' /\ Promises'
    <3>1. Structure /\ Promises
      BY <1>1, <2>2, MetStays DEF IInv, Structure
    <3>11. Contents' /\ StagingOK'
      BY <1>1, <2>2, <3>1, StructureStep DEF Structure
    <3>2. RejectedAreInstallations'
      BY <1>1, <2>2, <3>1, EffectOfStep, RejectedStep
    <3> QED
      BY <1>1, <2>2, <3>1, <3>11, <3>2, ActivatedStep, UndoesStep, GivenStep, CommitsStep,
         ReplacedStep, ContentsStep, RecordedInPlaceStep, MarkedStep DEF Promises
  <2> QED BY <2>1, <2>2 DEF IInv
<1> QED BY Initially, <1>1, PTL DEF Spec

\* Type correctness: every preparation, inspection and cleanup keeps the
\* destination folder, the table and the actors' memories what they are.
THEOREM TypeCorrect == Spec => []TypeOK
<1>1. IInv => TypeOK
  BY DEF IInv, Course
<1> QED BY <1>1, Inductive, PTL

\* What the user had at the destination is somewhere on the disk until an
\* installation that replaces it is recorded, wherever the launcher stops and
\* whichever rename fails (installer.rs, begin_replacement, restore_replacement
\* and rollback_replacement).
THEOREM UserContentIsKept == Spec => []UserContentKept
<1>1. IInv => UserContentKept
  BY DEF IInv, Promises, ContentsAreKept, UserContentKept
<1> QED BY <1>1, Inductive, PTL

\* A recorded installation is complete at its recorded name: rollbacks,
\* recoveries, cleanups and later preparations never take it away again.
THEOREM PreparedStaysInstalled == Spec => []PreparedIsInstalled
<1>1. IInv => PreparedIsInstalled
  BY DEF IInv, Promises, RecordedAreInPlace, PreparedIsInstalled
<1> QED BY <1>1, Inductive, PTL

\* A replacement that is not committed can be undone: the marker in a
\* destination goes with its backup (installer.rs, commit_replacement and
\* rollback_replacement).
THEOREM ReplacementStaysUndoable == Spec => []ReplacementCanBeUndone
<1>1. IInv => ReplacementCanBeUndone
  BY DEF IInv, Promises, MarkedHaveTheirBackup, ReplacementCanBeUndone
<1> QED BY <1>1, Inductive, PTL

=============================================================================
