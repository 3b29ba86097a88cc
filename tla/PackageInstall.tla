--------------------------- MODULE PackageInstall ---------------------------
(***************************************************************************)
(* Preparing a package: unpacking it into a hidden folder next to its      *)
(* destination, activating it with one rename, and recording it in the     *)
(* database.  The module composes the service that orders these            *)
(* (dla-application/src/package_preparation.rs) with the installer that    *)
(* works on the file system (dla-archive/src/installer.rs), the cleanup of *)
(* what interrupted operations left (dla-archive/src/maintenance.rs) and   *)
(* the single slot of the running preparation                              *)
(* (src-tauri/src/package_preparation.rs).                                 *)
(*                                                                         *)
(* One destination folder is modelled.  A directory is a record of whose   *)
(* files it holds and which markers lie in it.  Every rename, every marker *)
(* and every write to the database is a step, and the launcher may stop    *)
(* between any two; unpacking a tree is one step.  So is deleting one that *)
(* its preparation alone works on.  The cleanup, which may meet a          *)
(* preparation, deletes entry by entry.  What the user puts at the name is *)
(* a folder: a regular file, which `fs::rename` would replace instead of   *)
(* refusing the rename, is left out.                                       *)
(***************************************************************************)
EXTENDS Naturals, FiniteSets

CONSTANTS
  Installations,  \* installations of the library with a package
  LastName,       \* bound: requested name and its "(2)", "(3)" alternatives
  MaxOps,         \* bound: preparations ever started
  MaxCrashes,     \* bound: restarts of the launcher
  MaxVisits       \* bound: folders the user creates at the requested name

\* The user's content: what may lie at the requested name at the start, of
\* no installation or of one that was removed from the library, and what
\* another program puts there later.
Progress == "progress"
Orphan   == "orphan"
Visitor  == "visitor"
UserContents == {Progress, Orphan, Visitor}

ASSUME ConstantsAssumption ==
  /\ Installations \cap UserContents = {}
  /\ LastName \in Nat \ {0} /\ MaxOps \in Nat
  /\ MaxCrashes \in Nat /\ MaxVisits \in Nat

VARIABLES
  fs,        \* the destination folder: a directory, or Nothing, by path
  row,       \* the prepared packages: the recorded name, 0 without a row
  sources,   \* installations whose source archives still exist
  act,       \* what each actor is in the middle of
  \* History of the behaviour, read by the properties only:
  placed,    \* contents of the user that were in the folder
  given,     \* those whose replacement was recorded
  intruded,  \* an inspection or the cleanup met a preparation (see Intrudes
             \* and Tears)
  \* Bounds:
  ops, crashes, visits

vars == <<fs, row, sources, act, placed, given, intruded, ops, crashes, visits>>

-----------------------------------------------------------------------------
(* The file system.                                                         *)

Ops == 1 .. MaxOps

Names == {<<"name", n>> : n \in 1 .. LastName}

Requested == <<"name", 1>>

Staging(op)  == <<"stage", op>>      \* .dla-stage-<operation>-<uuid>
Replaced(op) == <<"replaced", op>>   \* .dla-replaced-<operation>-<uuid>

\* .dla-rejected-<operation>-<uuid>: each actor draws its own.
Rejected(a, op) ==
  IF a = "prepare" THEN <<"rejected", op>> ELSE <<"rejectedByInspection", op>>

Paths == Names \cup
  {<<kind, op>> : kind \in {"stage", "replaced", "rejected", "rejectedByInspection"},
                  op \in Ops}

\* `of`: whose files; `whole`: all of them, verified; `tree`: the operation
\* that unpacked them, or 0; the three markers, the last of which names the
\* operation whose backup it goes with.
Directories ==
  [of : Installations \cup UserContents, whole : BOOLEAN, tree : Ops \cup {0},
   staging : BOOLEAN, installation : BOOLEAN, replaces : Ops \cup {0}]

Nothing == [of |-> "nothing"]

Folder(content) ==
  [of |-> content, whole |-> TRUE, tree |-> 0, staging |-> FALSE,
   installation |-> content = Orphan, replaces |-> 0]

Exists(p) == fs[p] # Nothing

HasReplacementMarker(p) == Exists(p) /\ fs[p].replaces # 0

HasInstallationMarker(p) == Exists(p) /\ fs[p].installation

RemovePath(p) == fs' = [fs EXCEPT ![p] = Nothing]

\* A rename moves a directory to a free path; it fails when there is nothing
\* to move or the target is taken.
CanRename(p, q) == Exists(p) /\ ~Exists(q)
Rename(p, q) == fs' = [fs EXCEPT ![p] = Nothing, ![q] = fs[p]]

\* `let _ = fs::rename(p, q)`.
TryRename(p, q) == IF CanRename(p, q) THEN Rename(p, q) ELSE UNCHANGED fs

FreeAlternatives == {n \in 2 .. LastName : ~Exists(<<"name", n>>)}

-----------------------------------------------------------------------------
(* The actors.                                                              *)

Actors == {"prepare", "inspect", "cleanup"}

Policies == {"Refuse", "KeepBoth", "ReplaceExisting"}

\* Places of the actors; "idle" is outside of any operation.
PCs == {"idle", "recover", "reject", "restore", "drop",
        "preview", "select", "stage", "unpack", "mark", "activate", "replace",
        "swap", "rename", "undo", "clear", "activated", "save", "rollback",
        "commit", "unmark", "discard", "sources", "list", "sweep", "delete"}

\* What an actor remembers: its operation, the options, the name it works
\* on, the backup it read of, where a subroutine returns to and where its
\* error goes.  `orphan`: replacing an orphaned installation is authorised;
\* `swapped`: its activation replaces something.
Memory ==
  [pc : PCs, op : Ops \cup {0}, inst : Installations \cup {"none"},
   policy : Policies, orphan : BOOLEAN, swapped : BOOLEAN, name : 1 .. LastName,
   backup : Ops \cup {0}, back : PCs, fault : PCs,
   todo : SUBSET (1 .. LastName)]

AtRest ==
  [pc |-> "idle", op |-> 0, inst |-> "none", policy |-> "Refuse",
   orphan |-> FALSE, swapped |-> FALSE, name |-> 1,
   backup |-> 0, back |-> "idle", fault |-> "idle", todo |-> {}]

TypeOK ==
  /\ fs \in [Paths -> Directories \cup {Nothing}]
  /\ row \in [Installations -> 0 .. LastName]
  /\ sources \subseteq Installations
  /\ act \in [Actors -> Memory]
  /\ placed \subseteq UserContents /\ given \subseteq UserContents \cup Installations
  /\ intruded \in BOOLEAN
  /\ ops \in 0 .. MaxOps /\ crashes \in 0 .. MaxCrashes
  /\ visits \in 0 .. MaxVisits

\* The requested name is free or taken by something of the user's.
Init ==
  /\ \E original \in {Progress, Orphan, "nothing"} :
       /\ fs = [p \in Paths |->
                  IF p = Requested /\ original # "nothing"
                  THEN Folder(original) ELSE Nothing]
       /\ placed = {original} \ {"nothing"}
  /\ row = [i \in Installations |-> 0]
  /\ sources = Installations
  /\ act = [a \in Actors |-> AtRest]
  /\ given = {} /\ intruded = FALSE
  /\ ops = 0 /\ crashes = 0 /\ visits = 0

Goto(a, place) ==
  act' = IF place = "idle" THEN [act EXCEPT ![a] = AtRest]
         ELSE [act EXCEPT ![a].pc = place]

\* Enters the recovery of the requested name, to go on at `back` or, after
\* an error, at `fault`.
Inspecting(memory, back, fault) ==
  [memory EXCEPT !.pc = "recover", !.back = back, !.fault = fault]

Counters == <<ops, crashes, visits>>
Records  == <<row, sources, placed, given, Counters>>

At(a, place) == act[a].pc = place

Destination(a) == <<"name", act[a].name>>

-----------------------------------------------------------------------------
(* `recover_uncommitted_replacement`, which every inspection of the         *)
(* requested name starts with, and `rollback_replacement`.                  *)

\* A replacement that may be undone for an installation: its own, by the
\* marker, with the backup still there.  (Undoing whoever's replacement it is.)
MayUndoAnyones(found, i) == Exists(Replaced(found.replaces))
MayUndo(found, i) ==
  found.installation /\ found.of = i /\ Exists(Replaced(found.replaces))

\* Nothing to do without a replacement marker.
Recover(a) ==
  LET found == fs[Requested] IN
  /\ At(a, "recover")
  /\ IF HasReplacementMarker(Requested)
     THEN IF MayUndo(found, act[a].inst)
          THEN act' = [act EXCEPT ![a].pc = "reject", ![a].backup = found.replaces]
          ELSE Goto(a, act[a].fault)
     ELSE Goto(a, act[a].back)
  /\ UNCHANGED <<fs, intruded, Records>>

\* An actor moves away what is no longer the activation it looked at, or an
\* inspection undoes one that is still being prepared or was recorded after
\* the inspection looked for the record.
Intrudes(a) ==
  \/ fs[Requested].replaces # act[a].backup
  \/ /\ a = "inspect"
     /\ act["prepare"].op = act[a].backup \/ row[act[a].inst] # 0

Reject(a) ==
  /\ At(a, "reject")
  /\ \/ /\ CanRename(Requested, Rejected(a, act[a].backup))
        /\ Rename(Requested, Rejected(a, act[a].backup))
        /\ Goto(a, "restore")
        /\ intruded' = (intruded \/ Intrudes(a))
     \/ Goto(a, act[a].fault) /\ UNCHANGED <<fs, intruded>>
  /\ UNCHANGED Records

\* The backup goes back to its name; if it cannot, the rejected does.
Restore(a) ==
  LET backup   == Replaced(act[a].backup)
      rejected == Rejected(a, act[a].backup) IN
  /\ At(a, "restore")
  /\ \/ /\ CanRename(backup, Requested)
        /\ Rename(backup, Requested) /\ Goto(a, "drop")
     \/ TryRename(rejected, Requested) /\ Goto(a, act[a].fault)
  /\ UNCHANGED <<intruded, Records>>

Drop(a) ==
  /\ At(a, "drop")
  /\ RemovePath(Rejected(a, act[a].backup)) \/ UNCHANGED fs
  /\ Goto(a, act[a].back)
  /\ UNCHANGED <<intruded, Records>>

RollbackReplacement(a) == Recover(a) \/ Reject(a) \/ Restore(a) \/ Drop(a)

-----------------------------------------------------------------------------
(* `execute` and `extract`.                                                 *)

P == act["prepare"]

\* Claims the slot for an installation that is not prepared yet.
Start(i, policy) ==
  /\ At("prepare", "idle") /\ ops < MaxOps
  /\ i \in sources /\ row[i] = 0
  /\ ops' = ops + 1
  /\ act' = [act EXCEPT !["prepare"] =
               Inspecting([AtRest EXCEPT !.op = ops + 1, !.inst = i,
                                         !.policy = policy],
                          "preview", "idle")]
  /\ UNCHANGED <<fs, row, sources, placed, given, intruded, crashes, visits>>

\* The service looks whether the owner of the destination left the library.
Preview ==
  /\ At("prepare", "preview")
  /\ LET orphan == /\ P.policy = "ReplaceExisting"
                   /\ HasInstallationMarker(Requested) /\ fs[Requested].of = Orphan IN
     act' = [act EXCEPT !["prepare"] =
               Inspecting([P EXCEPT !.orphan = orphan], "select", "idle")]
  /\ UNCHANGED <<fs, intruded, Records>>

\* What lies there may be replaced: it carries no marker, or the marker of an
\* installation that left the library.
MayReplace ==
  /\ Exists(Requested)
  /\ HasInstallationMarker(Requested) =>
       P.orphan /\ fs[Requested].of = Orphan

\* The installer looks again and decides by the policy.
Select ==
  LET same == HasInstallationMarker(Requested) /\ fs[Requested].of = P.inst IN
  /\ At("prepare", "select")
  /\ \/ ~Exists(Requested) /\ Goto("prepare", "stage")
     \/ /\ Exists(Requested) /\ ~same
        /\ P.policy = "KeepBoth" /\ FreeAlternatives # {}
        /\ \E n \in FreeAlternatives :
             /\ \A m \in FreeAlternatives : n <= m
             /\ act' = [act EXCEPT !["prepare"].name = n, !["prepare"].pc = "stage"]
     \/ /\ P.policy = "ReplaceExisting" /\ MayReplace /\ ~same
        /\ Goto("prepare", "stage")
     \/ Goto("prepare", "idle")    \* refused, or no space on the disk
  /\ UNCHANGED <<fs, intruded, Records>>

\* The staging folder; without its marker when that cannot be written.
CreateStaging ==
  LET dir == [of |-> P.inst, whole |-> FALSE, tree |-> P.op, staging |-> TRUE,
              installation |-> FALSE, replaces |-> 0] IN
  /\ At("prepare", "stage")
  /\ \/ fs' = [fs EXCEPT ![Staging(P.op)] = dir] /\ Goto("prepare", "unpack")
     \/ /\ fs' = [fs EXCEPT ![Staging(P.op)] = [dir EXCEPT !.staging = FALSE]]
        /\ Goto("prepare", "idle")
     \/ UNCHANGED fs /\ Goto("prepare", "idle")
  /\ UNCHANGED <<intruded, Records>>

\* Unpacked, verified against the manifest, and no longer marked as staging;
\* an entry or the marker that is missing by then is an error.
Unpack ==
  LET dir == fs[Staging(P.op)] IN
  /\ At("prepare", "unpack")
  /\ \/ /\ Exists(Staging(P.op)) /\ dir.staging
        /\ fs' = [fs EXCEPT ![Staging(P.op)] =
                    [dir EXCEPT !.whole = TRUE, !.staging = FALSE]]
        /\ Goto("prepare", "mark")
     \/ UNCHANGED fs /\ Goto("prepare", "clear")
  /\ UNCHANGED <<intruded, Records>>

WriteMarker ==
  LET dir == fs[Staging(P.op)] IN
  /\ At("prepare", "mark")
  /\ \/ /\ Exists(Staging(P.op))
        /\ fs' = [fs EXCEPT ![Staging(P.op)] = [dir EXCEPT !.installation = TRUE]]
        /\ Goto("prepare", "activate")
     \/ UNCHANGED fs /\ Goto("prepare", "clear")
  /\ UNCHANGED <<intruded, Records>>

\* Last chance to cancel; something to replace is inspected a third time.
Activate ==
  /\ At("prepare", "activate")
  /\ \/ Goto("prepare", "clear")
     \/ /\ P.policy = "ReplaceExisting" /\ Exists(Requested)
        /\ act' = [act EXCEPT !["prepare"] = Inspecting(P, "replace", "clear")]
     \/ /\ ~(P.policy = "ReplaceExisting" /\ Exists(Requested))
        /\ Goto("prepare", "rename")
  /\ UNCHANGED <<fs, intruded, Records>>

\* `begin_replacement`: what is there is renamed away.
Replace ==
  /\ At("prepare", "replace")
  /\ \/ /\ MayReplace /\ CanRename(Requested, Replaced(P.op))
        /\ Rename(Requested, Replaced(P.op)) /\ Goto("prepare", "swap")
     \/ UNCHANGED fs /\ Goto("prepare", "clear")
  /\ UNCHANGED <<intruded, Records>>

WriteReplacementMarker ==
  LET dir == fs[Staging(P.op)] IN
  /\ At("prepare", "swap")
  /\ \/ /\ Exists(Staging(P.op))
        /\ fs' = [fs EXCEPT ![Staging(P.op)] = [dir EXCEPT !.replaces = P.op]]
        /\ act' = [act EXCEPT !["prepare"].pc = "rename",
                              !["prepare"].swapped = TRUE]
     \/ TryRename(Replaced(P.op), Requested) /\ Goto("prepare", "clear")
  /\ UNCHANGED <<intruded, Records>>

\* A rename that never replaces.  (One that does.)
MayActivateOver(target) == Exists(Staging(P.op))
MayActivate(target) == CanRename(Staging(P.op), target)

\* The activation.  A name that was taken in the meantime is another reason
\* to keep both, or an error.
RenameIntoPlace ==
  LET target == Destination("prepare") IN
  /\ At("prepare", "rename")
  /\ \/ /\ MayActivate(target)
        /\ Rename(Staging(P.op), target) /\ Goto("prepare", "activated")
     \/ /\ Exists(target) /\ P.policy = "KeepBoth" /\ FreeAlternatives # {}
        /\ \E n \in FreeAlternatives :
             /\ \A m \in FreeAlternatives : n <= m
             /\ act' = [act EXCEPT !["prepare"].name = n]
        /\ UNCHANGED fs
     \/ Goto("prepare", IF P.swapped THEN "undo" ELSE "clear") /\ UNCHANGED fs
  /\ UNCHANGED <<intruded, Records>>

\* `restore_replacement`: what was replaced goes back.
Undo ==
  LET unmarked ==
        IF Exists(Staging(P.op))
        THEN [fs EXCEPT ![Staging(P.op)] = [fs[Staging(P.op)] EXCEPT !.replaces = 0]]
        ELSE fs
  IN
  /\ At("prepare", "undo")
  /\ \/ /\ CanRename(Replaced(P.op), Requested)
        /\ fs' = [unmarked EXCEPT ![Replaced(P.op)] = Nothing,
                                  ![Requested] = fs[Replaced(P.op)]]
     \/ fs' = unmarked
     \/ UNCHANGED fs
  /\ Goto("prepare", "clear")
  /\ UNCHANGED <<intruded, Records>>

Clear ==
  /\ At("prepare", "clear")
  /\ RemovePath(Staging(P.op)) \/ UNCHANGED fs
  /\ Goto("prepare", "idle")
  /\ UNCHANGED <<intruded, Records>>

\* Cancelled after the activation, or not.
Activated ==
  /\ At("prepare", "activated")
  /\ Goto("prepare", "rollback") \/ Goto("prepare", "save")
  /\ UNCHANGED <<fs, intruded, Records>>

\* The installation is recorded; a write that fails undoes it.
SavePrepared ==
  /\ At("prepare", "save")
  /\ \/ /\ row' = [row EXCEPT ![P.inst] = P.name]
        /\ given' = given \cup (IF P.swapped /\ Exists(Replaced(P.op))
                                THEN {fs[Replaced(P.op)].of} ELSE {})
        /\ Goto("prepare", "commit")
     \/ Goto("prepare", "rollback") /\ UNCHANGED <<row, given>>
  /\ UNCHANGED <<fs, sources, placed, intruded, Counters>>

\* `rollback`: refuses what is not an installation, hands a replacement to
\* `rollback_replacement`, and deletes the rest.
Rollback ==
  LET target == Destination("prepare") IN
  /\ At("prepare", "rollback")
  /\ \/ ~HasInstallationMarker(target) /\ Goto("prepare", "idle") /\ UNCHANGED fs
     \/ /\ HasInstallationMarker(target) /\ HasReplacementMarker(target)
        /\ IF Exists(Replaced(fs[target].replaces))
           THEN act' = [act EXCEPT !["prepare"].pc = "reject",
                                   !["prepare"].backup = fs[target].replaces,
                                   !["prepare"].back = "idle",
                                   !["prepare"].fault = "idle"]
           ELSE Goto("prepare", "idle")
        /\ UNCHANGED fs
     \/ /\ HasInstallationMarker(target) /\ ~HasReplacementMarker(target)
        /\ RemovePath(target) \/ UNCHANGED fs
        /\ Goto("prepare", "idle")
  /\ UNCHANGED <<intruded, Records>>

-----------------------------------------------------------------------------
(* `commit_replacement`, of the preparation and of the cleanup.             *)

AfterCommit(a) == IF a = "prepare" THEN "sources" ELSE "sweep"

\* Where a commit goes from the marker it read.  (To the backup at once.)
BackupFirst == "discard"
MarkerFirst == "unmark"

Commit(a) ==
  /\ At(a, "commit")
  /\ IF HasReplacementMarker(Destination(a))
     THEN IF HasInstallationMarker(Destination(a))
          THEN act' = [act EXCEPT ![a].pc = MarkerFirst,
                                  ![a].backup = fs[Destination(a)].replaces]
          ELSE Goto(a, "idle")
     ELSE Goto(a, AfterCommit(a))
  /\ UNCHANGED <<fs, intruded, Records>>

\* The marker goes first: without it nothing rolls the replacement back.
Unmark(a) ==
  LET target == Destination(a) IN
  /\ At(a, "unmark")
  /\ \/ /\ HasReplacementMarker(target)
        /\ fs' = [fs EXCEPT ![target] = [fs[target] EXCEPT !.replaces = 0]]
        /\ Goto(a, "discard")
     \/ Goto(a, "idle") /\ UNCHANGED fs
  /\ UNCHANGED <<intruded, Records>>

Discard(a) ==
  /\ At(a, "discard")
  /\ RemovePath(Replaced(act[a].backup)) \/ UNCHANGED fs
  /\ Goto(a, AfterCommit(a))
  /\ UNCHANGED <<intruded, Records>>

\* The verified sources go if the user chose so and they can be deleted.
DeleteSources ==
  /\ At("prepare", "sources")
  /\ sources' = sources \ {P.inst} \/ UNCHANGED sources
  /\ Goto("prepare", "idle")
  /\ UNCHANGED <<fs, row, placed, given, intruded, Counters>>

PrepareStep ==
  \/ RollbackReplacement("prepare") \/ Preview \/ Select \/ CreateStaging
  \/ Unpack \/ WriteMarker \/ Activate \/ Replace \/ WriteReplacementMarker
  \/ RenameIntoPlace \/ Undo \/ Clear \/ Activated \/ SavePrepared \/ Rollback
  \/ Commit("prepare") \/ Unmark("prepare") \/ Discard("prepare")
  \/ DeleteSources

-----------------------------------------------------------------------------
(* Commands next to the preparation.                                        *)

\* The interface asks what lies at the destination of an installation.  Only
\* the database is asked whether it is prepared, not the running preparation.
InspectDestination(i) ==
  /\ At("inspect", "idle") /\ row[i] = 0
  /\ act' = [act EXCEPT !["inspect"] =
               Inspecting([AtRest EXCEPT !.inst = i], "idle", "idle")]
  /\ UNCHANGED <<fs, intruded, Records>>

\* The cleanup starts only while no preparation is active.
StartCleanup ==
  /\ At("cleanup", "idle") /\ At("prepare", "idle")
  /\ Goto("cleanup", "list")
  /\ UNCHANGED <<fs, intruded, Records>>

\* The names recorded in this folder.
RecordedNames == {row[i] : i \in Installations} \ {0}

\* It reads the recorded destinations; without any there is nothing to clean.
List ==
  /\ At("cleanup", "list")
  /\ IF RecordedNames = {} THEN Goto("cleanup", "idle")
     ELSE act' = [act EXCEPT !["cleanup"].pc = "sweep",
                             !["cleanup"].todo = RecordedNames]
  /\ UNCHANGED <<fs, intruded, Records>>

\* Pending replacements of recorded destinations are committed, then the
\* staging folders that carry a marker are deleted.  A preparation may have
\* started since the cleanup looked for one, and its folder carries one too.
Sweep ==
  LET todo == act["cleanup"].todo IN
  /\ At("cleanup", "sweep")
  /\ \/ \E n \in todo :
          act' = [act EXCEPT !["cleanup"].pc = "commit", !["cleanup"].name = n,
                             !["cleanup"].todo = todo \ {n}]
     \/ /\ todo = {}
        /\ \E op \in Ops :
             /\ Exists(Staging(op)) /\ fs[Staging(op)].staging
             /\ act' = [act EXCEPT !["cleanup"].pc = "delete", !["cleanup"].op = op]
     \/ todo = {} /\ Goto("cleanup", "idle")
  /\ UNCHANGED <<fs, intruded, Records>>

\* A directory without one entry more: without all of its files, or a marker.
Remnants(dir) ==
  {[dir EXCEPT !.whole = FALSE], [dir EXCEPT !.staging = FALSE],
   [dir EXCEPT !.installation = FALSE], [dir EXCEPT !.replaces = 0]}

\* The tree it takes an entry of is of the running preparation, or has been
\* activated since it was opened.
Tears(p) == p # Staging(act["cleanup"].op) \/ act["cleanup"].op = P.op

\* `remove_dir_all` takes the entries of the tree it opened one by one, also
\* when the tree is renamed in the meantime.
DeleteEntry ==
  /\ At("cleanup", "delete")
  /\ \E p \in Paths :
       /\ Exists(p) /\ fs[p].tree = act["cleanup"].op
       /\ \E remnant \in Remnants(fs[p]) \ {fs[p]} : fs' = [fs EXCEPT ![p] = remnant]
       /\ intruded' = (intruded \/ Tears(p))
  /\ UNCHANGED <<act, Records>>

IsEmpty(dir) == ~dir.whole /\ ~dir.staging /\ ~dir.installation /\ dir.replaces = 0

\* In the end it takes the folder, if nothing has been written into it since;
\* an error ends the cleanup.
DeleteStaging ==
  LET p == Staging(act["cleanup"].op) IN
  /\ At("cleanup", "delete")
  /\ \/ (Exists(p) => IsEmpty(fs[p])) /\ RemovePath(p) /\ Goto("cleanup", "sweep")
     \/ UNCHANGED fs /\ Goto("cleanup", "idle")
  /\ UNCHANGED <<intruded, Records>>

CleanupStep ==
  \/ List \/ Sweep \/ DeleteEntry \/ DeleteStaging
  \/ Commit("cleanup") \/ Unmark("cleanup") \/ Discard("cleanup")

-----------------------------------------------------------------------------
(* The world.                                                               *)

\* Another program or the user puts a folder at the requested name.
Visit ==
  /\ visits < MaxVisits /\ visits' = visits + 1
  /\ ~Exists(Requested) /\ Visitor \notin placed
  /\ fs' = [fs EXCEPT ![Requested] = Folder(Visitor)]
  /\ placed' = placed \cup {Visitor}
  /\ UNCHANGED <<row, sources, act, given, intruded, ops, crashes>>

\* The launcher is closed or killed; files and database stay.
Crash ==
  /\ crashes < MaxCrashes /\ crashes' = crashes + 1
  /\ act' = [a \in Actors |-> AtRest]
  /\ UNCHANGED <<fs, row, sources, placed, given, intruded, ops, visits>>

Next ==
  \/ \E i \in Installations, policy \in Policies : Start(i, policy)
  \/ PrepareStep
  \/ \E i \in Installations : InspectDestination(i)
  \/ RollbackReplacement("inspect")
  \/ StartCleanup \/ CleanupStep
  \/ Visit \/ Crash

Spec == Init /\ [][Next]_vars

-----------------------------------------------------------------------------
(* What holds.                                                              *)

Holds(p, content) == Exists(p) /\ fs[p].of = content

\* The whole installation is in the destination folder under some name.
Installed(i) ==
  \E p \in Names : Holds(p, i) /\ fs[p].whole /\ fs[p].installation

\* What the user had at the destination is on the disk until an installation
\* that replaces it is recorded, wherever the launcher stops and whichever
\* rename fails (`begin_replacement`, `restore_replacement`, `rollback`).
UserContentKept ==
  \A content \in placed :
    \/ content \in given
    \/ \E p \in Paths : Holds(p, content)
    \/ intruded

\* A recorded installation is complete at its recorded name: rollbacks,
\* recoveries, cleanups and later preparations never take it away again.
\* (Without `intruded` this fails in the code: the cleanup looks for a running
\* preparation once, before it opens the staging folders, and a tree that it
\* takes entries of can be activated and recorded in the meantime.)
PreparedIsInstalled ==
  \A i \in Installations : row[i] # 0 =>
    \/ intruded
    \/ LET p == <<"name", row[i]>> IN
       Holds(p, i) /\ fs[p].whole /\ fs[p].installation

\* A replacement that is not committed can still be undone: the marker in a
\* destination goes with an existing backup (`commit_replacement` removes
\* the marker first, `rollback_replacement` moves it away first).
ReplacementCanBeUndone ==
  \A p \in Names :
    HasReplacementMarker(p) => Exists(Replaced(fs[p].replaces)) \/ intruded

=============================================================================
