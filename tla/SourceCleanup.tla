------------------------------ MODULE SourceCleanup ------------------------------
(***************************************************************************)
(* Deleting the archives of an installed package: the volumes are renamed  *)
(* into a quarantine folder beside them, which is then removed as one; and *)
(* the cleanup that puts back what an interrupted deletion left there.     *)
(*                                                                         *)
(* Source: quarantine_and_delete_sources and restore_quarantined_sources   *)
(* of dla-archive/src/installer.rs, restore_source_quarantines of          *)
(* dla-archive/src/maintenance.rs.  The marker in the quarantine names the *)
(* volumes of the set.  The cleanup refuses to start while a preparation   *)
(* is active, and a preparation does not look for a cleanup.               *)
(***************************************************************************)
EXTENDS Naturals, FiniteSets

CONSTANTS
    Volumes,           \* volumes of the set
    MaxSets,           \* bound: deletions, each with a quarantine of its own
    MaxCleanupFaults,  \* bound: file operations that fail, files of the user
    MaxCleanupCrashes  \* bound: stops of the launcher

VARIABLES
    beside,   \* volumes in their folder: "none", "ours" or "other", a file of that name
    boxes,    \* the quarantine folders: [there, marker, files]
    deleter,  \* the deletion that runs: its quarantine, the volumes moved, where it is
    cleaner,  \* the cleanup that runs: the quarantine it looks at, what it found
    cleanupFaults, cleanupCrashes,
    restored  \* history: the last cleanup emptied a quarantine, and nobody touched the set since

cleanupVars == <<beside, boxes, deleter, cleaner, cleanupFaults, cleanupCrashes, restored>>

Sets == 1..MaxSets
NoBox == [there |-> FALSE, marker |-> FALSE, files |-> {}]
NoDeleter == [at |-> "none", box |-> 0, moved |-> {}]
NoCleaner == [at |-> "none", box |-> 0, recover |-> {}, alone |-> TRUE]

CleanupTypeOK ==
    /\ beside \in [Volumes -> {"none", "ours", "other"}]
    /\ boxes \in [Sets -> [there : BOOLEAN, marker : BOOLEAN, files : SUBSET Volumes]]
    /\ deleter.at \in {"none", "mark", "move", "remove", "removing", "undo"}
    /\ deleter.box \in 0..MaxSets /\ deleter.moved \subseteq Volumes
    /\ cleaner.at \in {"none", "judge", "recover", "unmark"}
    /\ cleaner.box \in 0..MaxSets /\ cleaner.recover \subseteq Volumes /\ cleaner.alone \in BOOLEAN
    /\ cleanupFaults \in 0..MaxCleanupFaults /\ cleanupCrashes \in 0..MaxCleanupCrashes /\ restored \in BOOLEAN

CleanupInit ==
    /\ beside = [v \in Volumes |-> "ours"] /\ boxes = [s \in Sets |-> NoBox]
    /\ deleter = NoDeleter /\ cleaner = NoCleaner
    /\ cleanupFaults = 0 /\ cleanupCrashes = 0 /\ restored = FALSE

CleanupFault == cleanupFaults < MaxCleanupFaults /\ cleanupFaults' = cleanupFaults + 1
Fails(fails) == IF fails THEN CleanupFault ELSE UNCHANGED cleanupFaults
Box == boxes[deleter.box]
Put(s, box) == boxes' = [boxes EXCEPT ![s] = box]
Later == deleter' = NoDeleter
Touched == restored' = FALSE /\ cleaner' = [cleaner EXCEPT !.alone = cleaner.at = "none"]

-----------------------------------------------------------------------------
(* quarantine_and_delete_sources                                           *)

\* The sources resolve, and the folder is created.
StartDelete ==
    /\ deleter.at = "none" /\ \A v \in Volumes : beside[v] # "none"
    /\ \E s \in Sets :
         /\ ~boxes[s].there /\ \A t \in Sets : t < s => boxes[t].there
         /\ Put(s, [NoBox EXCEPT !.there = TRUE])
         /\ deleter' = [at |-> "mark", box |-> s, moved |-> {}]
    /\ Touched
    /\ UNCHANGED <<beside, cleanupFaults, cleanupCrashes>>

WriteSetMarker(fails) ==
    /\ deleter.at = "mark" /\ Fails(fails)
    /\ IF fails \/ ~Box.there THEN Later /\ UNCHANGED boxes
       ELSE Put(deleter.box, [Box EXCEPT !.marker = TRUE]) /\ deleter' = [deleter EXCEPT !.at = "move"]
    /\ UNCHANGED <<beside, cleaner, cleanupCrashes, restored>>

\* The next volume; one that cannot be moved brings the others back.
MoveVolume(v, fails) ==
    /\ deleter.at = "move" /\ v \notin deleter.moved /\ Fails(fails)
    /\ IF fails \/ ~Box.there \/ beside[v] = "none"
       THEN deleter' = [deleter EXCEPT !.at = "undo"] /\ UNCHANGED <<beside, boxes>>
       ELSE /\ beside' = [beside EXCEPT ![v] = "none"]
            /\ Put(deleter.box, [Box EXCEPT !.files = @ \cup {v}])
            /\ deleter' = [deleter EXCEPT !.moved = @ \cup {v},
                             !.at = IF deleter.moved \cup {v} = Volumes THEN "remove" ELSE "move"]
    /\ UNCHANGED <<cleaner, cleanupCrashes, restored>>

\* remove_dir_all: some of the entries, then the rest, or what is left is brought back.
BeginRemoveVolume ==
    /\ deleter.at = "remove"
    /\ \E left \in SUBSET Box.files, m \in {FALSE, Box.marker} :
         Put(deleter.box, [Box EXCEPT !.files = left, !.marker = m])
    /\ deleter' = [deleter EXCEPT !.at = "removing"]
    /\ UNCHANGED <<beside, cleaner, cleanupFaults, cleanupCrashes, restored>>

EndRemoveVolume(fails) ==
    /\ deleter.at = "removing" /\ Fails(fails)
    /\ IF fails \/ ~Box.there
       THEN deleter' = [deleter EXCEPT !.at = "undo"] /\ UNCHANGED boxes
       ELSE Put(deleter.box, NoBox) /\ Later
    /\ UNCHANGED <<beside, cleaner, cleanupCrashes, restored>>

\* restore_quarantined_sources: every volume is tried; a rename replaces what is there.
UndoSet(stays) ==
    /\ deleter.at = "undo" /\ stays \subseteq deleter.moved
    /\ Fails(stays # {})
    /\ LET back == (deleter.moved \cap Box.files) \ stays
           whole == back = deleter.moved
       IN /\ beside' = [v \in Volumes |-> IF v \in back THEN "ours" ELSE beside[v]]
          /\ Put(deleter.box, IF whole /\ Box.files \subseteq back THEN NoBox
                              ELSE [Box EXCEPT !.files = @ \ back, !.marker = @ /\ ~whole])
    /\ Later
    /\ UNCHANGED <<cleaner, cleanupCrashes, restored>>

-----------------------------------------------------------------------------
(* restore_source_quarantine                                               *)

BeginCleanup(s) ==
    /\ cleaner.at = "none" /\ deleter.at = "none" /\ boxes[s].there
    /\ cleaner' = [NoCleaner EXCEPT !.at = "judge", !.box = s]
    /\ UNCHANGED <<beside, boxes, deleter, cleanupFaults, cleanupCrashes, restored>>

\* (Wrong form.)  What is in the quarantine is put back, whatever became of the rest.
JudgeAny(s) == {v \in boxes[s].files : beside[v] = "none"}

\* Every volume of the marker is in one of the two places, or nothing is put back.
Judged(s) ==
    IF \A v \in Volumes : v \in boxes[s].files <=> beside[v] = "none"
    THEN boxes[s].files ELSE {}

Judge ==
    /\ cleaner.at = "judge"
    /\ LET s == cleaner.box
           found == IF boxes[s].there /\ boxes[s].marker THEN Judged(s) ELSE {}
           settled == boxes[s].marker /\ boxes[s].files = {} /\ \A v \in Volumes : beside[v] # "none"
       IN cleaner' = IF found # {} THEN [cleaner EXCEPT !.at = "recover", !.recover = found]
                     ELSE IF settled THEN [cleaner EXCEPT !.at = "unmark"] ELSE NoCleaner
    /\ UNCHANGED <<beside, boxes, deleter, cleanupFaults, cleanupCrashes, restored>>

\* A rename that fails ends the cleanup; it replaces a file that came in between.
RecoverSet(v, fails) ==
    /\ cleaner.at = "recover" /\ v \in cleaner.recover /\ Fails(fails)
    /\ LET s == cleaner.box
           rest == cleaner.recover \ {v}
       IN IF fails \/ v \notin boxes[s].files THEN cleaner' = NoCleaner /\ UNCHANGED <<beside, boxes>>
          ELSE /\ beside' = [beside EXCEPT ![v] = "ours"]
               /\ Put(s, [boxes[s] EXCEPT !.files = @ \ {v}])
               /\ cleaner' = [cleaner EXCEPT !.recover = rest,
                                !.at = IF rest = {} THEN "unmark" ELSE "recover"]
    /\ UNCHANGED <<deleter, cleanupCrashes, restored>>

\* The marker and then the folder, which must be empty by now.
UnmarkSet(fails) ==
    /\ cleaner.at = "unmark" /\ Fails(fails)
    /\ LET s == cleaner.box
       IN IF fails \/ ~boxes[s].marker THEN UNCHANGED <<boxes, restored>>
          ELSE /\ Put(s, IF boxes[s].files = {} THEN NoBox ELSE [boxes[s] EXCEPT !.marker = FALSE])
               /\ restored' = (cleaner.alone /\ boxes[s].files = {})
    /\ cleaner' = NoCleaner
    /\ UNCHANGED <<beside, deleter, cleanupCrashes>>

-----------------------------------------------------------------------------
\* The user deletes a volume, or another file takes its name.
CleanupUserActs(v, file) ==
    /\ CleanupFault /\ beside[v] # file /\ file # "ours"
    /\ beside' = [beside EXCEPT ![v] = file]
    /\ Touched
    /\ UNCHANGED <<boxes, deleter, cleanupCrashes>>

CleanupStop ==
    /\ cleanupCrashes < MaxCleanupCrashes /\ cleanupCrashes' = cleanupCrashes + 1
    /\ deleter' = NoDeleter /\ cleaner' = NoCleaner
    /\ UNCHANGED <<beside, boxes, cleanupFaults, restored>>

CleanupNext ==
    \/ StartDelete \/ BeginRemoveVolume \/ Judge \/ CleanupStop
    \/ \E fails \in BOOLEAN :
         \/ WriteSetMarker(fails) \/ EndRemoveVolume(fails) \/ UnmarkSet(fails)
         \/ \E v \in Volumes : MoveVolume(v, fails) \/ RecoverSet(v, fails)
    \/ \E stays \in SUBSET Volumes : UndoSet(stays)
    \/ \E s \in Sets : BeginCleanup(s)
    \/ \E v \in Volumes, file \in {"none", "other"} : CleanupUserActs(v, file)

CleanupSpec == CleanupInit /\ [][CleanupNext]_cleanupVars

-----------------------------------------------------------------------------
\* A cleanup that put back what was in a quarantine has put back a whole set: a part of a
\* set, of which a deletion had already removed the rest, stays in the quarantine.
RestoredSetIsWhole == restored => \A v \in Volumes : beside[v] # "none"

=============================================================================
