----------------------------- MODULE FolderTransfer -----------------------------
(***************************************************************************)
(* Bringing a work's folder, or a single file, into the install folder: a  *)
(* rename that replaces nothing on the same drive, otherwise a copy into a *)
(* staging folder that is checked, renamed into place, and only then       *)
(* removed from where it was.                                              *)
(*                                                                         *)
(* Source: dla-archive/src/folder_transfer.rs.  The runner of a cancelled  *)
(* batch may still move a work that the next batch moves too, under the    *)
(* same name or another, so several movers share the source.  A file is    *)
(* copied whole or not at all; the check of free space is a fault.         *)
(***************************************************************************)
EXTENDS Naturals, FiniteSets

CONSTANTS
    WorkFiles,      \* files of the work
    Movers,         \* transfers of it
    MoveNames,      \* destination names they may choose
    MaxMoveFaults,  \* bound: file operations that fail, folders of other programs
    MaxMoveCrashes  \* bound: stops of the launcher

VARIABLES
    single,   \* the source is a file, not a folder
    source,   \* files at the source; a folder without any is gone
    place,    \* what is under each destination name: Free or a set of files
    staging,  \* the staging folder of each mover: Free or a set of files
    mover,    \* where each transfer is, with the files it listed
    cancel,   \* movers whose batch was cancelled
    moveFaults, moveCrashes,
    owed      \* history: files the work had while no transfer of it ran

moveVars == <<single, source, place, staging, mover, cancel, moveFaults, moveCrashes, owed>>

Free == [there |-> FALSE, files |-> {}]
Holding(fs) == [there |-> TRUE, files |-> fs]
NoMove == [at |-> "idle", name |-> "none", listed |-> {}]

MoveTypeOK ==
    /\ single \in BOOLEAN /\ source \subseteq WorkFiles /\ owed \subseteq WorkFiles
    /\ place \in [MoveNames -> [there : BOOLEAN, files : SUBSET WorkFiles]]
    /\ staging \in [Movers -> [there : BOOLEAN, files : SUBSET WorkFiles]]
    /\ \A m \in Movers :
         /\ mover[m].at \in {"idle", "list", "mode", "enter", "copy", "verify", "rename",
                             "abandon", "remove", "removing", "ended"}
         /\ mover[m].listed \subseteq WorkFiles
    /\ cancel \subseteq Movers /\ moveFaults \in 0..MaxMoveFaults /\ moveCrashes \in 0..MaxMoveCrashes

MoveInit ==
    /\ single \in BOOLEAN
    /\ source \in IF single THEN {{f} : f \in WorkFiles} ELSE SUBSET WorkFiles \ {{}}
    /\ place = [n \in MoveNames |-> Free] /\ staging = [m \in Movers |-> Free]
    /\ mover = [m \in Movers |-> NoMove]
    /\ cancel = {} /\ moveFaults = 0 /\ moveCrashes = 0 /\ owed = source

MoverAt(m, at) == mover[m].at = at
GoesTo(m, at) == mover' = [mover EXCEPT ![m].at = at]
Ended == [NoMove EXCEPT !.at = "ended"]
Ends(m) == mover' = [mover EXCEPT ![m] = Ended]
MoveFault == moveFaults < MaxMoveFaults /\ moveFaults' = moveFaults + 1

-----------------------------------------------------------------------------
\* transfer: the name is free, the source is there.
StartMove(m, n) ==
    /\ MoverAt(m, "idle")
    /\ mover' = [mover EXCEPT ![m] =
         IF place[n].there \/ source = {} THEN Ended ELSE [at |-> "list", name |-> n, listed |-> {}]]
    /\ UNCHANGED <<single, source, place, staging, cancel, moveFaults, moveCrashes, owed>>

\* list_files: every file of the work.
ListFiles(m) ==
    /\ MoverAt(m, "list")
    /\ mover' = [mover EXCEPT ![m] =
         IF m \in cancel \/ source = {} THEN Ended
         ELSE [at |-> "mode", name |-> @.name, listed |-> source]]
    /\ UNCHANGED <<single, source, place, staging, cancel, moveFaults, moveCrashes, owed>>

\* The same drive: the folder is renamed and replaces nothing.
RenameFolder(m) ==
    /\ MoverAt(m, "mode") /\ ~single
    /\ IF source = {} \/ place[mover[m].name].there
       THEN UNCHANGED <<source, place>>
       ELSE /\ place' = [place EXCEPT ![mover[m].name] = Holding(source)]
            /\ source' = {}
    /\ Ends(m)
    /\ UNCHANGED <<single, staging, cancel, moveFaults, moveCrashes, owed>>

\* A single file gets a folder of its own first.
CreateFolder(m) ==
    /\ MoverAt(m, "mode") /\ single
    /\ IF place[mover[m].name].there THEN Ends(m) /\ UNCHANGED place
       ELSE /\ place' = [place EXCEPT ![mover[m].name] = Holding({})]
            /\ GoesTo(m, "enter")
    /\ UNCHANGED <<single, source, staging, cancel, moveFaults, moveCrashes, owed>>

\* The file is renamed into it; when that fails the folder goes, if it is empty, and a
\* failure that says that the drives differ leads to the copy.
EnterFolder(m, fails, crosses) ==
    /\ MoverAt(m, "enter")
    /\ fails => MoveFault
    /\ ~fails => UNCHANGED moveFaults
    /\ LET n == mover[m].name
           empty == place[n].there /\ place[n].files = {}
       IN IF fails \/ source = {} \/ ~place[n].there
          THEN /\ place' = IF empty THEN [place EXCEPT ![n] = Free] ELSE place
               /\ GoesTo(m, IF fails /\ crosses THEN "copy" ELSE "ended")
               /\ UNCHANGED source
          ELSE /\ place' = [place EXCEPT ![n] = Holding(@.files \cup source)]
               /\ source' = {} /\ Ends(m)
    /\ UNCHANGED <<single, staging, cancel, moveCrashes, owed>>

\* Another drive, or one that turns out to be another: a staging folder.
CreateMoveStaging(m) ==
    /\ MoverAt(m, "mode") \/ (MoverAt(m, "copy") /\ ~staging[m].there)
    /\ staging' = [staging EXCEPT ![m] = Holding({})]
    /\ GoesTo(m, "copy")
    /\ UNCHANGED <<single, source, place, cancel, moveFaults, moveCrashes, owed>>

\* copy_files: the next listed file; it may have gone, or the write fails.
CopyFile(m, fails) ==
    /\ MoverAt(m, "copy") /\ staging[m].there
    /\ fails => MoveFault
    /\ ~fails => UNCHANGED moveFaults
    /\ LET left == mover[m].listed \ staging[m].files
       IN IF fails \/ (m \in cancel /\ left # {}) THEN GoesTo(m, "abandon") /\ UNCHANGED staging
          ELSE IF left = {} THEN GoesTo(m, "verify") /\ UNCHANGED staging
          ELSE \E f \in left :
                 IF f \in source
                 THEN staging' = [staging EXCEPT ![m].files = @ \cup {f}] /\ UNCHANGED mover
                 ELSE GoesTo(m, "abandon") /\ UNCHANGED staging
    /\ UNCHANGED <<single, source, place, cancel, moveCrashes, owed>>

\* verify_copy, and the last look at the cancellation.
VerifyCopy(m) ==
    /\ MoverAt(m, "verify")
    /\ GoesTo(m, IF staging[m].files = mover[m].listed /\ m \notin cancel THEN "rename" ELSE "abandon")
    /\ UNCHANGED <<single, source, place, staging, cancel, moveFaults, moveCrashes, owed>>

\* (Wrong form.)  The original goes before the copy has its name.
PlaceAfterRemoval(m) ==
    /\ MoverAt(m, "rename")
    /\ source' = {}
    /\ IF place[mover[m].name].there THEN GoesTo(m, "abandon") /\ UNCHANGED <<place, staging>>
       ELSE /\ place' = [place EXCEPT ![mover[m].name] = staging[m]]
            /\ staging' = [staging EXCEPT ![m] = Free]
            /\ GoesTo(m, "remove")
    /\ UNCHANGED <<single, cancel, moveFaults, moveCrashes, owed>>

\* The rename replaces nothing.
PlaceCopy(m) ==
    /\ MoverAt(m, "rename")
    /\ IF place[mover[m].name].there THEN GoesTo(m, "abandon") /\ UNCHANGED <<place, staging>>
       ELSE /\ place' = [place EXCEPT ![mover[m].name] = staging[m]]
            /\ staging' = [staging EXCEPT ![m] = Free]
            /\ GoesTo(m, "remove")
    /\ UNCHANGED <<single, source, cancel, moveFaults, moveCrashes, owed>>

\* Every failure of the copy tries to remove the staging folder; nothing ever looks at it
\* again.
AbandonMove(m) ==
    /\ MoverAt(m, "abandon")
    /\ staging' = [staging EXCEPT ![m] = Free]
    /\ Ends(m)
    /\ UNCHANGED <<single, source, place, cancel, moveFaults, moveCrashes, owed>>

\* remove_dir_all or remove_file: part of the source, then the rest or an error, which
\* is a warning of the result.
BeginRemoveTree(m) ==
    /\ MoverAt(m, "remove")
    /\ \E left \in SUBSET source : source' = left
    /\ GoesTo(m, "removing")
    /\ UNCHANGED <<single, place, staging, cancel, moveFaults, moveCrashes, owed>>

EndRemoveTree(m) ==
    /\ MoverAt(m, "removing")
    /\ \/ source' = {} /\ UNCHANGED moveFaults
       \/ MoveFault /\ UNCHANGED source
    /\ Ends(m)
    /\ UNCHANGED <<single, place, staging, cancel, moveCrashes, owed>>

-----------------------------------------------------------------------------
\* The cancellation is looked at before the transfer, in the copy and after its check.
Cancel(m) ==
    /\ mover[m].at \in {"list", "copy", "verify"} /\ m \notin cancel
    /\ cancel' = cancel \cup {m}
    /\ UNCHANGED <<single, source, place, staging, mover, moveFaults, moveCrashes, owed>>

\* The user, or a program, writes a file into the source folder.
AddFile(f) ==
    /\ ~single /\ source # {} /\ f \notin source
    /\ source' = source \cup {f}
    /\ owed' = IF \E m \in Movers : ~MoverAt(m, "idle") THEN owed ELSE owed \cup {f}
    /\ UNCHANGED <<single, place, staging, mover, cancel, moveFaults, moveCrashes>>

\* Another program takes a destination name.
TakeName(n) ==
    /\ ~place[n].there /\ MoveFault
    /\ place' = [place EXCEPT ![n] = Holding({})]
    /\ UNCHANGED <<single, source, staging, mover, cancel, moveCrashes, owed>>

MoveStop ==
    /\ moveCrashes < MaxMoveCrashes /\ moveCrashes' = moveCrashes + 1
    /\ mover' = [m \in Movers |-> NoMove] /\ cancel' = {}
    /\ staging' = [m \in Movers |-> Free]
    /\ UNCHANGED <<single, source, place, moveFaults, owed>>

MoveNext ==
    \/ \E m \in Movers :
         \/ \E n \in MoveNames : StartMove(m, n)
         \/ ListFiles(m) \/ RenameFolder(m) \/ CreateFolder(m)
         \/ \E fails, crosses \in BOOLEAN : EnterFolder(m, fails, crosses)
         \/ CreateMoveStaging(m) \/ VerifyCopy(m) \/ PlaceCopy(m) \/ AbandonMove(m)
         \/ \E fails \in BOOLEAN : CopyFile(m, fails)
         \/ BeginRemoveTree(m) \/ EndRemoveTree(m) \/ Cancel(m)
    \/ \E f \in WorkFiles : AddFile(f)
    \/ \E n \in MoveNames : TakeName(n)
    \/ MoveStop

MoveSpec == MoveInit /\ [][MoveNext]_moveVars

-----------------------------------------------------------------------------
\* folder_transfer.rs says that a failure or a cancel leaves the original untouched: every
\* file of a work is at the source or in the install folder, whatever fails, whoever stops
\* it and whoever else moves the same work.  Not claimed for files that were added while a
\* transfer ran (see the README).
WorkSurvives == owed \subseteq source \cup UNION {place[n].files : n \in MoveNames}

=============================================================================
