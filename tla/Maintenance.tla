------------------------------ MODULE Maintenance ------------------------------
(***************************************************************************)
(* Verifying, repairing, relocating, uninstalling a managed installation,  *)
(* and the cleanup of what interrupted operations left beside it.          *)
(*                                                                         *)
(* Source: dla-application/src/maintenance.rs, dla-archive/src/            *)
(* maintenance.rs, DesktopPackageInstaller::repair in dla-archive/src/     *)
(* installer.rs, dla-sqlite/src/maintenance.rs and the commands of         *)
(* src-tauri/src/commands.rs.  Commands are threads of their own: nothing  *)
(* keeps a cleanup, a repair and an uninstall from overlapping, since only *)
(* preparations are registered as active.  remove_dir_all is two steps, a  *)
(* part of the files and then the rest, and works on the folder it opened: *)
(* a rename in between takes what is left along.                           *)
(* One installation, prepared from archives by the launcher, while nothing *)
(* of it runs and no preparation is active (ensure_idle and                *)
(* ensure_not_preparing refuse the commands otherwise).  Not here:         *)
(* uncommitted replacements (PackageInstall) and the detection a rescan    *)
(* stores (Installations).                                                 *)
(***************************************************************************)
EXTENDS Naturals, FiniteSets

CONSTANTS
    UnpackedFiles,    \* files of the unpacked package
    Callers,          \* threads that run a command
    MaxRepairs,       \* bound: repairs, each with names of its own
    MaxActs,          \* bound: what the user verifies, relocates, moves and deletes
    MaxUpkeepCrashes  \* bound: stops of the launcher

ASSUME UpkeepBounds == MaxRepairs \in Nat /\ MaxActs \in Nat /\ MaxUpkeepCrashes \in Nat

VARIABLES
    folder,                        \* what is on disk under each name, or NoFolder
    preparedRow,                   \* the prepared package: its destination_root, or NoRow
    archives,                      \* the source volumes are readable
    command,                       \* what each thread does, or NoCommand
    health,                        \* state of the stored InstallationHealthReport
    repairs, acts, upkeepCrashes,  \* bounds spent
    lost,                          \* history: files the user deleted from the installation
    ended                          \* history: why the installation need not be on the disk any more

upkeepVars == <<folder, preparedRow, archives, command, health, repairs, acts, upkeepCrashes, lost, ended>>
disk == <<folder, lost, ended>>
user == <<archives, acts, upkeepCrashes>>

\* The names in the destination's own directory, and one elsewhere.
Dest == <<"dest", 0>>
Away == <<"away", 0>>
Left(kind, k) == <<kind, k>>
Leftovers == {"stage", "repair", "backup"} \X (1..MaxRepairs)
UpkeepNames == {Dest, Away} \cup Leftovers
NoFolder == [marker |-> "nothing", files |-> {}, fading |-> FALSE]
FolderOf(marker, files) == [marker |-> marker, files |-> files, fading |-> FALSE]
NoRow == <<"none", 0>>
NoCommand == [kind |-> "idle", at |-> "start"]

UpkeepTypeOK ==
    /\ folder \in [UpkeepNames -> [marker : {"nothing", "none", "stage", "own", "foreign"},
                                   files : SUBSET UnpackedFiles, fading : BOOLEAN]]
    /\ preparedRow \in UpkeepNames \cup {NoRow} /\ archives \in BOOLEAN
    /\ \A c \in Callers : command[c].kind \in {"idle", "repair", "cleanup", "uninstall",
                                                "relocate"}
    /\ health \in {"unknown", "healthy", "missing_files", "moved", "repairable"}
    /\ repairs \in 0..MaxRepairs /\ acts \in 0..MaxActs /\ upkeepCrashes \in 0..MaxUpkeepCrashes
    /\ lost \subseteq UnpackedFiles /\ ended \subseteq {"uninstalled", "chosen", "raced"}

UpkeepInit ==
    /\ folder = [n \in UpkeepNames |-> IF n = Dest THEN FolderOf("own", UnpackedFiles) ELSE NoFolder]
    /\ preparedRow = Dest /\ archives = TRUE
    /\ command = [c \in Callers |-> NoCommand] /\ health = "unknown"
    /\ repairs = 0 /\ acts = 0 /\ upkeepCrashes = 0 /\ lost = {} /\ ended = {}

OnDisk(n) == folder[n] # NoFolder
\* validate_owned_installation: a folder whose marker names this installation.
Owned(n) == folder[n].marker = "own"
InParent(n) == n # Away
CallerAt(c, kind, at) == command[c].kind = kind /\ command[c].at = at
CallerGoes(c, at) == command' = [command EXCEPT ![c].at = at]
Done(c) == command' = [command EXCEPT ![c] = NoCommand]
Begin(c, o) == command[c] = NoCommand /\ command' = [command EXCEPT ![c] = o]

\* A rename takes along a folder that somebody is in the middle of removing.
Renamed(from, to) ==
    /\ folder' = [folder EXCEPT ![to] = folder[from], ![from] = NoFolder]
    /\ ended' = IF folder[from].fading THEN ended \cup {"raced"} ELSE ended
    /\ UNCHANGED lost

UpkeepActs == acts < MaxActs /\ acts' = acts + 1

-----------------------------------------------------------------------------
(* remove_dir_all: some of the entries, then the others and the folder.    *)

RemoveTree(c, path, next) ==
    /\ \E left \in SUBSET folder[path].files, m \in {"none", folder[path].marker} :
         folder' = [folder EXCEPT ![path] = [marker |-> m, files |-> left, fading |-> TRUE]]
    /\ command' = [command EXCEPT ![c] = [kind |-> command[c].kind, at |-> "removing",
                                          path |-> path, next |-> next, of |-> command[c]]]

\* What is left of the folder; an error when a rename took it away, which only the
\* removal of a repair's backup passes over.
Removed(c) ==
    /\ command[c].at = "removing"
    /\ LET there == folder[command[c].path].fading
           on == command[c].next # "idle" /\ (there \/ command[c].kind = "repair")
       IN /\ folder' = IF there THEN [folder EXCEPT ![command[c].path] = NoFolder] ELSE folder
          /\ command' = [command EXCEPT ![c] =
               IF on THEN [command[c].of EXCEPT !.at = command[c].next] ELSE NoCommand]
    /\ UNCHANGED <<preparedRow, health, repairs, user, lost, ended>>

-----------------------------------------------------------------------------
(* verify, relocate: the folder is read, the row and the report are saved. *)

\* collect_files: the files below the folder, without the launcher's own.
Collected(n) == folder[n].files
Missing(n) == UnpackedFiles \ Collected(n)

\* What is expected and not there, with the archives gone by its number only.
Snapshot(n) == [exists |-> OnDisk(n), owned |-> Owned(n), missing |-> Missing(n)]
HealthState(found, repairable) ==
    IF ~found.exists THEN "moved"
    ELSE IF repairable THEN "repairable"
    ELSE IF found.missing # {} \/ ~found.owned THEN "missing_files" ELSE "healthy"

\* verify_at_root: what the archives can bring back of an installation of ours is repairable.
StateAt(n) ==
    HealthState(Snapshot(n), OnDisk(n) /\ archives /\ Owned(n) /\ Missing(n) # {})

SaveHealth(state) == health' = state

Verify ==
    /\ UpkeepActs /\ preparedRow # NoRow
    /\ SaveHealth(StateAt(preparedRow))
    /\ UNCHANGED <<disk, preparedRow, archives, command, repairs, upkeepCrashes>>

\* The user chooses a folder; one that carries the marker of the installation is taken.
Relocate(c, n) ==
    /\ UpkeepActs /\ preparedRow # NoRow /\ Owned(n)
    /\ Begin(c, [kind |-> "relocate", at |-> "save", to |-> n, state |-> StateAt(n)])
    /\ UNCHANGED <<disk, preparedRow, archives, health, repairs, upkeepCrashes>>

SaveRelocation(c) ==
    /\ CallerAt(c, "relocate", "save")
    /\ IF preparedRow = NoRow THEN UNCHANGED <<preparedRow, health, ended>>
       ELSE /\ preparedRow' = command[c].to /\ SaveHealth(command[c].state)
            /\ ended' = IF command[c].to \in Leftovers THEN ended \cup {"chosen"} ELSE ended
    /\ Done(c)
    /\ UNCHANGED <<folder, lost, repairs, user>>

-----------------------------------------------------------------------------
(* repair: unpack beside the installation, exchange, remove the old one.   *)

StartRepair(c) ==
    /\ preparedRow # NoRow /\ archives /\ Owned(preparedRow) /\ repairs < MaxRepairs
    /\ InParent(preparedRow)
    /\ Begin(c, [kind |-> "repair", at |-> "create", k |-> repairs + 1, root |-> preparedRow])
    /\ repairs' = repairs + 1
    /\ UNCHANGED <<disk, preparedRow, health, user>>

Stage(c) == Left("stage", command[c].k)
Repair(c) == Left("repair", command[c].k)
Backup(c) == Left("backup", command[c].k)

\* extract: create_dir and the staging marker.
CreateStage(c) ==
    /\ CallerAt(c, "repair", "create")
    /\ folder' = [folder EXCEPT ![Stage(c)] = FolderOf("stage", {})]
    /\ CallerGoes(c, "unpack")
    /\ UNCHANGED <<preparedRow, health, repairs, user, lost, ended>>

\* Every error of extract removes the staging folder.
AbandonStage(c, path) ==
    IF OnDisk(path) THEN RemoveTree(c, path, "idle") ELSE Done(c) /\ UNCHANGED folder

UnpackRepair(c) ==
    /\ CallerAt(c, "repair", "unpack")
    /\ IF archives /\ OnDisk(Stage(c))
       THEN folder' = [folder EXCEPT ![Stage(c)].files = UnpackedFiles] /\ CallerGoes(c, "verify")
       ELSE AbandonStage(c, Stage(c))
    /\ UNCHANGED <<preparedRow, health, repairs, user, lost, ended>>

\* verify_staging: what was unpacked is all there; the staging marker goes first.
VerifyStage(c) ==
    /\ CallerAt(c, "repair", "verify")
    /\ IF Missing(Stage(c)) = {} /\ folder[Stage(c)].marker = "stage"
       THEN folder' = [folder EXCEPT ![Stage(c)].marker = "none"] /\ CallerGoes(c, "sign")
       ELSE AbandonStage(c, Stage(c))
    /\ UNCHANGED <<preparedRow, health, repairs, user, lost, ended>>

SignStage(c) ==
    /\ CallerAt(c, "repair", "sign")
    /\ IF OnDisk(Stage(c))
       THEN folder' = [folder EXCEPT ![Stage(c)].marker = "own"] /\ CallerGoes(c, "activate")
       ELSE Done(c) /\ UNCHANGED folder
    /\ UNCHANGED <<preparedRow, health, repairs, user, lost, ended>>

\* The rename that ends extract, to the .dla-repair- name.
NameRepair(c) ==
    /\ CallerAt(c, "repair", "activate")
    /\ IF OnDisk(Stage(c)) THEN Renamed(Stage(c), Repair(c)) /\ CallerGoes(c, "displace")
       ELSE Done(c) /\ UNCHANGED disk
    /\ UNCHANGED <<preparedRow, health, repairs, user>>

\* The installation is renamed to .dla-backup-, whatever stands there by now.
Displace(c) ==
    /\ CallerAt(c, "repair", "displace")
    /\ IF OnDisk(command[c].root)
       THEN Renamed(command[c].root, Backup(c)) /\ CallerGoes(c, "exchange")
       ELSE AbandonStage(c, Repair(c)) /\ UNCHANGED <<lost, ended>>
    /\ UNCHANGED <<preparedRow, health, repairs, user>>

\* (Wrong form.)  A repair that cannot be put in place leaves the backup where it is.
ExchangeOnly(c) ==
    /\ CallerAt(c, "repair", "exchange")
    /\ IF OnDisk(Repair(c)) /\ ~OnDisk(command[c].root)
       THEN Renamed(Repair(c), command[c].root) /\ CallerGoes(c, "old")
       ELSE AbandonStage(c, Backup(c)) /\ UNCHANGED <<lost, ended>>
    /\ UNCHANGED <<preparedRow, health, repairs, user>>

\* The repaired folder takes the name; otherwise the backup goes back to it.
Exchange(c) ==
    /\ CallerAt(c, "repair", "exchange")
    /\ IF OnDisk(Repair(c)) /\ ~OnDisk(command[c].root)
       THEN Renamed(Repair(c), command[c].root) /\ CallerGoes(c, "old")
       ELSE /\ IF OnDisk(Backup(c)) /\ ~OnDisk(command[c].root)
               THEN Renamed(Backup(c), command[c].root) ELSE UNCHANGED disk
            /\ CallerGoes(c, "abandon")
    /\ UNCHANGED <<preparedRow, health, repairs, user>>

AbandonRepair(c) ==
    /\ CallerAt(c, "repair", "abandon")
    /\ AbandonStage(c, Repair(c))
    /\ UNCHANGED <<preparedRow, health, repairs, user, lost, ended>>

\* (Wrong form.)  The backup goes without a look at its marker.
RemoveAnyOld(c) ==
    /\ CallerAt(c, "repair", "old")
    /\ IF OnDisk(Backup(c)) THEN RemoveTree(c, Backup(c), "row") ELSE CallerGoes(c, "row") /\ UNCHANGED folder
    /\ UNCHANGED <<preparedRow, health, repairs, user, lost, ended>>

\* The old folder goes if it is the installation's; a failure is not reported.
RemoveOld(c) ==
    /\ CallerAt(c, "repair", "old")
    /\ IF Owned(Backup(c)) THEN RemoveTree(c, Backup(c), "row") ELSE CallerGoes(c, "row") /\ UNCHANGED folder
    /\ UNCHANGED <<preparedRow, health, repairs, user, lost, ended>>

\* The row as it was read, with the new counts; then the rescan, which ends in verify.
SaveRepair(c) ==
    /\ CallerAt(c, "repair", "row")
    /\ IF preparedRow = NoRow THEN UNCHANGED <<preparedRow, health>>
       ELSE preparedRow' = command[c].root /\ SaveHealth(StateAt(preparedRow'))
    /\ Done(c)
    /\ UNCHANGED <<disk, repairs, user>>

-----------------------------------------------------------------------------
(* remove_from_library and uninstall.                                      *)

RemoveFromLibrary ==
    /\ preparedRow # NoRow
    /\ preparedRow' = NoRow
    /\ UNCHANGED <<disk, health, command, repairs, user>>

StartUninstall(c) ==
    /\ preparedRow # NoRow
    /\ Begin(c, [kind |-> "uninstall", at |-> "remove", root |-> preparedRow])
    /\ UNCHANGED <<disk, preparedRow, health, repairs, user>>

\* uninstall_managed: refused without the marker, which is read right before.
UninstallFolder(c) ==
    /\ CallerAt(c, "uninstall", "remove")
    /\ IF Owned(command[c].root)
       THEN RemoveTree(c, command[c].root, "row") /\ ended' = ended \cup {"uninstalled"}
       ELSE Done(c) /\ UNCHANGED <<folder, ended>>
    /\ UNCHANGED <<preparedRow, health, repairs, user, lost>>

UninstallRow(c) ==
    /\ CallerAt(c, "uninstall", "row")
    /\ preparedRow' = NoRow /\ Done(c)
    /\ UNCHANGED <<disk, health, repairs, user>>

-----------------------------------------------------------------------------
(* cleanup_abandoned: the directories of the destinations known when it    *)
(* started, entry by entry; each is judged, then removed.                  *)

StartSweep(c) ==
    /\ preparedRow # NoRow /\ InParent(preparedRow)
    /\ Begin(c, [kind |-> "cleanup", at |-> "list", known |-> preparedRow, entry |-> preparedRow])
    /\ UNCHANGED <<disk, preparedRow, health, repairs, user>>

\* (Wrong form.)  A leftover is removed whatever became of the installation.
AlwaysAbandoned(n, known) == folder[n].marker \in {"stage", "own"}

\* A staging folder of a known installation; a repair or a backup of one whose
\* recorded destination carries the same marker.
Abandoned(n, known) ==
    \/ n[1] = "stage" /\ folder[n].marker = "stage"
    \/ n[1] \in {"repair", "backup"} /\ Owned(n) /\ Owned(known)

JudgeEntry(c, n) ==
    /\ CallerAt(c, "cleanup", "list") /\ OnDisk(n) /\ Abandoned(n, command[c].known)
    /\ command' = [command EXCEPT ![c].entry = n, ![c].at = "remove"]
    /\ UNCHANGED <<disk, preparedRow, health, repairs, user>>

RemoveEntry(c) ==
    /\ CallerAt(c, "cleanup", "remove")
    /\ IF OnDisk(command[c].entry) THEN RemoveTree(c, command[c].entry, "list")
       ELSE Done(c) /\ UNCHANGED folder
    /\ UNCHANGED <<preparedRow, health, repairs, user, lost, ended>>

\* The listing is over; what came after it was read, and what was retained, stays.
EndCleanup(c) ==
    /\ CallerAt(c, "cleanup", "list") /\ Done(c)
    /\ UNCHANGED <<disk, preparedRow, health, repairs, user>>

-----------------------------------------------------------------------------
(* The user, and the end of the process.                                   *)

\* The folder goes elsewhere, or comes back, or a leftover that is whole gets its name.
MoveFolder(from, to) ==
    /\ UpkeepActs /\ OnDisk(from) /\ ~OnDisk(to)
    /\ from \in Leftovers => UnpackedFiles \ lost \subseteq folder[from].files
    /\ to \in {Dest, Away} /\ from # to
    /\ Renamed(from, to)
    /\ UNCHANGED <<preparedRow, archives, command, health, repairs, upkeepCrashes>>

\* A file of the installation is deleted, another folder takes its name, the
\* archives are deleted.
LoseFile(f) ==
    /\ UpkeepActs /\ f \in folder[Dest].files /\ Owned(Dest)
    /\ folder' = [folder EXCEPT ![Dest].files = @ \ {f}] /\ lost' = lost \cup {f}
    /\ UNCHANGED <<preparedRow, archives, command, health, repairs, upkeepCrashes, ended>>

PutFolder ==
    /\ UpkeepActs /\ ~OnDisk(Dest) /\ \A n \in UpkeepNames : folder[n].marker # "foreign"
    /\ folder' = [folder EXCEPT ![Dest] = FolderOf("foreign", {})]
    /\ UNCHANGED <<preparedRow, archives, command, health, repairs, upkeepCrashes, lost, ended>>

DeleteArchives ==
    /\ UpkeepActs /\ archives /\ archives' = FALSE
    /\ UNCHANGED <<disk, preparedRow, command, health, repairs, upkeepCrashes>>

UpkeepStop ==
    /\ upkeepCrashes < MaxUpkeepCrashes /\ upkeepCrashes' = upkeepCrashes + 1
    /\ command' = [c \in Callers |-> NoCommand]
    /\ folder' = [n \in UpkeepNames |-> [folder[n] EXCEPT !.fading = FALSE]]
    /\ UNCHANGED <<lost, ended, preparedRow, archives, health, repairs, acts>>

UpkeepNext ==
    \/ \E c \in Callers :
         \/ SaveRelocation(c) \/ \E n \in UpkeepNames : Relocate(c, n)
         \/ StartRepair(c) \/ CreateStage(c) \/ UnpackRepair(c) \/ VerifyStage(c) \/ SignStage(c)
         \/ NameRepair(c) \/ Displace(c) \/ Exchange(c) \/ AbandonRepair(c) \/ RemoveOld(c)
         \/ SaveRepair(c)
         \/ StartUninstall(c) \/ UninstallFolder(c) \/ UninstallRow(c)
         \/ StartSweep(c) \/ RemoveEntry(c) \/ EndCleanup(c)
         \/ \E n \in Leftovers : JudgeEntry(c, n)
         \/ Removed(c)
    \/ Verify \/ RemoveFromLibrary \/ PutFolder \/ DeleteArchives \/ UpkeepStop
    \/ \E f \in UnpackedFiles : LoseFile(f)
    \/ \E from \in UpkeepNames, to \in {Dest, Away} : MoveFolder(from, to)

UpkeepSpec == UpkeepInit /\ [][UpkeepNext]_upkeepVars

-----------------------------------------------------------------------------
\* What the user did not delete of an installation is in one folder that carries its
\* marker, through repairs, cleanups and stops of the launcher, until it is uninstalled;
\* and a folder of the user's own is never removed.  Not claimed when a leftover was
\* chosen as the location, or was renamed while it was being removed (see the README).
InstallationSurvives ==
    /\ ended = {} => \E n \in UpkeepNames : Owned(n) /\ UnpackedFiles \ lost \subseteq folder[n].files
    /\ \A n \in UpkeepNames : folder[n].fading => folder[n].marker # "foreign"

=============================================================================
