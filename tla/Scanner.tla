-------------------------------- MODULE Scanner --------------------------------
(***************************************************************************)
(* Scanning one root again and again, and making installations of it.      *)
(*                                                                         *)
(* Source: src-tauri/src/scanner.rs (ScanController, the one slot),        *)
(* dla-application/src/scan_execution.rs (ScanExecutionService and its     *)
(* observer), dla-scanner/src/filesystem.rs (the parallel walk),           *)
(* dla-sqlite/src/scanner.rs (the rows) and validate_selection of          *)
(* installation_from_scan.rs.                                              *)
(* An entry row is per root and path: each session that meets the path     *)
(* takes the row over by writing itself as the last that saw it.  Results  *)
(* are per session.  What an older session saw is therefore torn apart by  *)
(* a newer one of the same root, completed or not.                         *)
(***************************************************************************)
EXTENDS Naturals, FiniteSets

CONSTANTS
    RootFiles, RootFolders,  \* what the root may hold
    MaxSessions,             \* bound: scans
    BatchSize,               \* entries that are written together, 32 rows in the code
    MaxScanFaults,           \* bound: writes, publications and inspections that fail
    MaxScanRestarts,         \* bound: restarts of the launcher
    MaxRootChanges           \* bound: changes of the disk

ASSUME ScanBounds ==
    MaxSessions \in Nat /\ MaxScanFaults \in Nat /\ MaxScanRestarts \in Nat /\ MaxRootChanges \in Nat

Scans == 1..MaxSessions
Places == RootFiles \cup RootFolders

VARIABLES
    rootDisk,       \* paths below the root
    scanStatus,     \* the session's row, "absent" before it is inserted
    seenBy,         \* session that saw a path last, 0 when the path has no row
    results,        \* rows of results: session, file
    slot,           \* session in the map of active scans, 0 for none
    stage,          \* where the thread of that session stands
    scanCancelled,  \* its cancel flag
    todo,           \* paths the walk has not come to
    pending,        \* entries, and their results, not written yet
    terminal,       \* how the walk went
    scanSession,    \* sessions started
    scanFaults,     \* spent bounds
    scanRestarts,
    rootChanges,
    walked,         \* history: paths a session accepted
    created         \* history: what installations were created from

scanVars == <<rootDisk, scanStatus, seenBy, results, slot, stage, scanCancelled, todo, pending,
              terminal, scanSession, scanFaults, scanRestarts, rootChanges, walked, created>>

ScanEnds == {"completed", "cancelled", "failed", "interrupted"}

ScanTypeOK ==
    /\ rootDisk \subseteq Places /\ todo \subseteq Places /\ pending \subseteq Places
    /\ scanStatus \in [Scans -> ScanEnds \cup {"absent", "queued", "running"}]
    /\ seenBy \in [Places -> 0..MaxSessions]
    /\ results \subseteq Scans \X RootFiles
    /\ slot \in 0..MaxSessions /\ scanCancelled \in BOOLEAN
    /\ stage \in {"off", "begin", "walk", "finish"}
    /\ terminal \in {"completed", "cancelled", "failed"}
    /\ scanSession \in 0..MaxSessions /\ scanFaults \in 0..MaxScanFaults
    /\ scanRestarts \in 0..MaxScanRestarts /\ rootChanges \in 0..MaxRootChanges
    /\ walked \in [Scans -> SUBSET Places]
    /\ created \subseteq [session : Scans, files : SUBSET Places]

ScanInit ==
    /\ rootDisk = Places
    /\ scanStatus = [s \in Scans |-> "absent"]
    /\ seenBy = [p \in Places |-> 0] /\ results = {}
    /\ slot = 0 /\ stage = "off" /\ scanCancelled = FALSE
    /\ todo = {} /\ pending = {} /\ terminal = "completed"
    /\ scanSession = 0 /\ scanFaults = 0 /\ scanRestarts = 0 /\ rootChanges = 0
    /\ walked = [s \in Scans |-> {}] /\ created = {}

ScanFault == scanFaults < MaxScanFaults /\ scanFaults' = scanFaults + 1
NoScanFault == UNCHANGED scanFaults

scanRows == <<scanStatus, seenBy, results>>
scanThread == <<slot, stage, scanCancelled, todo, pending, terminal>>
scanWorld == <<rootDisk, scanSession, scanRestarts, rootChanges, created>>

ReadSession(s) == scanStatus[s]
SetStatus(s, x) == scanStatus' = [scanStatus EXCEPT ![s] = x]
InsertSession == SetStatus(scanSession + 1, "queued")
Leave == slot' = 0 /\ stage' = "off" /\ scanCancelled' = FALSE /\ todo' = {} /\ pending' = {}

-----------------------------------------------------------------------------
(* The slot.                                                               *)

\* start, and scan_folder_now once the slot is free: the session is inserted and
\* published before the slot is taken, so that one whose publication fails stays queued.
StartScan ==
    /\ slot = 0 /\ scanSession < MaxSessions
    /\ scanSession' = scanSession + 1
    /\ \/ /\ NoScanFault /\ InsertSession
          /\ slot' = scanSession + 1 /\ stage' = "begin"
       \/ /\ ScanFault /\ InsertSession /\ UNCHANGED <<slot, stage>>
       \/ ScanFault /\ UNCHANGED <<scanStatus, slot, stage>>
    /\ UNCHANGED <<rootDisk, seenBy, results, scanCancelled, todo, pending, terminal, scanRestarts,
                   rootChanges, walked, created>>

CancelScan ==
    /\ slot # 0 /\ ~scanCancelled /\ scanCancelled' = TRUE
    /\ UNCHANGED <<scanRows, slot, stage, todo, pending, terminal, scanFaults, walked, scanWorld>>

\* execute: the row becomes running, or the thread ends and frees the slot.
BeginScanning ==
    /\ stage = "begin"
    /\ \/ /\ NoScanFault /\ SetStatus(slot, "running")
          /\ stage' = "walk" /\ todo' = rootDisk /\ terminal' = "completed"
          /\ UNCHANGED <<slot, scanCancelled, pending>>
       \/ /\ ScanFault /\ Leave /\ UNCHANGED terminal
          /\ \E x \in {"queued", "running"} : SetStatus(slot, x)
    /\ UNCHANGED <<seenBy, results, walked, scanWorld>>

-----------------------------------------------------------------------------
(* The walk.                                                               *)

\* Each path's row is taken over by this session.
UpsertEntries(P) == seenBy' = [p \in Places |-> IF p \in P THEN slot ELSE seenBy[p]]

\* A file has a result of its own in each session, with its candidates and evidence.
UpsertResults(F) == results' = results \cup {<<slot, f>> : f \in F}

\* record_batch, one transaction.
Record(P) == UpsertEntries(P) /\ UpsertResults(P \cap RootFiles)

\* flush_locked: the batch is taken first and lost when it cannot be written.  The
\* update of the session's counters, or the publication, may fail after it.
Flush(P) ==
    /\ pending' = {}
    /\ \/ Record(P) /\ NoScanFault /\ UNCHANGED terminal
       \/ Record(P) /\ ScanFault /\ terminal' = "failed"
       \/ ScanFault /\ terminal' = "failed" /\ UNCHANGED <<seenBy, results>>

\* A pool of threads takes the paths in no order; the first error ends the walk, though
\* a path another thread had taken may still get in.
Discover(p) ==
    /\ stage = "walk" /\ p \in todo
    /\ todo' = todo \ {p}
    /\ \/ /\ ~scanCancelled /\ walked' = [walked EXCEPT ![slot] = @ \cup {p}]
          /\ IF Cardinality(pending) + 1 >= BatchSize
             THEN Flush(pending \cup {p})
             ELSE /\ pending' = pending \cup {p}
                  /\ NoScanFault /\ UNCHANGED <<seenBy, results, terminal>>
       \/ /\ scanCancelled /\ terminal' = IF terminal = "failed" THEN "failed" ELSE "cancelled"
          /\ NoScanFault /\ UNCHANGED <<pending, seenBy, results, walked>>
       \/ \* the catalog, the root or the hash failed for good
          /\ ScanFault /\ terminal' = "failed"
          /\ UNCHANGED <<pending, seenBy, results, walked>>
    /\ UNCHANGED <<scanStatus, slot, stage, scanCancelled, scanWorld>>

\* An entry that vanished, or is no file and no folder: an issue and no entry.
Vanished(p) ==
    /\ stage = "walk" /\ p \in todo \ rootDisk
    /\ todo' = todo \ {p}
    /\ UNCHANGED <<scanRows, slot, stage, scanCancelled, pending, terminal, scanFaults, walked,
                   scanWorld>>

EndWalk ==
    /\ stage = "walk" /\ (todo = {} \/ terminal # "completed")
    /\ stage' = "finish" /\ todo' = {}
    /\ terminal' = IF terminal = "completed" /\ scanCancelled THEN "cancelled" ELSE terminal
    /\ UNCHANGED <<scanRows, slot, scanCancelled, pending, scanFaults, walked, scanWorld>>

\* finish: what is pending is written, then the row ends; a failure of either leaves the
\* row running, and the slot is free all the same.
FinishScan ==
    /\ stage = "finish"
    /\ \/ Record(pending) /\ NoScanFault /\ SetStatus(slot, terminal)
       \/ Record(pending) /\ ScanFault /\ UNCHANGED scanStatus
       \/ ScanFault /\ UNCHANGED scanRows
    /\ Leave /\ UNCHANGED <<terminal, walked, scanWorld>>

-----------------------------------------------------------------------------
(* Creating an installation from a result of a session.                    *)

Entries(s) == {p \in Places : seenBy[p] = s}
ResultsOf(s) == {f \in RootFiles : <<s, f>> \in results}

\* (Wrong form.) Results of paths another session has taken over are let through.
ValidHere(s, f) == scanStatus[s] = "completed" /\ f \in Entries(s)

\* validate_selection, on what one transaction loads: the session is completed, and
\* every result it has is of an entry that is still its own.
ValidSelection(s, f) ==
    ReadSession(s) = "completed" /\ f \in Entries(s) /\ ResultsOf(s) \subseteq Entries(s)

CreateFrom(s, f) ==
    /\ <<s, f>> \in results /\ ValidSelection(s, f)
    /\ created' = created \cup {[session |-> s, files |-> Entries(s)]}
    /\ UNCHANGED <<rootDisk, scanRows, scanThread, scanSession, scanFaults, scanRestarts,
                   rootChanges, walked>>

-----------------------------------------------------------------------------

ChangeRoot(p) ==
    /\ rootChanges < MaxRootChanges /\ rootChanges' = rootChanges + 1
    /\ rootDisk' = IF p \in rootDisk THEN rootDisk \ {p} ELSE rootDisk \cup {p}
    /\ UNCHANGED <<scanRows, scanThread, scanSession, scanFaults, scanRestarts, walked, created>>

\* interrupt_active_sessions when the launcher starts.
ScanRestart ==
    /\ scanRestarts < MaxScanRestarts /\ scanRestarts' = scanRestarts + 1
    /\ Leave
    /\ scanStatus' = [s \in Scans |-> IF scanStatus[s] \in {"queued", "running"}
                                     THEN "interrupted" ELSE scanStatus[s]]
    /\ UNCHANGED <<rootDisk, seenBy, results, terminal, scanSession, scanFaults, rootChanges,
                   walked, created>>

ScanNext ==
    \/ StartScan \/ CancelScan \/ BeginScanning \/ EndWalk \/ FinishScan \/ ScanRestart
    \/ \E p \in Places : Discover(p) \/ Vanished(p) \/ ChangeRoot(p)
    \/ \E s \in Scans, f \in RootFiles : CreateFrom(s, f)

ScanSpec == ScanInit /\ [][ScanNext]_scanVars

-----------------------------------------------------------------------------

\* What an installation is created from is every file its scan found, and nothing else:
\* not what a scan had written before it was cancelled, failed or was interrupted, and
\* not what a later scan of the same root, even one that only began, has left of it.
\* Folders have no result, so one that was taken over may be missing.
CreatedFromWholeScan ==
    \A c \in created : c.files \cap RootFiles = walked[c.session] \cap RootFiles
=============================================================================
