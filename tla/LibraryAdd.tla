------------------------------- MODULE LibraryAdd -------------------------------
(***************************************************************************)
(* "+ Add" in the library: what the user picked is scanned, reviewed as    *)
(* one list, and the chosen works are brought in one at a time.            *)
(*                                                                         *)
(* Source: dla-application/src/library_add.rs (LibraryAddBatch) and        *)
(* src-tauri/src/library_add.rs (LibraryAddController).  One batch is kept *)
(* in a mutex.  A thread scans its sources and another runs its jobs; both *)
(* go on after the batch was cancelled, dismissed and replaced, and what   *)
(* they report is stored in whatever batch is there.                       *)
(*                                                                         *)
(* How a folder is moved is FolderTransfer's, how an archive is unpacked   *)
(* ScanInstalls'; here a job is done, fails, or ends because it was        *)
(* cancelled.                                                              *)
(***************************************************************************)
EXTENDS Naturals, Sequences, FiniteSets

CONSTANTS
    PickableWorks,  \* works on the disk: records [key, folder, files, kind, refused],
                    \* with the names of the archives that hold it in files
    Picks,          \* what the user may pick: sequences of [folder, file], and
                    \* file = NoFile for a folder
    NoFile,
    MaxBatches      \* bound: batches started

\* The dialog answers with folders or with archives and names none twice; the key of a
\* finding is its own.
ASSUME AddAssumptions ==
    /\ IsFiniteSet(PickableWorks) /\ \A v, w \in PickableWorks : v.key = w.key => v = w
    /\ \A pick \in Picks :
         /\ pick \in Seq({pick[i] : i \in DOMAIN pick}) /\ pick # <<>>
         /\ \A i, j \in DOMAIN pick :
              i # j /\ pick[i].folder = pick[j].folder => pick[i].file # NoFile
    /\ MaxBatches \in Nat

VARIABLES
    batch,     \* the batch in the mutex, or NoBatch
    picked,    \* the pick of each batch
    flag,      \* batches whose cancellation flag is set
    starting,  \* picks that passed check_can_start and are not stored yet
    scan,      \* the thread that scans for each batch
    runner,    \* the thread that runs the jobs of each batch
    mixed      \* history: batches an earlier batch's thread wrote into

addVars == <<batch, picked, flag, starting, scan, runner, mixed>>

Phases == {"scanning", "review", "adding", "done", "cancelled"}
SourceStatuses == {"queued", "scanning", "done", "failed"}
JobStates == {"queued", "running", "done", "failed", "cancelled"}

BatchIds == 1..MaxBatches
NoBatch ==
    [id |-> 0, phase |-> "none", sources |-> <<>>, found |-> <<>>, jobs |-> <<>>, cancelled |-> FALSE]
ThreadEnded == [at |-> "ended"]
NoThread == [at |-> "none"]

Started == Cardinality({b \in BatchIds : picked[b] # <<>>})
IsFinished == batch.phase \in {"done", "cancelled"}
Keys == {w.key : w \in PickableWorks}

AddTypeOK ==
    /\ batch.id \in 0..MaxBatches
    /\ batch.phase \in Phases \cup {"none"}
    /\ \A i \in DOMAIN batch.sources : batch.sources[i] \in SourceStatuses
    /\ \A i \in DOMAIN batch.jobs : batch.jobs[i].state \in JobStates
    /\ picked \in [BatchIds -> Picks \cup {<<>>}] /\ flag \subseteq BatchIds
    /\ \A b \in BatchIds : scan[b].at \in {"none", "begin", "next", "scan", "report", "ended"}
    /\ \A b \in BatchIds : runner[b].at \in {"none", "look", "mark", "work", "ended"}

AddInit ==
    /\ batch = NoBatch /\ picked = [b \in BatchIds |-> <<>>] /\ flag = {} /\ starting = <<>>
    /\ scan = [b \in BatchIds |-> NoThread] /\ runner = [b \in BatchIds |-> NoThread]
    /\ mixed = {}

\* update: the change is made to the batch that is there, whose ever it is.
Update(b, new) ==
    /\ batch' = IF batch = NoBatch THEN NoBatch ELSE new
    /\ mixed' = IF batch # NoBatch /\ batch.id # b THEN mixed \cup {batch.id} ELSE mixed

-----------------------------------------------------------------------------
(* Starting: checked before the picker and again after it, and stored      *)
(* under another lock.                                                     *)

CheckStart(pick) ==
    /\ batch.phase \notin {"scanning", "review", "adding"}
    /\ Started + Len(starting) < MaxBatches
    /\ starting' = Append(starting, pick)
    /\ UNCHANGED <<batch, picked, flag, scan, runner, mixed>>

\* LibraryAddBatch::new.
NewBatch(b, pick) ==
    [id |-> b, phase |-> "scanning", jobs |-> <<>>, found |-> <<>>,
     sources |-> [i \in DOMAIN pick |-> "queued"], cancelled |-> FALSE]

StoreBatch ==
    /\ starting # <<>>
    /\ LET b == Started + 1
           pick == Head(starting)
       IN /\ batch' = NewBatch(b, pick)
          /\ picked' = [picked EXCEPT ![b] = pick]
          /\ scan' = [scan EXCEPT ![b] = [at |-> "begin"]]
    /\ starting' = Tail(starting)
    /\ UNCHANGED <<flag, runner, mixed>>

-----------------------------------------------------------------------------
(* Scanning.                                                               *)

\* The plans and the flag of the batch that is there.
BeginScan(b) ==
    /\ scan[b].at = "begin"
    /\ scan' = [scan EXCEPT ![b] =
         IF batch = NoBatch THEN ThreadEnded
         ELSE [at |-> "next", of |-> batch.id, done |-> {}, group |-> {}, claimed |-> {},
               ok |-> TRUE]]
    /\ UNCHANGED <<batch, picked, flag, starting, runner, mixed>>

Plans(b) == picked[scan[b].of]

\* (Wrong form.)  Every archive is scanned for itself.
OneByOne(plans, i) == {i}

\* Archives picked from one folder share one scan of it.
Group(plans, i) == {j \in i..Len(plans) : plans[j].folder = plans[i].folder}

SourceScanning(v, group) ==
    [v EXCEPT !.sources = [i \in DOMAIN @ |-> IF i \in group THEN "scanning" ELSE @[i]]]

MarkScanning(b) ==
    /\ scan[b].at = "next"
    /\ LET left == DOMAIN Plans(b) \ scan[b].done
           first == CHOOSE i \in left : \A j \in left : i <= j
           group == Group(Plans(b), first) \ scan[b].done
       IN IF left = {} \/ scan[b].of \in flag
          THEN scan' = [scan EXCEPT ![b] = ThreadEnded] /\ UNCHANGED <<batch, mixed>>
          ELSE /\ scan' = [scan EXCEPT ![b].at = "scan", ![b].group = group, ![b].claimed = {}]
               /\ Update(b, SourceScanning(batch, group))
    /\ UNCHANGED <<picked, flag, starting, runner>>

\* scan_folder_now and the findings of its session.
ScanFolder(b, ok) ==
    /\ scan[b].at = "scan"
    /\ scan' = [scan EXCEPT ![b] =
         IF scan[b].of \in flag THEN ThreadEnded ELSE [scan[b] EXCEPT !.at = "report", !.ok = ok]]
    /\ UNCHANGED <<batch, picked, flag, starting, runner, mixed>>

\* (Wrong form.)  A set two of whose volumes were picked is found twice.
AllHolding(plan, claimed) ==
    {w \in PickableWorks : w.folder = plan.folder /\ (plan.file = NoFile \/ plan.file \in w.files)}

\* All of a folder's findings, or the archives that hold the picked file and no file
\* picked before it.
Chosen(plan, claimed) ==
    {w \in PickableWorks : /\ w.folder = plan.folder
                           /\ plan.file # NoFile => plan.file \in w.files /\ w.key \notin claimed}

\* The findings in the order of the scan, whatever it is.
InOrder(ws, i) ==
    LET order == CHOOSE s \in [1..Cardinality(ws) -> ws] :
                   \A j, k \in 1..Cardinality(ws) : j # k => s[j] # s[k]
    IN [j \in 1..Cardinality(ws) |-> [source |-> i, work |-> order[j]]]

\* settle_scanning: in review once every source was looked at.
ScanSettled(v) ==
    IF v.phase = "scanning" /\ \A i \in DOMAIN v.sources : v.sources[i] \in {"done", "failed"}
    THEN [v EXCEPT !.phase = "review"] ELSE v

\* source_done with what was found, and source_failed with nothing.
SourceEnded(v, i, status, found) ==
    ScanSettled([v EXCEPT !.sources = [j \in DOMAIN @ |-> IF j = i THEN status ELSE @[j]],
                          !.found = @ \o InOrder(found, i)])

\* One source of the group after another.
ReportSource(b) ==
    /\ scan[b].at = "report"
    /\ LET i == CHOOSE i \in scan[b].group : \A j \in scan[b].group : i <= j
           found == IF scan[b].ok THEN Chosen(Plans(b)[i], scan[b].claimed) ELSE {}
           rest == scan[b].group \ {i}
           status == IF scan[b].ok THEN "done" ELSE "failed"
       IN /\ Update(b, SourceEnded(batch, i, status, found))
          /\ scan' = [scan EXCEPT ![b].done = @ \cup {i}, ![b].group = rest,
                        ![b].claimed = @ \cup {w.key : w \in found},
                        ![b].at = IF rest = {} THEN "next" ELSE "report"]
    /\ UNCHANGED <<picked, flag, starting, runner>>

-----------------------------------------------------------------------------
(* Adding.                                                                 *)

\* settle_adding: over once no job is queued or runs.
AddSettled(v) ==
    IF v.phase = "adding" /\ \A i \in DOMAIN v.jobs : v.jobs[i].state \notin {"queued", "running"}
    THEN [v EXCEPT !.phase = IF v.cancelled THEN "cancelled" ELSE "done"] ELSE v

\* A job that can never be added, for its refusal_reason, has failed before it starts.
NewJob(f) == [work |-> f.work.key, state |-> IF f.work.refused THEN "failed" ELSE "queued"]

\* The thread of the batch, with the jobs that are to be run.
StartRunner(jobs) ==
    runner' = [runner EXCEPT ![batch.id] =
      [at |-> "look", todo |-> SelectSeq([i \in DOMAIN jobs |-> i], LAMBDA i : jobs[i].state = "queued")]]

\* confirm: a job for every chosen finding.
Confirm(chosen) ==
    /\ batch.phase = "review"
    /\ LET picks == SelectSeq(batch.found, LAMBDA f : f.work.key \in chosen)
           jobs == [i \in DOMAIN picks |-> NewJob(picks[i])]
       IN /\ jobs # <<>>
          /\ batch' = AddSettled([batch EXCEPT !.jobs = jobs, !.phase = "adding"])
          /\ StartRunner(jobs)
    /\ UNCHANGED <<picked, flag, starting, scan, mixed>>

JobIsQueued(i) == i \in DOMAIN batch.jobs /\ batch.jobs[i].state = "queued"

\* The next planned job, if it is still queued and the batch is not cancelled.
LookAtJob(b) ==
    /\ runner[b].at = "look"
    /\ IF runner[b].todo = <<>> \/ batch = NoBatch THEN runner' = [runner EXCEPT ![b] = ThreadEnded]
       ELSE LET i == Head(runner[b].todo)
            IN runner' = [runner EXCEPT ![b] =
                 IF JobIsQueued(i) /\ batch.id \notin flag
                 THEN [at |-> "mark", of |-> batch.id, todo |-> @.todo]
                 ELSE [@ EXCEPT !.todo = Tail(@)]]
    /\ UNCHANGED <<batch, picked, flag, starting, scan, mixed>>

SetJob(i, state) ==
    [batch EXCEPT !.jobs = [j \in DOMAIN @ |-> IF j = i THEN [@[j] EXCEPT !.state = state] ELSE @[j]]]

MarkRunning(b) ==
    /\ runner[b].at = "mark"
    /\ Update(b, SetJob(Head(runner[b].todo), "running"))
    /\ runner' = [runner EXCEPT ![b].at = "work"]
    /\ UNCHANGED <<picked, flag, starting, scan>>

\* job_done, job_failed or job_cancelled.
JobEnded(i, result) == AddSettled(SetJob(i, result))

\* add_in_place, unpack or move_in, and how it ended.
FinishJob(b, result) ==
    /\ runner[b].at = "work"
    /\ result = "cancelled" => runner[b].of \in flag
    /\ Update(b, JobEnded(Head(runner[b].todo), result))
    /\ runner' = [runner EXCEPT ![b].at = "look", ![b].todo = Tail(@)]
    /\ UNCHANGED <<picked, flag, starting, scan>>

-----------------------------------------------------------------------------
(* Cancelling and dismissing.                                              *)

Stopped(v) ==
    IF v.phase \in {"scanning", "review"}
    THEN [v EXCEPT !.phase = "cancelled",
            !.sources = [i \in DOMAIN @ |-> IF @[i] = "done" THEN "done" ELSE "failed"]]
    ELSE IF v.phase = "adding"
    THEN AddSettled([v EXCEPT !.jobs = [i \in DOMAIN @ |->
           IF @[i].state = "queued" THEN [@[i] EXCEPT !.state = "cancelled"] ELSE @[i]]])
    ELSE v

CancelBatch ==
    /\ batch # NoBatch
    /\ flag' = flag \cup {batch.id}
    /\ batch' = Stopped([batch EXCEPT !.cancelled = TRUE])
    /\ UNCHANGED <<picked, starting, scan, runner, mixed>>

Dismiss ==
    /\ IsFinished
    /\ batch' = NoBatch
    /\ UNCHANGED <<picked, flag, starting, scan, runner, mixed>>

AddNext ==
    \/ \E pick \in Picks : CheckStart(pick)
    \/ StoreBatch \/ CancelBatch \/ Dismiss
    \/ \E chosen \in SUBSET Keys : Confirm(chosen)
    \/ \E b \in BatchIds :
         \/ BeginScan(b) \/ MarkScanning(b) \/ ReportSource(b)
         \/ \E ok \in BOOLEAN : ScanFolder(b, ok)
         \/ LookAtJob(b) \/ MarkRunning(b)
         \/ \E result \in {"done", "failed", "cancelled"} : FinishJob(b, result)

AddSpec == AddInit /\ [][AddNext]_addVars

-----------------------------------------------------------------------------
\* In review every work in what was picked is listed once, though several of its volumes
\* may have been picked: a work listed twice is added twice.  Not claimed of a batch that
\* an earlier one's thread wrote into (see the README).
ReviewListsEachOnce ==
    (batch.phase = "review" /\ batch.id \notin mixed) =>
        LET found == batch.found
            pick == picked[batch.id]
            Asked(w) == \E i \in DOMAIN pick : /\ batch.sources[i] = "done"
                                               /\ w.folder = pick[i].folder
                                               /\ pick[i].file \in w.files \cup {NoFile}
        IN /\ \A i, j \in DOMAIN found : found[i].work = found[j].work => i = j
           /\ {found[i].work : i \in DOMAIN found} = {w \in PickableWorks : Asked(w)}
=============================================================================
