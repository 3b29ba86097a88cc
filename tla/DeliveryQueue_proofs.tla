----------------------- MODULE DeliveryQueue_proofs ------------------------
(***************************************************************************)
(* The safety properties of the download queue for any number of works,    *)
(* threads, callers, archives and jobs, and any number of restarts and     *)
(* failing writes.  They follow from one inductive invariant, `IInv`.      *)
(*                                                                         *)
(* DeliveryViews: the page keeps up with the queue, for any number of      *)
(* changes and of jobs.  The newest revision is with a thread, in an event *)
(* or in what the page holds, and a view is as new as its revision.        *)
(***************************************************************************)
EXTENDS DeliveryQueue, DeliveryViews, TLAPS

\* Where the thread's job is the published one.
PublishedPCs == RunPCs \cup {"find", "begin", "done", "abort"}

Running(status) == status \in {"Downloading", "Installing"}

StopStatuses == {"Paused", "Cancelled"}

\* The problem of a job fits its status.
Explained(job) ==
  /\ job.status = "Failed" => job.problem # "None"
  /\ job.status \notin {"Failed", "Cancelled"} => job.problem = "None"

\* What a thread holds at its place in the code.
PlaceInv(t) ==
  /\ pc[t] \in PublishedPCs \cup {"picked"} => held[t].id \in Ids
  /\ pc[t] \in PublishedPCs => running = held[t].id
  /\ pc[t] \in {"begin", "locate", "archive", "receive", "record"} =>
       held[t].job.status = "Downloading"
  /\ pc[t] = "receive" => LacksArchive(held[t].job)
  /\ pc[t] = "install" => held[t].job.status = "Installing"
  /\ pc[t] \in {"settle", "final"} => ~Running(held[t].job.status)
  /\ Explained(held[t].job)
  /\ held[t].job.status \in StopStatuses => held[t].id \in stopAsked

\* What a command is about to write.
CommandInv(c) ==
  /\ caller[c].op \in {"pause", "resume", "discard", "cancel", "remove"} =>
       caller[c].id \in Ids
  /\ ~Running(caller[c].job.status)
  /\ Explained(caller[c].job)
  /\ caller[c].job.status \in StopStatuses =>
       caller[c].id \in stopAsked /\ caller[c].op # "queue"

StopInv == running # 0 /\ StopRequested => running \in stopAsked

IInv ==
  /\ TypeOK
  /\ OneWorker
  /\ \A t \in Workers : PlaceInv(t)
  /\ \A c \in Callers : CommandInv(c)
  /\ StopInv
  /\ StopsWereAsked
  /\ StatusExplained
  /\ NoStrandedRun

Holds    == [id : Ids \cup {0}, job : Jobs]
Commands == [op : Ops, id : Ids \cup {0}, job : Jobs]

-----------------------------------------------------------------------------
(* Type correctness.                                                        *)

LEMMA JobTypes ==
  /\ NoJob \in Jobs
  /\ \A w \in Works : NewJob(w) \in Jobs
  /\ \A job \in Jobs, status \in Statuses, p \in Problems \cup {"None"} :
       Settled(job, status, p) \in Jobs
  /\ \A job \in Jobs : Reconciled(job) \in Jobs /\ Requeued(job) \in Jobs
<1>1. 0 \in 0 .. Archives
  BY ConstantsAssumption
<1>2. NoJob \in Jobs
  BY <1>1 DEF Jobs, NoJob, Statuses
<1>3. \A w \in Works : NewJob(w) \in Jobs
  BY <1>1 DEF Jobs, NoJob, NewJob, Statuses
<1>4. \A job \in Jobs, status \in Statuses, p \in Problems \cup {"None"} :
        Settled(job, status, p) \in Jobs
  BY DEF Jobs, Settled
<1>5. \A job \in Jobs : Reconciled(job) \in Jobs /\ Requeued(job) \in Jobs
  BY <1>4 DEF Jobs, Reconciled, Requeued, Statuses
<1>6. QED
  BY <1>2, <1>3, <1>4, <1>5

LEMMA InitTyped == Init => TypeOK
<1> SUFFICES ASSUME Init PROVE TypeOK
  OBVIOUS
<1>1. /\ 0 \in 0 .. MaxJobs /\ 0 \in 0 .. MaxCommands
      /\ 0 \in 0 .. MaxCrashes /\ 0 \in 0 .. MaxFailedSaves
  BY ConstantsAssumption
<1>2. /\ Idle \in Holds /\ NoCommand \in Commands
      /\ NoStop \in [pause : BOOLEAN, cancel : BOOLEAN]
  BY JobTypes DEF Holds, Commands, Idle, NoCommand, NoStop, Ops
<1>3. /\ store \in [Ids -> Jobs]
      /\ held \in [Workers -> Holds]
      /\ caller \in [Callers -> Commands]
      /\ control \in [pause : BOOLEAN, cancel : BOOLEAN]
  BY <1>2, JobTypes DEF Init
<1>4. pc \in [Workers -> PCs]
  BY DEF Init, PCs
<1>5. files \in [Works -> SUBSET (1 .. Archives)]
  BY DEF Init
<1>6. QED
  BY <1>1, <1>3, <1>4, <1>5 DEF Init, TypeOK, Holds, Commands

\* The parts of a step keep the types.

LEMMA GotoTyped ==
  ASSUME TypeOK, NEW t \in Workers, NEW place \in PCs, Goto(t, place)
  PROVE  pc' \in [Workers -> PCs]
  BY DEF TypeOK, Goto

LEMMA HoldTyped ==
  ASSUME TypeOK, NEW t \in Workers, NEW job \in Jobs, Hold(t, job)
  PROVE  held' \in [Workers -> Holds]
  BY DEF TypeOK, Hold, Holds

LEMMA SaveTyped ==
  ASSUME TypeOK, NEW j \in Ids, NEW job \in Jobs, Save(j, job)
  PROVE  /\ store' \in [Ids -> Jobs]
         /\ unsaved' \subseteq Ids
         /\ failedSaves' \in 0 .. MaxFailedSaves
  BY DEF TypeOK, Save

LEMMA StoreErrorTyped ==
  ASSUME TypeOK, StoreError
  PROVE  store' \in [Ids -> Jobs] /\ failedSaves' \in 0 .. MaxFailedSaves
  BY ConstantsAssumption DEF TypeOK, StoreError

LEMMA StopTyped ==
  ASSUME TypeOK, NEW t \in Workers, NEW status \in Statuses,
         NEW p \in Problems \cup {"None"}, Stop(t, status, p)
  PROVE  pc' \in [Workers -> PCs] /\ held' \in [Workers -> Holds]
<1>1. held[t].job \in Jobs
  BY DEF TypeOK
<1>2. Settled(held[t].job, status, p) \in Jobs
  BY <1>1, JobTypes
<1>3. held' \in [Workers -> Holds]
  BY <1>2, HoldTyped DEF Stop
<1>4. QED
  BY <1>3, GotoTyped DEF Stop, PCs, WorkPCs

LEMMA FailTyped ==
  ASSUME TypeOK, NEW t \in Workers, NEW p \in Problems, Fail(t, p)
  PROVE  pc' \in [Workers -> PCs] /\ held' \in [Workers -> Holds]
  BY StopTyped DEF Fail, Statuses

LEMMA StopStatusTyped == StopStatus \in Statuses
  BY DEF StopStatus, Statuses

LEMMA DiscardTyped ==
  ASSUME TypeOK, NEW w, Discard(w)
  PROVE  files' \in [Works -> SUBSET (1 .. Archives)]
  BY DEF TypeOK, Discard

USE DEF QueueRest, CommandRest, WorkerVars, history, bounds, memory

LEMMA WorkerTyped ==
  ASSUME TypeOK, NEW t \in Workers, PlaceInv(t), WorkerStep(t)
  PROVE  TypeOK'
<1>0. /\ held[t].job \in Jobs
      /\ held[t].id \in Ids \cup {0}
      /\ pc[t] \in PublishedPCs \cup {"picked"} => held[t].id \in Ids
  BY DEF TypeOK, PlaceInv
<1> DEFINE next == held[t].job.complete + 1
           counted == [held[t].job EXCEPT !.complete = next]
<1>a. pc[t] \in {"archive", "receive"} /\ LacksArchive(held[t].job)
        => next \in 1 .. Archives /\ counted \in Jobs
  BY <1>0, ConstantsAssumption DEF LacksArchive, Jobs
<1>1. CASE Poll(t)
  <2>1. \A j \in Ids : [id |-> j, job |-> NoJob] \in Holds
    BY JobTypes DEF Holds
  <2>2. held' \in [Workers -> Holds]
    BY <1>1, <2>1 DEF Poll, TypeOK, Holds
  <2>3. pc' \in [Workers -> PCs]
    BY <1>1, GotoTyped DEF Poll, PCs, WorkPCs
  <2>4. store' \in [Ids -> Jobs] /\ failedSaves' \in 0 .. MaxFailedSaves
    BY <1>1, StoreErrorTyped DEF Poll, TypeOK
  <2>5. QED
    BY <1>1, <2>2, <2>3, <2>4 DEF Poll, TypeOK, Holds
<1>2. CASE Publish(t)
  BY <1>2, <1>0 DEF Publish, FreshControl, NoStop, TypeOK, Goto, PCs, WorkPCs,
     PublishedPCs
<1>3. CASE Find(t)
  <2>1. held[t].id \in Ids /\ store[held[t].id] \in Jobs
    BY <1>0, <1>3 DEF Find, PublishedPCs, TypeOK
  <2>2. Settled(store[held[t].id], "Downloading", "None") \in Jobs
    BY <2>1, JobTypes DEF Statuses
  <2>3. held' \in [Workers -> Holds]
    BY <1>3, <2>1, <2>2, HoldTyped DEF Find, TypeOK, Holds
  <2>4. pc' \in [Workers -> PCs]
    BY <1>3, GotoTyped DEF Find, PCs, WorkPCs
  <2>5. store' \in [Ids -> Jobs] /\ failedSaves' \in 0 .. MaxFailedSaves
    BY <1>3, StoreErrorTyped DEF Find, TypeOK
  <2>6. QED
    BY <1>3, <2>3, <2>4, <2>5 DEF Find, TypeOK, Holds
<1>4. CASE Begin(t)
  <2>1. held[t].id \in Ids
    BY <1>0, <1>4 DEF Begin, PublishedPCs
  <2>2. /\ store' \in [Ids -> Jobs]
        /\ unsaved' \subseteq Ids
        /\ failedSaves' \in 0 .. MaxFailedSaves
    BY <1>0, <1>4, <2>1, SaveTyped, StoreErrorTyped DEF Begin, TypeOK
  <2>3. pc' \in [Workers -> PCs]
    BY <1>4, GotoTyped DEF Begin, PCs, WorkPCs
  <2>4. QED
    BY <1>4, <2>2, <2>3 DEF Begin, TypeOK
<1>5. CASE Locate(t)
  <2> DEFINE found == [held[t].job EXCEPT !.located = TRUE]
  <2>1. held[t].id \in Ids /\ found \in Jobs
    BY <1>0, <1>5 DEF Locate, PublishedPCs, RunPCs, Jobs
  <2>2. Settled(found, "Failed", "Session") \in Jobs
    BY <2>1, JobTypes DEF Statuses, Problems
  <2> HIDE DEF found
  <2>3. /\ held' \in [Workers -> Holds]
        /\ pc' \in [Workers -> PCs]
        /\ store' \in [Ids -> Jobs]
        /\ unsaved' \subseteq Ids
        /\ failedSaves' \in 0 .. MaxFailedSaves
    <3>1. CASE /\ held[t].job.located
               /\ Goto(t, "archive")
               /\ UNCHANGED <<held, store, unsaved, failedSaves>>
      BY <3>1, GotoTyped DEF TypeOK, Holds, PCs, WorkPCs
    <3>2. CASE /\ Stop(t, StopStatus, "None")
               /\ UNCHANGED <<store, unsaved, failedSaves>>
      BY <3>2, StopTyped, StopStatusTyped DEF TypeOK
    <3>3. CASE /\ \E p \in Problems : Fail(t, p)
               /\ UNCHANGED <<store, unsaved, failedSaves>>
      BY <3>3, FailTyped DEF TypeOK
    <3>4. CASE Save(held[t].id, found) /\ Hold(t, found) /\ Goto(t, "archive")
      BY <3>4, <2>1, SaveTyped, HoldTyped, GotoTyped DEF PCs, WorkPCs
    <3>5. CASE /\ StoreError /\ UNCHANGED unsaved
               /\ Hold(t, Settled(found, "Failed", "Session"))
               /\ Goto(t, "settle")
      BY <3>5, <2>2, StoreErrorTyped, HoldTyped, GotoTyped
      DEF TypeOK, PCs, WorkPCs
    <3>6. QED
      BY <1>5, <3>1, <3>2, <3>3, <3>4, <3>5
      DEF Locate, Hold, Problems, found
  <2>4. QED
    BY <1>5, <2>3 DEF Locate, TypeOK, Holds
<1>6. CASE NextArchive(t)
  <2> DEFINE installing == [held[t].job EXCEPT !.status = "Installing"]
  <2>1. held[t].id \in Ids /\ installing \in Jobs /\ pc[t] = "archive"
    BY <1>0, <1>6 DEF NextArchive, PublishedPCs, RunPCs, Jobs, Statuses
  <2> HIDE DEF installing
  <2>2. /\ held' \in [Workers -> Holds]
        /\ pc' \in [Workers -> PCs]
        /\ store' \in [Ids -> Jobs]
        /\ unsaved' \subseteq Ids
        /\ failedSaves' \in 0 .. MaxFailedSaves
    <3>1. CASE /\ Stop(t, StopStatus, "None")
               /\ UNCHANGED <<store, unsaved, failedSaves>>
      BY <3>1, StopTyped, StopStatusTyped DEF TypeOK
    <3>2. CASE /\ LacksArchive(held[t].job)
               /\ Hold(t, counted) /\ Goto(t, "record")
               /\ UNCHANGED <<store, unsaved, failedSaves>>
      BY <3>2, <1>a, <2>1, HoldTyped, GotoTyped DEF TypeOK, PCs, WorkPCs
    <3>3. CASE /\ Goto(t, "receive")
               /\ UNCHANGED <<held, store, unsaved, failedSaves>>
      BY <3>3, GotoTyped DEF TypeOK, Holds, PCs, WorkPCs
    <3>4. CASE /\ \E p \in Problems : Fail(t, p)
               /\ UNCHANGED <<store, unsaved, failedSaves>>
      BY <3>4, FailTyped DEF TypeOK
    <3>5. CASE /\ Save(held[t].id, installing)
               /\ Hold(t, installing) /\ Goto(t, "install")
      BY <3>5, <2>1, SaveTyped, HoldTyped, GotoTyped DEF PCs, WorkPCs
    <3>6. CASE StoreError /\ Fail(t, "Session") /\ UNCHANGED unsaved
      BY <3>6, StoreErrorTyped, FailTyped DEF TypeOK, Problems
    <3>7. QED
      BY <1>6, <3>1, <3>2, <3>3, <3>4, <3>5, <3>6
      DEF NextArchive, Problems, installing
  <2>3. QED
    BY <1>6, <2>2 DEF NextArchive, TypeOK, Holds
<1>7. CASE Receive(t)
  <2>1. next \in 1 .. Archives /\ counted \in Jobs
    BY <1>7, <1>a DEF Receive, PlaceInv
  <2> HIDE DEF next, counted
  <2>2. /\ held' \in [Workers -> Holds]
        /\ pc' \in [Workers -> PCs]
        /\ files' \in [Works -> SUBSET (1 .. Archives)]
    <3>1. CASE /\ files' = [files EXCEPT ![held[t].job.work] = @ \cup {next}]
               /\ Hold(t, counted) /\ Goto(t, "record")
      BY <3>1, <2>1, HoldTyped, GotoTyped DEF TypeOK, PCs, WorkPCs
    <3>2. CASE Stop(t, StopStatus, "None") /\ UNCHANGED files
      BY <3>2, StopTyped, StopStatusTyped DEF TypeOK
    <3>3. CASE (\E p \in Problems : Fail(t, p)) /\ UNCHANGED files
      BY <3>3, FailTyped DEF TypeOK
    <3>4. QED
      BY <1>7, <3>1, <3>2, <3>3 DEF Receive, next, counted
  <2>3. QED
    BY <1>7, <2>2 DEF Receive, TypeOK, Holds
<1>8. CASE Record(t)
  <2>1. held[t].id \in Ids
    BY <1>0, <1>8 DEF Record, PublishedPCs, RunPCs
  <2>2. /\ held' \in [Workers -> Holds]
        /\ pc' \in [Workers -> PCs]
        /\ store' \in [Ids -> Jobs]
        /\ unsaved' \subseteq Ids
        /\ failedSaves' \in 0 .. MaxFailedSaves
    <3>1. CASE /\ Save(held[t].id, held[t].job)
               /\ Goto(t, "archive") /\ UNCHANGED held
      BY <3>1, <2>1, <1>0, SaveTyped, GotoTyped DEF TypeOK, Holds, PCs, WorkPCs
    <3>2. CASE StoreError /\ Fail(t, "Session") /\ UNCHANGED unsaved
      BY <3>2, StoreErrorTyped, FailTyped DEF TypeOK, Problems
    <3>3. QED
      BY <1>8, <3>1, <3>2 DEF Record
  <2>3. QED
    BY <1>8, <2>2 DEF Record, TypeOK, Holds
<1>9. CASE Install(t)
  <2>1. held[t].id \in Ids
    BY <1>0, <1>9 DEF Install, PublishedPCs, RunPCs
  <2>2. \E status \in Statuses, p \in Problems \cup {"None"} : Stop(t, status, p)
    BY <1>9, StopStatusTyped DEF Install, Fail, Statuses, Problems
  <2>3. pc' \in [Workers -> PCs] /\ held' \in [Workers -> Holds]
    BY <2>2, StopTyped
  <2>4. files' \in [Works -> SUBSET (1 .. Archives)]
    BY <1>9, DiscardTyped DEF Install, TypeOK
  <2>5. stopAsked' \subseteq Ids
    BY <1>9, <2>1 DEF Install, TypeOK
  <2>6. QED
    BY <1>9, <2>3, <2>4, <2>5 DEF Install, TypeOK, Holds
<1>10. CASE Settle(t)
  BY <1>10, DiscardTyped, GotoTyped DEF Settle, TypeOK, PCs, WorkPCs
<1>11. CASE FinalSave(t)
  <2>1. held[t].id \in Ids
    BY <1>0, <1>11 DEF FinalSave, PublishedPCs, RunPCs
  <2>2. /\ store' \in [Ids -> Jobs]
        /\ unsaved' \subseteq Ids
        /\ failedSaves' \in 0 .. MaxFailedSaves
    BY <1>0, <1>11, <2>1, SaveTyped, StoreErrorTyped DEF FinalSave, TypeOK
  <2>3. pc' \in [Workers -> PCs]
    BY <1>11, GotoTyped DEF FinalSave, PCs, WorkPCs
  <2>4. QED
    BY <1>11, <2>2, <2>3 DEF FinalSave, TypeOK
<1>12. CASE Retire(t)
  <2>1. Idle \in Holds
    BY JobTypes DEF Idle, Holds
  <2>2. pc' \in [Workers -> PCs] /\ held' \in [Workers -> Holds]
    BY <1>12, <2>1, GotoTyped DEF Retire, TypeOK, Holds, PCs, WorkPCs
  <2>3. QED
    BY <1>12, <2>2 DEF Retire, TypeOK, Holds
<1>13. CASE React(t)
  <2>1. Idle \in Holds
    BY JobTypes DEF Idle, Holds
  <2>2. pc' \in [Workers -> PCs] /\ held' \in [Workers -> Holds]
    BY <1>13, <2>1, GotoTyped DEF React, TypeOK, Holds, PCs, WorkPCs
  <2>3. QED
    BY <1>13, <2>2 DEF React, TypeOK, Holds
<1>14. CASE Exit(t)
  BY <1>14, GotoTyped DEF Exit, TypeOK, PCs
<1>15. CASE Recheck(t)
  BY <1>15, GotoTyped DEF Recheck, TypeOK, PCs, WorkPCs
<1>16. QED
  BY <1>1, <1>2, <1>3, <1>4, <1>5, <1>6, <1>7, <1>8, <1>9, <1>10, <1>11,
     <1>12, <1>13, <1>14, <1>15 DEF WorkerStep

LEMMA ThenTyped ==
  ASSUME TypeOK, NEW c \in Callers, NEW op \in Ops, NEW j \in Ids \cup {0},
         NEW job \in Jobs, Then(c, op, j, job)
  PROVE  caller' \in [Callers -> Commands]
  BY DEF TypeOK, Then, Commands

LEMMA ReturnTyped ==
  ASSUME TypeOK, NEW c \in Callers, Return(c)
  PROVE  caller' \in [Callers -> Commands]
<1>1. NoCommand \in Commands
  BY JobTypes DEF NoCommand, Commands, Ops
<1>2. QED
  BY <1>1 DEF TypeOK, Return, Commands

LEMMA SaveThenTyped ==
  ASSUME TypeOK, NEW c \in Callers, NEW j \in Ids, NEW job \in Jobs,
         NEW op \in Ops, SaveThen(c, j, job, op)
  PROVE  /\ store' \in [Ids -> Jobs]
         /\ unsaved' \subseteq Ids
         /\ failedSaves' \in 0 .. MaxFailedSaves
         /\ caller' \in [Callers -> Commands]
<1>1. CASE Save(j, job) /\ Then(c, op, 0, NoJob)
  BY <1>1, SaveTyped, ThenTyped, JobTypes
<1>2. CASE StoreError /\ Return(c) /\ UNCHANGED unsaved
  BY <1>2, StoreErrorTyped, ReturnTyped DEF TypeOK
<1>3. QED
  BY <1>1, <1>2 DEF SaveThen

LEMMA ArrivesTyped ==
  ASSUME TypeOK, NEW c \in Callers, Arrives(c)
  PROVE  commands' \in 0 .. MaxCommands
  BY ConstantsAssumption DEF TypeOK, Arrives

LEMMA CommandTyped ==
  ASSUME TypeOK, NEW c \in Callers, CommandInv(c),
         CommandArrives(c) \/ CommandStep(c)
  PROVE  TypeOK'
<1>0. caller[c].job \in Jobs /\ caller[c].id \in Ids \cup {0}
  BY DEF TypeOK
<1>1. ASSUME NEW w \in Works, RequestInstall(c, w) PROVE TypeOK'
  <2>1. caller' \in [Callers -> Commands]
    BY <1>1, ThenTyped, JobTypes DEF RequestInstall, Ops
  <2>2. QED
    BY <1>1, <2>1, ArrivesTyped DEF RequestInstall, TypeOK, Commands
<1>2. CASE SaveQueued(c)
  <2>1. created + 1 \in Ids
    BY <1>2, ConstantsAssumption DEF SaveQueued, TypeOK, Ids
  <2>2. SaveThen(c, created + 1, caller[c].job, "kick")
    BY <1>2 DEF SaveQueued
  <2>3. /\ store' \in [Ids -> Jobs]
        /\ unsaved' \subseteq Ids
        /\ failedSaves' \in 0 .. MaxFailedSaves
        /\ caller' \in [Callers -> Commands]
    BY <2>1, <2>2, <1>0, SaveThenTyped DEF Ops
  <2>4. created' \in 0 .. MaxJobs
    BY <1>2, <2>1, ConstantsAssumption DEF SaveQueued, Ids
  <2>5. QED
    BY <1>2, <2>3, <2>4 DEF SaveQueued, TypeOK, Commands
<1>3. ASSUME NEW j \in Ids, RequestPause(c, j) PROVE TypeOK'
  <2>1. Settled(store[j], "Paused", "None") \in Jobs
    BY JobTypes DEF TypeOK, Statuses
  <2>2. caller' \in [Callers -> Commands]
    BY <1>3, <2>1, ThenTyped DEF RequestPause, Ops, TypeOK, Commands
  <2>3. control' \in [pause : BOOLEAN, cancel : BOOLEAN]
    BY <1>3 DEF RequestPause, TypeOK
  <2>4. QED
    BY <1>3, <2>2, <2>3, ArrivesTyped DEF RequestPause, TypeOK, Commands
<1>4. CASE SavePaused(c)
  <2>1. SaveThen(c, caller[c].id, caller[c].job, "idle") /\ caller[c].id \in Ids
    BY <1>4, <1>0 DEF SavePaused, CommandInv
  <2>2. QED
    BY <1>4, <2>1, <1>0, SaveThenTyped DEF SavePaused, TypeOK, Commands, Ops
<1>5. ASSUME NEW j \in Ids, RequestResume(c, j) PROVE TypeOK'
  <2>1. Requeued(store[j]) \in Jobs
    BY JobTypes DEF TypeOK
  <2>2. caller' \in [Callers -> Commands]
    BY <1>5, <2>1, ThenTyped DEF RequestResume, Ops
  <2>3. QED
    BY <1>5, <2>2, ArrivesTyped DEF RequestResume, TypeOK, Commands
<1>6. CASE SaveResumed(c)
  <2>1. SaveThen(c, caller[c].id, caller[c].job, "kick") /\ caller[c].id \in Ids
    BY <1>6, <1>0 DEF SaveResumed, CommandInv
  <2>2. QED
    BY <1>6, <2>1, <1>0, SaveThenTyped DEF SaveResumed, TypeOK, Commands, Ops
<1>7. ASSUME NEW j \in Ids, RequestCancel(c, j) PROVE TypeOK'
  <2>0. store[j] \in Jobs
    BY DEF TypeOK
  <2>1. [store[j] EXCEPT !.status = "Cancelled"] \in Jobs
    BY <2>0 DEF Jobs, Statuses
  <2>2. caller' \in [Callers -> Commands]
    BY <1>7, <2>1, ThenTyped DEF RequestCancel, Ops, TypeOK, Commands
  <2>3. control' \in [pause : BOOLEAN, cancel : BOOLEAN]
    BY <1>7 DEF RequestCancel, TypeOK
  <2>4. QED
    BY <1>7, <2>2, <2>3, ArrivesTyped DEF RequestCancel, TypeOK, Commands
<1>8. CASE DiscardCancelled(c)
  <2>1. caller' \in [Callers -> Commands]
    BY <1>8, <1>0, ThenTyped, ReturnTyped DEF DiscardCancelled, Ops
  <2>2. files' \in [Works -> SUBSET (1 .. Archives)]
    BY <1>8, DiscardTyped DEF DiscardCancelled, TypeOK
  <2>3. QED
    BY <1>8, <2>1, <2>2 DEF DiscardCancelled, TypeOK, Commands
<1>9. CASE SaveCancelled(c)
  <2>1. SaveThen(c, caller[c].id, caller[c].job, "idle") /\ caller[c].id \in Ids
    BY <1>9, <1>0 DEF SaveCancelled, CommandInv
  <2>2. QED
    BY <1>9, <2>1, <1>0, SaveThenTyped DEF SaveCancelled, TypeOK, Commands, Ops
<1>10. ASSUME NEW j \in Ids, RequestRemove(c, j) PROVE TypeOK'
  <2>1. caller' \in [Callers -> Commands]
    BY <1>10, ThenTyped, JobTypes DEF RequestRemove, Ops
  <2>2. QED
    BY <1>10, <2>1, ArrivesTyped DEF RequestRemove, TypeOK, Commands
<1>11. CASE DeleteRemoved(c)
  <2>1. caller[c].id \in Ids
    BY <1>11, <1>0 DEF DeleteRemoved, CommandInv
  <2>2. /\ store' \in [Ids -> Jobs]
        /\ unsaved' \subseteq Ids
        /\ failedSaves' \in 0 .. MaxFailedSaves
    BY <1>11, <2>1, SaveTyped, StoreErrorTyped, JobTypes
    DEF DeleteRemoved, TypeOK
  <2>3. QED
    BY <1>11, <2>2, ReturnTyped DEF DeleteRemoved, TypeOK, Commands
<1>12. CASE SignIn(c)
  <2>1. caller' \in [Callers -> Commands]
    BY <1>12, ThenTyped, JobTypes DEF SignIn, Ops
  <2>2. QED
    BY <1>12, <2>1, ArrivesTyped DEF SignIn, TypeOK, Commands
<1>13. CASE RequestSignOut(c)
  <2>1. caller' \in [Callers -> Commands]
    BY <1>13, ThenTyped, JobTypes DEF RequestSignOut, Ops
  <2>2. QED
    BY <1>13, <2>1, ArrivesTyped DEF RequestSignOut, TypeOK, Commands
<1>14. CASE DropCredentials(c)
  BY <1>14, ReturnTyped DEF DropCredentials, TypeOK, Commands
<1>15. CASE Kick(c)
  <2>1. pc' \in [Workers -> PCs]
    BY <1>15, GotoTyped DEF Kick, TypeOK, PCs, WorkPCs
  <2>2. QED
    BY <1>15, <2>1, ReturnTyped DEF Kick, TypeOK, Commands
<1>16. QED
  BY <1>1, <1>2, <1>3, <1>4, <1>5, <1>6, <1>7, <1>8, <1>9, <1>10, <1>11,
     <1>12, <1>13, <1>14, <1>15 DEF CommandArrives, CommandStep

LEMMA RestartTyped ==
  ASSUME TypeOK, Restart
  PROVE  TypeOK'
<1>1. store' \in [Ids -> Jobs]
  BY JobTypes DEF Restart, TypeOK
<1>2. /\ Idle \in Holds /\ NoCommand \in Commands
      /\ NoStop \in [pause : BOOLEAN, cancel : BOOLEAN]
  BY JobTypes DEF Holds, Commands, Idle, NoCommand, NoStop, Ops
<1>3. /\ held' \in [Workers -> Holds]
      /\ caller' \in [Callers -> Commands]
      /\ pc' \in [Workers -> PCs]
  BY <1>2 DEF Restart, PCs
<1>4. crashes' \in 0 .. MaxCrashes
  BY ConstantsAssumption DEF Restart, TypeOK
<1>5. QED
  BY <1>1, <1>2, <1>3, <1>4 DEF Restart, TypeOK, Holds, Commands
-----------------------------------------------------------------------------
(* One worker at a time.                                                    *)

\* A worker's step moves that worker only, and the flag is raised and lowered
\* together with its entering and leaving `work`.
LEMMA WorkerMoves ==
  ASSUME TypeOK, NEW t \in Workers, WorkerStep(t)
  PROVE  /\ \A u \in Workers \ {t} : pc'[u] = pc[u] /\ held'[u] = held[u]
         /\ \/ /\ pc[t] \in WorkPCs /\ pc'[t] \in WorkPCs
               /\ workerFlag' = workerFlag
            \/ pc[t] = "exit" /\ pc'[t] = "recheck" /\ workerFlag' = FALSE
            \/ /\ pc[t] = "recheck" /\ pc'[t] = "poll"
               /\ ~workerFlag /\ workerFlag' = TRUE
               /\ UNCHANGED <<running, held, store, unsaved, control>>
            \/ /\ pc[t] = "recheck" /\ pc'[t] = "idle"
               /\ workerFlag' = workerFlag
               /\ UNCHANGED <<running, held, store, unsaved, control>>
<1> USE DEF TypeOK, Goto, Hold, WorkPCs
<1>1. CASE Poll(t)
  BY <1>1 DEF Poll
<1>2. CASE Publish(t)
  BY <1>2 DEF Publish
<1>3. CASE Find(t)
  BY <1>3 DEF Find
<1>4. CASE Begin(t)
  BY <1>4 DEF Begin
<1>5. CASE Locate(t)
  BY <1>5 DEF Locate, Stop, Fail
<1>6. CASE NextArchive(t)
  BY <1>6 DEF NextArchive, Stop, Fail
<1>7. CASE Receive(t)
  BY <1>7 DEF Receive, Stop, Fail
<1>8. CASE Record(t)
  BY <1>8 DEF Record, Stop, Fail
<1>9. CASE Install(t)
  BY <1>9 DEF Install, Stop, Fail
<1>10. CASE Settle(t)
  BY <1>10 DEF Settle
<1>11. CASE FinalSave(t)
  BY <1>11 DEF FinalSave
<1>12. CASE Retire(t)
  BY <1>12 DEF Retire
<1>13. CASE React(t)
  BY <1>13 DEF React
<1>14. CASE Exit(t)
  BY <1>14 DEF Exit
<1>15. CASE Recheck(t)
  BY <1>15 DEF Recheck, MayStart
<1>16. QED
  BY <1>1, <1>2, <1>3, <1>4, <1>5, <1>6, <1>7, <1>8, <1>9, <1>10, <1>11,
     <1>12, <1>13, <1>14, <1>15 DEF WorkerStep

\* A command moves no worker, or starts an idle one while the flag is down.
LEMMA CommandMoves ==
  ASSUME TypeOK, NEW c \in Callers, CommandArrives(c) \/ CommandStep(c)
  PROVE  /\ UNCHANGED <<running, held>>
         /\ \/ UNCHANGED <<pc, workerFlag>>
            \/ /\ ~workerFlag /\ workerFlag' = TRUE
               /\ \E t \in Workers : pc[t] = "idle" /\ Goto(t, "poll")
<1>1. CASE CommandArrives(c)
  BY <1>1 DEF CommandArrives, RequestInstall, RequestPause, RequestResume,
     RequestCancel, RequestRemove, SignIn, RequestSignOut
<1>2. CASE CommandStep(c)
  BY <1>2 DEF CommandStep, SaveQueued, SavePaused, SaveResumed,
     DiscardCancelled, SaveCancelled, DeleteRemoved, DropCredentials, Kick,
     MayStart
<1>3. QED
  BY <1>1, <1>2

LEMMA OneWorkerStep ==
  ASSUME TypeOK, OneWorker, [Next]_vars
  PROVE  OneWorker'
<1>1. ASSUME NEW t \in Workers, WorkerStep(t) PROVE OneWorker'
  <2>1. CASE /\ pc[t] \in WorkPCs /\ pc'[t] \in WorkPCs
             /\ workerFlag' = workerFlag
    BY <1>1, <2>1, WorkerMoves DEF OneWorker
  <2>2. CASE pc[t] = "exit" /\ pc'[t] = "recheck" /\ workerFlag' = FALSE
    BY <1>1, <2>2, WorkerMoves DEF OneWorker, WorkPCs
  <2>3. CASE /\ pc[t] = "recheck" /\ pc'[t] = "poll"
             /\ ~workerFlag /\ workerFlag' = TRUE
    BY <1>1, <2>3, WorkerMoves DEF OneWorker, WorkPCs
  <2>4. CASE /\ pc[t] = "recheck" /\ pc'[t] = "idle"
             /\ workerFlag' = workerFlag
    BY <1>1, <2>4, WorkerMoves DEF OneWorker, WorkPCs
  <2>5. QED
    BY <1>1, <2>1, <2>2, <2>3, <2>4, WorkerMoves
<1>2. ASSUME NEW c \in Callers, CommandArrives(c) \/ CommandStep(c)
      PROVE  OneWorker'
  <2>1. CASE UNCHANGED <<pc, workerFlag>>
    BY <2>1 DEF OneWorker
  <2>2. CASE /\ ~workerFlag /\ workerFlag' = TRUE
             /\ \E t \in Workers : pc[t] = "idle" /\ Goto(t, "poll")
    BY <2>2 DEF OneWorker, TypeOK, Goto, WorkPCs
  <2>3. QED
    BY <1>2, <2>1, <2>2, CommandMoves
<1>3. CASE Restart
  BY <1>3 DEF Restart, OneWorker, WorkPCs
<1>4. CASE UNCHANGED vars
  BY <1>4 DEF vars, OneWorker
<1>5. QED
  BY <1>1, <1>2, <1>3, <1>4 DEF Next
-----------------------------------------------------------------------------
(* Where the workers are and what they hold.                                *)

\* Fields of the jobs the code builds.
LEMMA JobFields ==
  ASSUME NEW job \in Jobs, NEW status \in Statuses,
         NEW p \in Problems \cup {"None"}
  PROVE  /\ Settled(job, status, p).status = status
         /\ Settled(job, status, p).problem = p
         /\ [job EXCEPT !.located = TRUE].status = job.status
         /\ [job EXCEPT !.located = TRUE].problem = job.problem
         /\ \A n : /\ [job EXCEPT !.complete = n].status = job.status
                   /\ [job EXCEPT !.complete = n].problem = job.problem
         /\ [job EXCEPT !.status = status].status = status
         /\ [job EXCEPT !.status = status].problem = job.problem
  BY DEF Jobs, Settled

\* A stopped thread is about to settle a job that does not look busy, and
\* that says why it failed.
LEMMA StopPlaces ==
  ASSUME TypeOK, NEW t \in Workers, NEW status \in Statuses,
         NEW p \in Problems \cup {"None"}, Stop(t, status, p)
  PROVE  /\ pc'[t] = "settle" /\ held'[t].id = held[t].id
         /\ held'[t].job.status = status /\ held'[t].job.problem = p
<1>1. held[t].job \in Jobs
  BY DEF TypeOK
<1>2. held'[t].job = Settled(held[t].job, status, p)
  BY DEF Stop, Hold, TypeOK
<1>3. pc'[t] = "settle" /\ held'[t].id = held[t].id
  BY DEF Stop, Hold, Goto, TypeOK
<1>4. QED
  BY <1>1, <1>2, <1>3, JobFields

\* `deliver` stops for the user only when asked, and fails with a problem.
LEMMA StopKeeps ==
  ASSUME TypeOK, StopInv, NEW t \in Workers, PlaceInv(t),
         pc[t] \in RunPCs, UNCHANGED running, stopAsked \subseteq stopAsked',
         \/ StopRequested /\ Stop(t, StopStatus, "None")
         \/ \E p \in Problems : Fail(t, p)
         \/ \E status \in {"Installed", "NeedsReview"} : Stop(t, status, "None")
         \/ Stop(t, "Cancelled", "None") /\ held[t].id \in stopAsked'
  PROVE  PlaceInv(t)'
<1>1. held[t].id \in Ids /\ running = held[t].id
  BY DEF PlaceInv, PublishedPCs
<1>2. 0 \notin Ids
  BY DEF Ids
<1> USE DEF PlaceInv, PublishedPCs, RunPCs, Explained, Running, StopStatuses
<1>3. CASE StopRequested /\ Stop(t, StopStatus, "None")
  <2>1. StopStatus \in {"Cancelled", "Paused"} /\ StopStatus \in Statuses
    BY DEF StopStatus, Statuses
  <2>2. held[t].id \in stopAsked
    BY <1>1, <1>2, <1>3 DEF StopInv
  <2>3. QED
    BY <1>1, <1>3, <2>1, <2>2, StopPlaces
<1>4. ASSUME NEW p \in Problems, Fail(t, p) PROVE PlaceInv(t)'
  BY <1>1, <1>4, StopPlaces DEF Fail, Problems, Statuses
<1>5. ASSUME NEW status \in {"Installed", "NeedsReview"},
             Stop(t, status, "None")
      PROVE  PlaceInv(t)'
  BY <1>1, <1>5, StopPlaces DEF Statuses
<1>6. CASE Stop(t, "Cancelled", "None") /\ held[t].id \in stopAsked'
  BY <1>1, <1>6, StopPlaces DEF Statuses
<1>7. QED
  BY <1>3, <1>4, <1>5, <1>6

\* Nobody forgets that a stop was asked for.
LEMMA StopAskedGrows ==
  ASSUME [Next]_vars
  PROVE  stopAsked \subseteq stopAsked'
<1>1. ASSUME NEW t \in Workers, WorkerStep(t) PROVE stopAsked \subseteq stopAsked'
  BY <1>1 DEF WorkerStep, Poll, Publish, Find, Begin, Locate, NextArchive,
     Receive, Record, Install, Settle, FinalSave, Retire, React, Exit, Recheck
<1>2. ASSUME NEW c \in Callers, CommandArrives(c) \/ CommandStep(c)
      PROVE  stopAsked \subseteq stopAsked'
  BY <1>2 DEF CommandArrives, CommandStep, RequestInstall, RequestPause,
     RequestResume, RequestCancel, RequestRemove, SignIn, RequestSignOut,
     SaveQueued, SavePaused, SaveResumed, DiscardCancelled, SaveCancelled,
     DeleteRemoved, DropCredentials, Kick
<1>3. QED
  BY <1>1, <1>2 DEF Next, Restart, vars

LEMMA PlaceOwn ==
  ASSUME TypeOK, StopInv, StopsWereAsked, StatusExplained,
         NEW t \in Workers, PlaceInv(t), WorkerStep(t),
         stopAsked \subseteq stopAsked'
  PROVE  PlaceInv(t)'
<1>0. held[t].job \in Jobs /\ Explained(NoJob) /\ NoJob.status = "Absent"
  BY DEF TypeOK, Explained, NoJob
<1> USE DEF PublishedPCs, RunPCs
<1>1. CASE Poll(t)
  BY <1>1, <1>0 DEF Poll, PlaceInv, TypeOK, Goto, StopStatuses
<1>2. CASE Publish(t)
  BY <1>2 DEF Publish, PlaceInv, TypeOK, Goto, Running
<1>3. CASE Find(t)
  <2>1. held[t].id \in Ids /\ store[held[t].id] \in Jobs
    BY <1>3 DEF Find, PlaceInv, TypeOK
  <2>2. /\ Explained(store[held[t].id])
        /\ store[held[t].id].status \in StopStatuses => held[t].id \in stopAsked
    BY <2>1 DEF StatusExplained, StopsWereAsked, Explained, StopStatuses
  <2>3. CASE /\ Hold(t, Settled(store[held[t].id], "Downloading", "None"))
             /\ Goto(t, "begin")
    <3>1. /\ held'[t].job = Settled(store[held[t].id], "Downloading", "None")
          /\ held'[t].id = held[t].id /\ pc'[t] = "begin"
      BY <2>3 DEF Hold, Goto, TypeOK
    <3>2. held'[t].job.status = "Downloading" /\ held'[t].job.problem = "None"
      BY <3>1, <2>1, JobFields DEF Statuses
    <3>3. QED
      BY <1>3, <3>1, <3>2, <2>1 DEF Find, PlaceInv, Explained, StopStatuses
  <2>4. CASE Hold(t, store[held[t].id]) /\ Goto(t, "done")
    BY <1>3, <2>4, <2>1, <2>2 DEF Find, PlaceInv, Hold, Goto, TypeOK
  <2>5. CASE Goto(t, "abort") /\ UNCHANGED held
    BY <1>3, <2>5 DEF Find, PlaceInv, Goto, TypeOK
  <2>6. QED
    BY <1>3, <2>3, <2>4, <2>5 DEF Find
<1>4. CASE Begin(t)
  BY <1>4 DEF Begin, PlaceInv, TypeOK, Goto
<1>5. CASE Locate(t)
  <2> DEFINE found == [held[t].job EXCEPT !.located = TRUE]
  <2>1. /\ found \in Jobs /\ found.status = "Downloading"
        /\ Explained(found)
    <3>1. found \in Jobs
      BY <1>0 DEF Jobs
    <3>2. found.status = held[t].job.status /\ found.problem = held[t].job.problem
      BY <1>0 DEF Jobs
    <3>3. QED
      BY <1>5, <3>1, <3>2 DEF Locate, PlaceInv, Explained
  <2> HIDE DEF found
  <2>2. CASE Goto(t, "archive") /\ UNCHANGED held
    BY <1>5, <2>2 DEF Locate, PlaceInv, TypeOK, Goto
  <2>3. CASE \/ StopRequested /\ Stop(t, StopStatus, "None")
             \/ \E p \in Problems : Fail(t, p)
    BY <1>5, <2>3, StopKeeps DEF Locate
  <2>4. CASE Hold(t, found) /\ Goto(t, "archive")
    BY <1>5, <2>4, <2>1 DEF Locate, PlaceInv, TypeOK, Hold, Goto, StopStatuses
  <2>5. CASE /\ Hold(t, Settled(found, "Failed", "Session"))
             /\ Goto(t, "settle")
    <3>1. /\ held'[t].job = Settled(found, "Failed", "Session")
          /\ held'[t].id = held[t].id /\ pc'[t] = "settle"
      BY <2>5 DEF Hold, Goto, TypeOK
    <3>2. held'[t].job.status = "Failed" /\ held'[t].job.problem = "Session"
      BY <3>1, <2>1, JobFields DEF Statuses, Problems
    <3>3. QED
      BY <1>5, <3>1, <3>2
      DEF Locate, PlaceInv, Explained, StopStatuses, Running
  <2>6. QED
    BY <1>5, <2>2, <2>3, <2>4, <2>5 DEF Locate, Hold, Problems, found
<1>6. CASE NextArchive(t)
  <2> DEFINE next == held[t].job.complete + 1
             counted == [held[t].job EXCEPT !.complete = next]
             installing == [held[t].job EXCEPT !.status = "Installing"]
  <2>1. /\ counted.status = "Downloading" /\ Explained(counted)
        /\ installing.status = "Installing" /\ Explained(installing)
    BY <1>6, <1>0 DEF NextArchive, PlaceInv, Explained, Jobs
  <2> HIDE DEF counted, installing
  <2>2. CASE \/ StopRequested /\ Stop(t, StopStatus, "None")
             \/ \E p \in Problems : Fail(t, p)
    BY <1>6, <2>2, StopKeeps DEF NextArchive
  <2>3. CASE Hold(t, counted) /\ Goto(t, "record")
    BY <1>6, <2>3, <2>1 DEF NextArchive, PlaceInv, TypeOK, Hold, Goto, StopStatuses
  <2>4. CASE /\ LacksArchive(held[t].job)
             /\ Goto(t, "receive") /\ UNCHANGED held
    BY <1>6, <2>4 DEF NextArchive, PlaceInv, TypeOK, Goto, LacksArchive
  <2>5. CASE Hold(t, installing) /\ Goto(t, "install")
    BY <1>6, <2>5, <2>1 DEF NextArchive, PlaceInv, TypeOK, Hold, Goto, StopStatuses
  <2>6. QED
    BY <1>6, <2>2, <2>3, <2>4, <2>5 DEF NextArchive, Problems, counted, installing
<1>7. CASE Receive(t)
  <2> DEFINE next == held[t].job.complete + 1
             counted == [held[t].job EXCEPT !.complete = next]
  <2>1. counted.status = "Downloading" /\ Explained(counted)
    BY <1>7, <1>0 DEF Receive, PlaceInv, Explained, Jobs
  <2> HIDE DEF counted
  <2>2. CASE \/ StopRequested /\ Stop(t, StopStatus, "None")
             \/ \E p \in Problems : Fail(t, p)
    BY <1>7, <2>2, StopKeeps DEF Receive
  <2>3. CASE Hold(t, counted) /\ Goto(t, "record")
    BY <1>7, <2>3, <2>1 DEF Receive, PlaceInv, TypeOK, Hold, Goto, StopStatuses
  <2>4. QED
    BY <1>7, <2>2, <2>3 DEF Receive, counted
<1>8. CASE Record(t)
  <2>1. CASE Goto(t, "archive") /\ UNCHANGED held
    BY <1>8, <2>1 DEF Record, PlaceInv, TypeOK, Goto
  <2>2. CASE Fail(t, "Session")
    BY <1>8, <2>2, StopKeeps DEF Record, Problems
  <2>3. QED
    BY <1>8, <2>1, <2>2 DEF Record
<1>9. CASE Install(t)
  BY <1>9, StopKeeps DEF Install, Problems
<1>10. CASE Settle(t)
  BY <1>10 DEF Settle, PlaceInv, TypeOK, Goto
<1>11. CASE FinalSave(t)
  BY <1>11 DEF FinalSave, PlaceInv, TypeOK, Goto
<1>12. CASE Retire(t)
  <2>1. pc'[t] \in {"react", "exit"} /\ held'[t] \in {held[t], Idle}
    BY <1>12 DEF Retire, TypeOK, Goto
  <2>2. Idle.job = NoJob
    BY DEF Idle
  <2>3. Explained(held'[t].job)
    BY <2>1, <2>2, <1>0 DEF PlaceInv
  <2>4. held'[t].job.status \in StopStatuses => held'[t].id \in stopAsked'
    BY <2>1, <2>2, <1>0 DEF PlaceInv, StopStatuses
  <2>5. QED
    BY <2>1, <2>3, <2>4 DEF PlaceInv, Explained
<1>13. CASE React(t)
  <2>1. pc'[t] \in {"poll", "exit"} /\ held'[t] = Idle /\ Idle.job = NoJob
    BY <1>13 DEF React, TypeOK, Goto, Idle
  <2>2. QED
    BY <2>1, <1>0 DEF PlaceInv, StopStatuses, Explained
<1>14. CASE Exit(t)
  BY <1>14 DEF Exit, PlaceInv, TypeOK, Goto
<1>15. CASE Recheck(t)
  BY <1>15 DEF Recheck, PlaceInv, TypeOK, Goto
<1>16. QED
  BY <1>1, <1>2, <1>3, <1>4, <1>5, <1>6, <1>7, <1>8, <1>9, <1>10, <1>11,
     <1>12, <1>13, <1>14, <1>15 DEF WorkerStep

LEMMA PlaceStep ==
  ASSUME IInv, [Next]_vars
  PROVE  \A u \in Workers : PlaceInv(u)'
<1>0. stopAsked \subseteq stopAsked'
  BY StopAskedGrows
<1>1. ASSUME NEW u \in Workers, pc'[u] = pc[u], held'[u] = held[u],
             pc[u] \in PublishedPCs => running' = running
      PROVE  PlaceInv(u)'
  <2>1. PlaceInv(u)
    BY DEF IInv
  <2>2. QED
    BY <1>0, <1>1, <2>1 DEF PlaceInv, LacksArchive
<1>2. ASSUME NEW t \in Workers, WorkerStep(t), NEW u \in Workers
      PROVE  PlaceInv(u)'
  <2>1. CASE u = t
    BY <1>0, <1>2, <2>1, PlaceOwn DEF IInv
  <2>2. CASE u # t
    <3>1. pc'[u] = pc[u] /\ held'[u] = held[u]
      BY <1>2, <2>2, WorkerMoves DEF IInv
    <3>2. ASSUME pc[u] \in PublishedPCs PROVE running' = running
      <4>1. pc[u] \in WorkPCs
        BY <3>2 DEF PublishedPCs, RunPCs, WorkPCs
      <4>2. pc[t] \notin WorkPCs
        BY <4>1, <2>2 DEF IInv, OneWorker
      <4>3. QED
        BY <1>2, <4>2, WorkerMoves DEF IInv, WorkPCs
    <3>3. QED
      BY <1>1, <3>1, <3>2
  <2>3. QED
    BY <2>1, <2>2
<1>3. ASSUME NEW c \in Callers, CommandArrives(c) \/ CommandStep(c),
             NEW u \in Workers
      PROVE  PlaceInv(u)'
  <2>1. CASE pc'[u] = pc[u]
    BY <1>1, <1>3, <2>1, CommandMoves DEF IInv
  <2>2. CASE pc'[u] # pc[u]
    <3>1. pc'[u] = "poll" /\ held'[u] = held[u]
      BY <1>3, <2>2, CommandMoves DEF IInv, TypeOK, Goto
    <3>2. PlaceInv(u)
      BY DEF IInv
    <3>3. QED
      BY <1>0, <3>1, <3>2 DEF PlaceInv, PublishedPCs, RunPCs
  <2>3. QED
    BY <2>1, <2>2
<1>4. ASSUME Restart, NEW u \in Workers PROVE PlaceInv(u)'
  <2>1. pc'[u] = "idle" /\ held'[u] = Idle /\ Idle.job = NoJob
    BY <1>4 DEF Restart, Idle
  <2>2. QED
    BY <2>1 DEF PlaceInv, PublishedPCs, RunPCs, Explained, StopStatuses, NoJob
<1>5. ASSUME UNCHANGED vars, NEW u \in Workers PROVE PlaceInv(u)'
  BY <1>1, <1>5 DEF vars
<1>6. QED
  BY <1>2, <1>3, <1>4, <1>5 DEF Next

-----------------------------------------------------------------------------
(* What the commands are about to write, and the stops that were asked for. *)

LEMMA JobsExplained ==
  ASSUME TypeOK, StatusExplained
  PROVE  /\ \A j \in Ids : store[j] \in Jobs /\ Explained(store[j])
         /\ Explained(NoJob) /\ NoJob.status = "Absent"
  BY DEF TypeOK, StatusExplained, Explained, NoJob

LEMMA CommandInvStep ==
  ASSUME IInv, [Next]_vars
  PROVE  \A d \in Callers : CommandInv(d)'
<1>0. stopAsked \subseteq stopAsked'
  BY StopAskedGrows
<1>1. ASSUME NEW d \in Callers, caller'[d] = caller[d] PROVE CommandInv(d)'
  BY <1>0, <1>1 DEF IInv, CommandInv
<1>2. ASSUME NEW d \in Callers, NEW op \in {"idle", "kick", "signOut"},
             caller'[d].op = op, caller'[d].job = NoJob
      PROVE  CommandInv(d)'
  BY <1>2, JobsExplained
  DEF IInv, CommandInv, Running, StopStatuses
<1>3. ASSUME NEW t \in Workers, WorkerStep(t) PROVE caller' = caller
  BY <1>3 DEF WorkerStep, Poll, Publish, Find, Begin, Locate, NextArchive,
     Receive, Record, Install, Settle, FinalSave, Retire, React, Exit, Recheck
<1>4. ASSUME NEW c \in Callers, CommandArrives(c) \/ CommandStep(c)
      PROVE  /\ \A d \in Callers \ {c} : caller'[d] = caller[d]
             /\ CommandInv(c)'
  <2> USE DEF IInv
  <2>1. ASSUME NEW op \in Ops, NEW j \in Ids \cup {0}, NEW job \in Jobs,
               Then(c, op, j, job)
        PROVE  /\ caller'[c] = [op |-> op, id |-> j, job |-> job]
               /\ \A d \in Callers \ {c} : caller'[d] = caller[d]
    BY <2>1 DEF Then, TypeOK
  <2>2. ASSUME Return(c)
        PROVE  /\ CommandInv(c)'
               /\ \A d \in Callers \ {c} : caller'[d] = caller[d]
    <3>1. caller'[c] = NoCommand
      BY <2>2 DEF Return, TypeOK
    <3>2. NoCommand.op = "idle" /\ NoCommand.job = NoJob
      BY DEF NoCommand
    <3>3. QED
      BY <2>2, <3>1, <3>2, <1>2 DEF Return, TypeOK
  <2>3. ASSUME NEW op \in {"idle", "kick", "signOut"}, Then(c, op, 0, NoJob)
        PROVE  /\ CommandInv(c)'
               /\ \A d \in Callers \ {c} : caller'[d] = caller[d]
    <3>1. /\ caller'[c] = [op |-> op, id |-> 0, job |-> NoJob]
          /\ \A d \in Callers \ {c} : caller'[d] = caller[d]
      BY <2>1, <2>3, JobTypes DEF Ops
    <3>2. QED
      BY <3>1, <1>2
  <2>4. ASSUME NEW op \in Ops \ {"queue"}, NEW j \in Ids, NEW job \in Jobs,
               Then(c, op, j, job), ~Running(job.status), Explained(job),
               job.status \in StopStatuses => j \in stopAsked'
        PROVE  /\ CommandInv(c)'
               /\ \A d \in Callers \ {c} : caller'[d] = caller[d]
    <3>1. /\ caller'[c] = [op |-> op, id |-> j, job |-> job]
          /\ \A d \in Callers \ {c} : caller'[d] = caller[d]
      BY <2>1, <2>4
    <3>2. caller'[c].op = op /\ caller'[c].id = j /\ caller'[c].job = job
      BY <3>1
    <3>3. CommandInv(c)'
      BY <3>2, <2>4 DEF CommandInv
    <3>4. QED
      BY <3>1, <3>3
  <2>5. ASSUME NEW w \in Works, RequestInstall(c, w)
        PROVE  /\ CommandInv(c)'
               /\ \A d \in Callers \ {c} : caller'[d] = caller[d]
    <3>1. CASE Then(c, "kick", 0, NoJob)
      BY <3>1, <2>3
    <3>2. CASE Then(c, "queue", 0, NewJob(w))
      <4>1. /\ NewJob(w) \in Jobs /\ NewJob(w).status = "Queued"
            /\ NewJob(w).problem = "None"
        BY JobTypes DEF NewJob, NoJob
      <4>2. caller'[c] = [op |-> "queue", id |-> 0, job |-> NewJob(w)]
        BY <3>2, <4>1, <2>1 DEF Ops
      <4>3. QED
        BY <3>2, <4>1, <4>2, <2>1
        DEF CommandInv, Running, Explained, StopStatuses, Ops
    <3>3. QED
      BY <2>5, <3>1, <3>2 DEF RequestInstall
  <2>6. ASSUME NEW j \in Ids, RequestPause(c, j)
        PROVE  /\ CommandInv(c)'
               /\ \A d \in Callers \ {c} : caller'[d] = caller[d]
    <3> DEFINE paused == Settled(store[j], "Paused", "None")
    <3>1. paused \in Jobs /\ paused.status = "Paused" /\ paused.problem = "None"
      BY JobsExplained, JobTypes, JobFields DEF Statuses
    <3> HIDE DEF paused
    <3>2. CASE UNCHANGED caller
      BY <3>2, <1>1
    <3>3. CASE Then(c, "pause", j, paused)
      BY <2>6, <3>1, <3>3, <2>4
      DEF RequestPause, Running, Explained, StopStatuses, Ops
    <3>4. QED
      BY <2>6, <3>2, <3>3 DEF RequestPause, paused
  <2>7. ASSUME NEW j \in Ids, RequestResume(c, j)
        PROVE  /\ CommandInv(c)'
               /\ \A d \in Callers \ {c} : caller'[d] = caller[d]
    <3> DEFINE again == Requeued(store[j])
    <3>1. again \in Jobs /\ again.status = "Queued" /\ again.problem = "None"
      BY JobsExplained, JobTypes, JobFields DEF Statuses, Requeued
    <3>2. Then(c, "resume", j, again)
      BY <2>7 DEF RequestResume
    <3> HIDE DEF again
    <3>3. QED
      BY <3>1, <3>2, <2>4 DEF Running, Explained, StopStatuses, Ops
  <2>8. ASSUME NEW j \in Ids, RequestCancel(c, j)
        PROVE  /\ CommandInv(c)'
               /\ \A d \in Callers \ {c} : caller'[d] = caller[d]
    <3> DEFINE cancelled == [store[j] EXCEPT !.status = "Cancelled"]
    <3>1. cancelled \in Jobs /\ cancelled.status = "Cancelled"
      BY JobsExplained DEF Statuses, Jobs
    <3> HIDE DEF cancelled
    <3>2. CASE UNCHANGED caller
      BY <3>2, <1>1
    <3>3. CASE Then(c, "discard", j, cancelled)
      BY <2>8, <3>1, <3>3, <2>4
      DEF RequestCancel, Running, Explained, StopStatuses, Ops
    <3>4. QED
      BY <2>8, <3>2, <3>3 DEF RequestCancel, cancelled
  <2>9. ASSUME NEW j \in Ids, RequestRemove(c, j)
        PROVE  /\ CommandInv(c)'
               /\ \A d \in Callers \ {c} : caller'[d] = caller[d]
    BY <2>9, <2>4, JobTypes, JobsExplained
    DEF RequestRemove, Running, StopStatuses, Ops
  <2>10. ASSUME SignIn(c) \/ RequestSignOut(c)
         PROVE  /\ CommandInv(c)'
                /\ \A d \in Callers \ {c} : caller'[d] = caller[d]
    BY <2>10, <2>3 DEF SignIn, RequestSignOut
  <2>11. CASE CommandArrives(c)
    BY <2>11, <2>5, <2>6, <2>7, <2>8, <2>9, <2>10 DEF CommandArrives
  <2>12. CASE DiscardCancelled(c)
    <3>1. CASE Then(c, "cancel", caller[c].id, caller[c].job)
      <4>1. caller[c].id \in Ids /\ caller[c].job \in Jobs /\ CommandInv(c)
        BY <2>12 DEF DiscardCancelled, CommandInv, TypeOK
      <4>2. QED
        BY <4>1, <3>1, <2>4, <1>0 DEF CommandInv, Ops
    <3>2. QED
      BY <2>12, <3>1, <2>2 DEF DiscardCancelled
  <2>13. CASE CommandStep(c) /\ ~DiscardCancelled(c)
    BY <2>13, <2>2, <2>3 DEF CommandStep, SaveQueued, SavePaused, SaveResumed,
       SaveCancelled, DeleteRemoved, DropCredentials, Kick, SaveThen
  <2>14. QED
    BY <1>4, <2>11, <2>12, <2>13
<1>5. ASSUME Restart, NEW d \in Callers PROVE CommandInv(d)'
  <2>1. caller'[d].op = "idle" /\ caller'[d].job = NoJob
    BY <1>5 DEF Restart, NoCommand
  <2>2. QED
    BY <2>1, <1>2
<1>6. QED
  BY <1>1, <1>3, <1>4, <1>5 DEF Next, vars

LEMMA StopInvStep ==
  ASSUME IInv, [Next]_vars
  PROVE  StopInv'
<1>0. stopAsked \subseteq stopAsked'
  BY StopAskedGrows
<1>1. ASSUME running' \in {running, 0}, UNCHANGED control PROVE StopInv'
  BY <1>0, <1>1 DEF IInv, StopInv, StopRequested
<1>2. ASSUME NEW t \in Workers, WorkerStep(t) PROVE StopInv'
  <2>1. CASE Publish(t)
    BY <2>1 DEF Publish, FreshControl, NoStop, StopInv, StopRequested
  <2>2. CASE ~Publish(t)
    BY <1>1, <1>2, <2>2 DEF WorkerStep, Poll, Find, Begin, Locate,
       NextArchive, Receive, Record, Install, Settle, FinalSave, Retire,
       React, Exit, Recheck
  <2>3. QED
    BY <2>1, <2>2
<1>3. ASSUME NEW c \in Callers, CommandArrives(c) \/ CommandStep(c)
      PROVE  StopInv'
  <2>1. running' = running
    BY <1>3, CommandMoves DEF IInv
  <2>2. \/ UNCHANGED control
        \/ running \in stopAsked' \cup {0}
    BY <1>3 DEF CommandArrives, CommandStep, RequestInstall, RequestPause,
       RequestResume, RequestCancel, RequestRemove, SignIn, RequestSignOut,
       SaveQueued, SavePaused, SaveResumed, DiscardCancelled, SaveCancelled,
       DeleteRemoved, DropCredentials, Kick
  <2>3. QED
    BY <1>1, <2>1, <2>2 DEF StopInv
<1>4. CASE Restart
  BY <1>4 DEF Restart, StopInv
<1>5. QED
  BY <1>1, <1>2, <1>3, <1>4 DEF Next, vars

-----------------------------------------------------------------------------
(* What the worker and the commands write.                                  *)

\* A worker writes the job it holds, as running while it stays inside `run`
\* or as settled when it leaves it, or it writes nothing.
LEMMA WorkerWrites ==
  ASSUME TypeOK, NEW t \in Workers, PlaceInv(t), WorkerStep(t)
  PROVE  \/ /\ UNCHANGED <<store, unsaved>>
            /\ pc[t] \in RunPCs => pc'[t] \in RunPCs /\ held'[t].id = held[t].id
         \/ /\ UNCHANGED store
            /\ unsaved' = unsaved \cup {held[t].id}
         \/ \E job \in Jobs :
              /\ Save(held[t].id, job) /\ held[t].id \in Ids
              /\ Explained(job)
              /\ job.status \in StopStatuses => held[t].id \in stopAsked
              /\ \/ ~Running(job.status)
                 \/ pc'[t] \in RunPCs /\ held'[t].id = held[t].id
<1>0. held[t].job \in Jobs
  BY DEF TypeOK
<1> USE DEF RunPCs
<1>1. CASE Poll(t)
  BY <1>1 DEF Poll, StoreError
<1>2. CASE Publish(t)
  BY <1>2 DEF Publish
<1>3. CASE Find(t)
  BY <1>3 DEF Find, StoreError
<1>4. CASE Begin(t)
  <2>1. CASE Save(held[t].id, held[t].job) /\ Goto(t, "locate")
    BY <1>0, <1>4, <2>1 DEF Begin, PlaceInv, PublishedPCs, Goto, TypeOK
  <2>2. CASE StoreError /\ UNCHANGED unsaved
    BY <1>4, <2>2 DEF Begin, StoreError
  <2>3. QED
    BY <1>4, <2>1, <2>2 DEF Begin
<1>5. CASE Locate(t)
  <2> DEFINE found == [held[t].job EXCEPT !.located = TRUE]
  <2>1. /\ found \in Jobs
        /\ found.status = held[t].job.status
        /\ found.problem = held[t].job.problem
    BY <1>0 DEF Jobs
  <2> HIDE DEF found
  <2>2. CASE /\ Save(held[t].id, found) /\ Hold(t, found) /\ Goto(t, "archive")
    <3>1. pc'[t] = "archive" /\ held'[t].id = held[t].id
      BY <2>2 DEF Hold, Goto, TypeOK
    <3>2. /\ held[t].id \in Ids /\ Explained(found)
          /\ found.status = "Downloading"
      BY <1>5, <2>1 DEF Locate, PlaceInv, PublishedPCs, Explained
    <3>3. QED
      BY <2>1, <2>2, <3>1, <3>2 DEF StopStatuses
  <2>3. CASE UNCHANGED <<store, unsaved>>
    <3>1. pc'[t] \in {"settle", "archive"} /\ held'[t].id = held[t].id
      BY <1>5, <2>3 DEF Locate, Stop, Fail, Hold, Goto, TypeOK
    <3>2. QED
      BY <2>3, <3>1
  <2>4. QED
    BY <1>5, <2>2, <2>3 DEF Locate, StoreError, found
<1>6. CASE NextArchive(t)
  <2> DEFINE installing == [held[t].job EXCEPT !.status = "Installing"]
  <2>1. /\ installing \in Jobs
        /\ installing.status = "Installing"
        /\ installing.problem = held[t].job.problem
    BY <1>0 DEF Jobs, Statuses
  <2> HIDE DEF installing
  <2>2. CASE /\ Save(held[t].id, installing)
             /\ Hold(t, installing) /\ Goto(t, "install")
    <3>1. pc'[t] = "install" /\ held'[t].id = held[t].id
      BY <2>2 DEF Hold, Goto, TypeOK
    <3>2. held[t].id \in Ids /\ Explained(installing)
      BY <1>6, <2>1 DEF NextArchive, PlaceInv, PublishedPCs, Explained
    <3>3. QED
      BY <2>1, <2>2, <3>1, <3>2 DEF StopStatuses
  <2>3. CASE UNCHANGED <<store, unsaved>>
    <3>1. pc'[t] \in {"settle", "record", "receive", "install"}
      BY <1>6 DEF NextArchive, Stop, Fail, Goto, TypeOK
    <3>2. held'[t].id = held[t].id
      BY <1>6 DEF NextArchive, Stop, Fail, Hold, TypeOK
    <3>3. QED
      BY <2>3, <3>1, <3>2
  <2>4. QED
    BY <1>6, <2>2, <2>3 DEF NextArchive, StoreError, installing
<1>7. CASE Receive(t)
  <2>1. pc'[t] \in {"settle", "record"}
    BY <1>7 DEF Receive, Stop, Fail, Goto, TypeOK
  <2>2. held'[t].id = held[t].id
    BY <1>7 DEF Receive, Stop, Fail, Hold, TypeOK
  <2>3. QED
    BY <1>7, <2>1, <2>2 DEF Receive
<1>8. CASE Record(t)
  <2>1. CASE Save(held[t].id, held[t].job) /\ Goto(t, "archive") /\ UNCHANGED held
    BY <1>0, <1>8, <2>1 DEF Record, PlaceInv, PublishedPCs, Goto, TypeOK
  <2>2. CASE StoreError /\ Fail(t, "Session") /\ UNCHANGED unsaved
    <3>1. pc'[t] = "settle" /\ held'[t].id = held[t].id
      BY <2>2 DEF Stop, Fail, Hold, Goto, TypeOK
    <3>2. QED
      BY <2>2, <3>1 DEF StoreError
  <2>3. QED
    BY <1>8, <2>1, <2>2 DEF Record
<1>9. CASE Install(t)
  <2>1. pc'[t] = "settle"
    BY <1>9 DEF Install, Stop, Fail, Goto, TypeOK
  <2>2. held'[t].id = held[t].id
    BY <1>9 DEF Install, Stop, Fail, Hold, TypeOK
  <2>3. QED
    BY <1>9, <2>1, <2>2 DEF Install
<1>10. CASE Settle(t)
  BY <1>10 DEF Settle, Goto, TypeOK
<1>11. CASE FinalSave(t)
  <2>1. CASE Save(held[t].id, held[t].job)
    BY <1>0, <1>11, <2>1 DEF FinalSave, PlaceInv, PublishedPCs
  <2>2. CASE StoreError /\ unsaved' = unsaved \cup {held[t].id}
    BY <2>2 DEF StoreError
  <2>3. QED
    BY <1>11, <2>1, <2>2 DEF FinalSave
<1>12. CASE Retire(t)
  BY <1>12 DEF Retire
<1>13. CASE React(t)
  BY <1>13 DEF React
<1>14. CASE Exit(t)
  BY <1>14 DEF Exit
<1>15. CASE Recheck(t)
  BY <1>15 DEF Recheck
<1>16. QED
  BY <1>1, <1>2, <1>3, <1>4, <1>5, <1>6, <1>7, <1>8, <1>9, <1>10, <1>11,
     <1>12, <1>13, <1>14, <1>15 DEF WorkerStep

\* A command writes a job that nobody runs, or nothing.
LEMMA CommandWrites ==
  ASSUME TypeOK, NEW c \in Callers, CommandInv(c),
         CommandArrives(c) \/ CommandStep(c)
  PROVE  \/ UNCHANGED <<store, unsaved>>
         \/ \E j \in Ids, job \in Jobs :
              /\ Save(j, job)
              /\ ~Running(job.status) /\ Explained(job)
              /\ job.status \in StopStatuses => j \in stopAsked
<1>0. caller[c].job \in Jobs
  BY DEF TypeOK
<1>1. CASE CommandArrives(c)
  BY <1>1 DEF CommandArrives, RequestInstall, RequestPause, RequestResume,
     RequestCancel, RequestRemove, SignIn, RequestSignOut
<1>2. CASE SaveQueued(c)
  <2>1. created + 1 \in Ids
    BY <1>2, ConstantsAssumption DEF SaveQueued, TypeOK, Ids
  <2>2. caller[c].job.status \notin StopStatuses
    BY <1>2 DEF SaveQueued, CommandInv
  <2>3. QED
    BY <1>0, <1>2, <2>1, <2>2 DEF SaveQueued, SaveThen, StoreError, CommandInv
<1>3. CASE SavePaused(c) \/ SaveResumed(c) \/ SaveCancelled(c)
  BY <1>0, <1>3 DEF SavePaused, SaveResumed, SaveCancelled, SaveThen,
     StoreError, CommandInv
<1>4. CASE DeleteRemoved(c)
  <2>1. caller[c].id \in Ids
    BY <1>4 DEF DeleteRemoved, CommandInv
  <2>2. ~Running(NoJob.status) /\ NoJob.status \notin StopStatuses /\ Explained(NoJob)
    BY DEF NoJob, Running, StopStatuses, Explained
  <2>3. QED
    BY <1>4, <2>1, <2>2, JobTypes DEF DeleteRemoved, StoreError
<1>5. CASE DiscardCancelled(c) \/ DropCredentials(c) \/ Kick(c)
  BY <1>5 DEF DiscardCancelled, DropCredentials, Kick
<1>6. QED
  BY <1>1, <1>2, <1>3, <1>4, <1>5 DEF CommandStep
-----------------------------------------------------------------------------
(* What is stored.                                                          *)

\* A write of a job that explains itself and was stopped, if at all, at
\* somebody's request.
LEMMA GoodWrite ==
  ASSUME IInv, stopAsked \subseteq stopAsked',
         NEW i \in Ids, NEW job \in Jobs, Save(i, job), Explained(job),
         job.status \in StopStatuses => i \in stopAsked
  PROVE  StopsWereAsked' /\ StatusExplained'
<1>1. \A j \in Ids : store'[j] = IF j = i THEN job ELSE store[j]
  BY DEF Save, IInv, TypeOK
<1>2. StopsWereAsked'
  BY <1>1 DEF IInv, StopsWereAsked, StopStatuses
<1>3. StatusExplained'
  BY <1>1 DEF IInv, StatusExplained, Explained
<1>4. QED
  BY <1>2, <1>3

LEMMA StoredStep ==
  ASSUME IInv, [Next]_vars
  PROVE  StopsWereAsked' /\ StatusExplained'
<1>0. stopAsked \subseteq stopAsked'
  BY StopAskedGrows
<1>1. ASSUME UNCHANGED store PROVE StopsWereAsked' /\ StatusExplained'
  BY <1>0, <1>1 DEF IInv, StopsWereAsked, StatusExplained
<1>2. ASSUME NEW t \in Workers, WorkerStep(t)
      PROVE  StopsWereAsked' /\ StatusExplained'
  BY <1>0, <1>1, <1>2, WorkerWrites, GoodWrite DEF IInv
<1>3. ASSUME NEW c \in Callers, CommandArrives(c) \/ CommandStep(c)
      PROVE  StopsWereAsked' /\ StatusExplained'
  BY <1>0, <1>1, <1>3, CommandWrites, GoodWrite DEF IInv
<1>4. ASSUME Restart PROVE StopsWereAsked' /\ StatusExplained'
  <2>1. ASSUME NEW j \in Ids
        PROVE  /\ store'[j].status = store[j].status \/ store'[j].status = "Queued"
               /\ store[j].status \in {"Downloading", "Installing"}
                    <=> store'[j].status # store[j].status
               /\ store'[j].problem = store[j].problem
    <3>1. store[j] \in Jobs /\ store'[j] = Reconciled(store[j])
      BY <1>4 DEF Restart, IInv, TypeOK
    <3>2. QED
      BY <3>1 DEF Reconciled, Jobs
  <2>2. StopsWereAsked'
    BY <1>0, <2>1 DEF IInv, StopsWereAsked
  <2>3. StatusExplained'
    BY <2>1 DEF IInv, StatusExplained
  <2>4. QED
    BY <2>2, <2>3
<1>5. QED
  BY <1>1, <1>2, <1>3, <1>4 DEF Next, vars

LEMMA NoStrandedRunStep ==
  ASSUME IInv, [Next]_vars
  PROVE  NoStrandedRun'
<1> DEFINE RunBy(u, j) == pc[u] \in RunPCs /\ held[u].id = j
<1>1. ASSUME NEW j \in Ids, store'[j] = store[j], j \notin unsaved',
             j \in unsaved => j \in unsaved',
             \A u \in Workers : RunBy(u, j) => RunBy(u, j)',
             Running(store'[j].status)
      PROVE  \E u \in Workers : RunBy(u, j)'
  BY <1>1 DEF IInv, NoStrandedRun, Running
<1>2. ASSUME NEW t \in Workers, WorkerStep(t), NEW j \in Ids,
             Running(store'[j].status), j \notin unsaved'
      PROVE  \E u \in Workers : RunBy(u, j)'
  <2>1. ASSUME NEW u \in Workers \ {t}, RunBy(u, j) PROVE RunBy(u, j)'
    BY <1>2, <2>1, WorkerMoves DEF IInv
  <2>2. CASE /\ UNCHANGED <<store, unsaved>>
             /\ pc[t] \in RunPCs => pc'[t] \in RunPCs /\ held'[t].id = held[t].id
    BY <1>1, <1>2, <2>1, <2>2
  <2>3. CASE UNCHANGED store /\ unsaved' = unsaved \cup {held[t].id}
    BY <1>1, <1>2, <2>1, <2>3
  <2>4. ASSUME NEW job \in Jobs, Save(held[t].id, job), held[t].id \in Ids,
               \/ ~Running(job.status)
               \/ pc'[t] \in RunPCs /\ held'[t].id = held[t].id
        PROVE  \E u \in Workers : RunBy(u, j)'
    <3>1. store'[j] = IF j = held[t].id THEN job ELSE store[j]
      BY <2>4 DEF Save, IInv, TypeOK
    <3>2. CASE j = held[t].id
      BY <1>2, <2>4, <3>1, <3>2
    <3>3. CASE j # held[t].id
      BY <1>1, <1>2, <2>1, <2>4, <3>1, <3>3 DEF Save
    <3>4. QED
      BY <3>2, <3>3
  <2>5. QED
    BY <1>2, <2>2, <2>3, <2>4, WorkerWrites DEF IInv
<1>3. ASSUME NEW c \in Callers, CommandArrives(c) \/ CommandStep(c),
             NEW j \in Ids, Running(store'[j].status), j \notin unsaved'
      PROVE  \E u \in Workers : RunBy(u, j)'
  <2>1. ASSUME NEW u \in Workers, RunBy(u, j) PROVE RunBy(u, j)'
    BY <1>3, <2>1, CommandMoves DEF IInv, TypeOK, Goto, RunPCs
  <2>2. CASE UNCHANGED <<store, unsaved>>
    BY <1>1, <1>3, <2>1, <2>2
  <2>3. ASSUME NEW i \in Ids, NEW job \in Jobs, Save(i, job),
               ~Running(job.status)
        PROVE  \E u \in Workers : RunBy(u, j)'
    <3>1. store'[j] = IF j = i THEN job ELSE store[j]
      BY <2>3 DEF Save, IInv, TypeOK
    <3>2. j # i
      BY <1>3, <2>3, <3>1
    <3>3. QED
      BY <1>1, <1>3, <2>1, <2>3, <3>1, <3>2 DEF Save
  <2>4. QED
    BY <1>3, <2>2, <2>3, CommandWrites DEF IInv
<1>4. ASSUME Restart, NEW j \in Ids PROVE ~Running(store'[j].status)
  <2>1. store[j] \in Jobs /\ store'[j] = Reconciled(store[j])
    BY <1>4 DEF Restart, IInv, TypeOK
  <2>2. QED
    BY <2>1 DEF Reconciled, Running, Jobs
<1>5. ASSUME UNCHANGED vars PROVE NoStrandedRun'
  BY <1>5 DEF vars, IInv, NoStrandedRun
<1>6. ASSUME \A j \in Ids : Running(store'[j].status) =>
               j \in unsaved' \/ \E u \in Workers : RunBy(u, j)'
      PROVE  NoStrandedRun'
  BY <1>6 DEF NoStrandedRun, Running
<1> HIDE DEF RunBy
<1>7. QED
  BY <1>2, <1>3, <1>4, <1>5, <1>6 DEF Next

-----------------------------------------------------------------------------
(* The invariant, and what follows from it.                                 *)

LEMMA InitInv == Init => IInv
<1> SUFFICES ASSUME Init PROVE IInv
  OBVIOUS
<1>1. TypeOK
  BY InitTyped
<1>2. OneWorker
  BY DEF Init, OneWorker, WorkPCs
<1>3. NoJob.status = "Absent" /\ NoJob.problem = "None"
  BY DEF NoJob
<1>4. \A t \in Workers : PlaceInv(t)
  BY <1>3 DEF Init, PlaceInv, PublishedPCs, RunPCs, Explained, StopStatuses, Idle
<1>5. \A c \in Callers : CommandInv(c)
  BY <1>3 DEF Init, CommandInv, NoCommand, Running, Explained, StopStatuses
<1>6. StopInv
  BY DEF Init, StopInv
<1>7. StopsWereAsked /\ StatusExplained /\ NoStrandedRun
  BY <1>3 DEF Init, StopsWereAsked, StatusExplained, NoStrandedRun
<1>8. QED
  BY <1>1, <1>2, <1>4, <1>5, <1>6, <1>7 DEF IInv

LEMMA NextTyped ==
  ASSUME IInv, [Next]_vars
  PROVE  TypeOK'
<1>1. CASE UNCHANGED vars
  BY <1>1 DEF vars, IInv, TypeOK
<1>2. QED
  BY <1>1, WorkerTyped, CommandTyped, RestartTyped DEF Next, IInv

LEMMA NextInv == IInv /\ [Next]_vars => IInv'
<1> SUFFICES ASSUME IInv, [Next]_vars PROVE IInv'
  OBVIOUS
<1>1. TypeOK' /\ OneWorker'
  BY NextTyped, OneWorkerStep DEF IInv
<1>2. (\A t \in Workers : PlaceInv(t)') /\ (\A c \in Callers : CommandInv(c)')
  BY PlaceStep, CommandInvStep
<1>3. StopInv' /\ StopsWereAsked' /\ StatusExplained' /\ NoStrandedRun'
  BY StopInvStep, StoredStep, NoStrandedRunStep
<1>4. QED
  BY <1>1, <1>2, <1>3 DEF IInv

LEMMA Invariant == Spec => []IInv
  BY InitInv, NextInv, PTL DEF Spec

\* Every variable keeps its type.
THEOREM TypeCorrect == Spec => []TypeOK
<1>1. IInv => TypeOK
  BY DEF IInv
<1>2. QED
  BY <1>1, Invariant, PTL

\* At most one thread is inside the work loop, and the flag is up exactly
\* while one is: `kick` never starts a second worker (src-tauri/delivery.rs).
THEOREM OneWorkerAlways == Spec => []OneWorker
<1>1. IInv => OneWorker
  BY DEF IInv
<1>2. QED
  BY <1>1, Invariant, PTL

\* No interleaving of commands, failing writes and restarts leaves a job that
\* looks busy and that no worker runs, unless its final write failed.
THEOREM NothingStranded == Spec => []NoStrandedRun
<1>1. IInv => NoStrandedRun
  BY DEF IInv
<1>2. QED
  BY <1>1, Invariant, PTL

\* A job is paused or cancelled only if somebody asked it of this very job.
THEOREM EveryStopWasAsked == Spec => []StopsWereAsked
<1>1. IInv => StopsWereAsked
  BY DEF IInv
<1>2. QED
  BY <1>1, Invariant, PTL

\* The stored problem is that of the last attempt.
THEOREM ProblemsAreCurrent == Spec => []StatusExplained
<1>1. IInv => StatusExplained
  BY DEF IInv
<1>2. QED
  BY <1>1, Invariant, PTL

-----------------------------------------------------------------------------
(* DeliveryViews: the inductive invariant.                                 *)

JobsShown == [id : 0..MaxViewedJobs, status : JobStatuses \cup {"none"}]
SentViews ==
    [revision : 0..MaxChanges, account : BOOLEAN, folder : BOOLEAN, job : JobsShown,
     running : BOOLEAN, changes : 0..MaxChanges]
Tasks == {"nothing", "read", "work", "sign in", "sign out", "choose", "install"} \cup ForJobs
ThreadSteps ==
    {"idle", "act", "bump", "look", "see", "look again", "see again", "answer", "refused"}
ThreadStates == [does : Tasks, of : 0..MaxViewedJobs, at : ThreadSteps, view : SentViews]
Flows == {"none", "dialog", "signing in", "choosing", "installing"}
Pages ==
    [listening : BOOLEAN, loaded : BOOLEAN, held : SentViews, flow : Flows, shown : JobsShown,
     notice : 0..MaxViewedJobs]

ViewTypes ==
    /\ account \in BOOLEAN /\ folder \in BOOLEAN /\ jobRuns \in BOOLEAN /\ latestJob \in JobsShown
    /\ revision \in 0..MaxChanges /\ changes \in 0..MaxChanges
    /\ thread \in [Threads -> ThreadStates]
    /\ events \in Seq(SentViews) /\ page \in Pages
    /\ known \in [0..MaxChanges -> 0..MaxChanges]
    /\ unheard \in BOOLEAN /\ finished \in 0..MaxViewedJobs

\* A thread that made a change has yet to count it.
Due(t) == IF thread[t].at = "bump" THEN 1 ELSE 0

\* Each change is counted once by the thread that made it; the last revision knows of all of them
\* unless one is yet to be counted.
ChangesAreCounted ==
    /\ revision + Due("start") + Due("button") + Due("worker") <= changes
    /\ \A n \in 0..MaxChanges : known[n] <= changes
    /\ known[revision] = changes \/ \E t \in Threads : thread[t].at = "bump"
    /\ thread["read"].at \in {"idle", "look again", "see again", "answer"}

\* A view that was taken is as new as its revision, is what the launcher holds if nothing changed
\* since, and shows no job as installed that is not.
Fits(view) ==
    /\ view.revision <= revision /\ view.changes <= changes
    /\ view.changes >= known[view.revision]
    /\ view.changes = changes => view.job = latestJob /\ view.account = account
    /\ view.job.id <= latestJob.id
    /\ view.job.status = "installed" =>
          view.job.id # 0 /\ (view.job.id = latestJob.id => latestJob.status \in {"installed", "none"})

ViewsFit ==
    /\ \A t \in Threads : /\ thread[t].view.revision <= revision
                          /\ thread[t].at = "answer" => Fits(thread[t].view)
    /\ \A i \in DOMAIN events : Fits(events[i])
    /\ IF page.loaded THEN Fits(page.held) ELSE page.held = NoView
    /\ page.shown = page.held.job
    /\ latestJob.status # "none" => latestJob.id # 0

\* The newest revision is on its way to a page that heard of the last change, or is there.
Carries(t) ==
    \/ thread[t].at \in {"look", "look again"}
    \/ thread[t].at \in {"see", "see again", "answer"} /\ thread[t].view.revision = revision
NewestIsCarried ==
    \/ unheard
    \/ \E t \in Threads : thread[t].at = "bump" \/ Carries(t)
    \/ \E i \in DOMAIN events : events[i].revision = revision
    \/ page.loaded /\ page.held.revision = revision

\* While the page loads and no change was missed, there was none.
LoadsQuietly ==
    ~unheard /\ Loading =>
        revision = 0 /\ \A t \in Threads : thread[t].at \notin {"bump", "look", "see"}

\* The install flow has one call at a time.
FlowIsOne == page.flow \in {"none", "dialog"} => thread["start"].at = "idle"

FinishedIsAnnounced ==
    /\ finished # 0 => ~Loading
    /\ page.held.job.status = "installed" /\ finished = page.held.job.id => page.notice = finished

ViewsIInv ==
    /\ ViewTypes /\ ChangesAreCounted /\ ViewsFit /\ NewestIsCarried /\ LoadsQuietly
    /\ FlowIsOne /\ FinishedIsAnnounced

LEMMA ViewBoundsAreNat == MaxChanges \in Nat /\ MaxViewedJobs \in Nat /\ MaxViewedJobs # 0
  BY ViewBounds

LEMMA NoViewIsTyped == NoView \in SentViews /\ NoView.revision = 0 /\ NoView.job = NoJobShown
  BY ViewBoundsAreNat DEF SentViews, NoView, NoJobShown, JobsShown

\* A thread that takes a step leaves the others alone.
LEMMA ThreadPut ==
    ASSUME thread \in [Threads -> ThreadStates], NEW t \in Threads, NEW r \in ThreadStates,
           thread' = [thread EXCEPT ![t] = r]
    PROVE  /\ thread' \in [Threads -> ThreadStates] /\ thread'[t] = r
           /\ \A u \in Threads \ {t} : thread'[u] = thread[u]
  OBVIOUS

LEMMA ThreadGoesOn ==
    ASSUME thread \in [Threads -> ThreadStates], NEW t \in Threads, NEW at \in ThreadSteps,
           thread' = [thread EXCEPT ![t].at = at]
    PROVE  /\ thread' \in [Threads -> ThreadStates]
           /\ thread'[t].at = at /\ thread'[t].view = thread[t].view
           /\ \A u \in Threads \ {t} : thread'[u] = thread[u]
  <1>1. PICK r : r = [thread[t] EXCEPT !.at = at]
    OBVIOUS
  <1>2. thread' = [thread EXCEPT ![t] = r]
    BY <1>1
  <1>3. /\ r \in ThreadStates
        /\ r.at = at /\ r.view = thread[t].view
    BY <1>1 DEF ThreadStates
  <1>4. QED
    BY <1>2, <1>3

LEMMA IdleIsTyped ==
    /\ IdleThread \in ThreadStates /\ IdleThread.at = "idle" /\ IdleThread.view.revision = 0
    /\ Reading \in ThreadStates
  BY NoViewIsTyped, ViewBoundsAreNat DEF IdleThread, Reading, ThreadStates, ThreadSteps, Tasks

\* The view that view() would take now.
LEMMA ViewFits ==
    ASSUME ViewTypes, ViewsFit, NEW r \in 0..MaxChanges, r <= revision, changes >= known[r]
    PROVE  /\ [View EXCEPT !.revision = r] \in SentViews
           /\ [View EXCEPT !.revision = r].revision = r
           /\ Fits([View EXCEPT !.revision = r])
  <1>1. PICK v : v = [View EXCEPT !.revision = r]
    OBVIOUS
  <1>2. v = [revision |-> r, account |-> account, folder |-> folder, job |-> latestJob,
             running |-> jobRuns, changes |-> changes]
    BY <1>1 DEF View
  <1>3. v \in SentViews /\ v.revision = r
    BY <1>2 DEF SentViews, ViewTypes
  <1>4. Fits(v)
    <2>1. latestJob.status = "installed" => latestJob.id # 0
      BY DEF ViewsFit
    <2>2. /\ revision \in Nat /\ changes \in Nat /\ latestJob.id \in Nat
          /\ v.revision = r /\ v.changes = changes /\ v.job = latestJob /\ v.account = account
      BY <1>2, ViewBoundsAreNat DEF ViewTypes, JobsShown
    <2>3. QED
      BY <2>1, <2>2 DEF Fits
  <1>5. QED
    BY <1>1, <1>3, <1>4

LEMMA FitsKeeps ==
    ASSUME NEW view, Fits(view), UNCHANGED <<account, latestJob, revision, changes, known>>
    PROVE  Fits(view)'
  BY DEF Fits

\* A view that was taken stays fitting when the launcher changes.
JobGoesOn ==
    /\ latestJob' \in JobsShown /\ latestJob.id <= latestJob'.id
    /\ latestJob'.id = latestJob.id /\ latestJob.status \in {"installed", "none"} =>
          latestJob'.status \in {"installed", "none"}
    /\ latestJob'.status # "none" => latestJob'.id # 0

LEMMA FitsAfterChange ==
    ASSUME ViewTypes, NEW view \in SentViews, Fits(view), JobGoesOn,
           changes' = changes + 1, UNCHANGED <<revision, known>>
    PROVE  Fits(view)'
  <1>1. view.changes \in Nat /\ view.job.id \in Nat /\ latestJob.id \in Nat /\ latestJob'.id \in Nat
        /\ changes \in Nat
    BY ViewBoundsAreNat DEF ViewTypes, SentViews, JobsShown, JobGoesOn
  <1>2. view.changes # changes'
    BY <1>1 DEF Fits
  <1>3. QED
    BY <1>1, <1>2 DEF Fits, JobGoesOn

LEMMA FitsAfterBump ==
    ASSUME ViewTypes, NEW view \in SentViews, Fits(view), revision' = revision + 1,
           known' = [known EXCEPT ![revision + 1] = changes],
           UNCHANGED <<account, latestJob, changes>>
    PROVE  Fits(view)'
  <1>1. view.revision \in Nat /\ revision \in Nat
    BY ViewBoundsAreNat DEF ViewTypes, SentViews
  <1>2. view.revision <= revision
    BY DEF Fits
  <1>3. view.revision # revision + 1 /\ view.revision <= revision'
    BY <1>1, <1>2
  <1>4. known'[view.revision] = known[view.revision]
    BY <1>3 DEF ViewTypes, SentViews
  <1>5. QED
    BY <1>3, <1>4 DEF Fits

\* The page does not load again.
LEMMA LoadingEnds ==
    ASSUME ~Loading, page'.loaded, page'.listening, thread'["read"].at = "idle"
    PROVE  ~Loading'
  BY DEF Loading

-----------------------------------------------------------------------------
(* DeliveryViews: the launcher changes.                                    *)

LEMMA ChangeKeeps ==
    ASSUME ViewsIInv, NEW t \in {"start", "button", "worker"}, NEW r \in ThreadStates,
           thread[t].at = IF t = "worker" THEN "idle" ELSE "act",
           thread' = [thread EXCEPT ![t] = r], r.at = "bump", r.view = thread[t].view,
           account' \in BOOLEAN, folder' \in BOOLEAN, jobRuns' \in BOOLEAN, JobGoesOn,
           latestJob'.status = "installed" /\ latestJob # latestJob' =>
               latestJob'.id = latestJob.id /\ latestJob.status \notin {"installed", "none"},
           ChangeIsMade, UNCHANGED <<revision, events, page, known>>
    PROVE  ViewsIInv'
  <1> USE DEF ViewsIInv
  <1>1. t \in Threads /\ t # "read"
    BY DEF Threads, PageThreads
  <1>2. /\ thread' \in [Threads -> ThreadStates] /\ thread'[t] = r
        /\ \A u \in Threads \ {t} : thread'[u] = thread[u]
    BY <1>1, ThreadPut DEF ViewTypes
  <1>3. "read" \in Threads /\ "start" \in Threads /\ "button" \in Threads /\ "worker" \in Threads
    BY DEF Threads, PageThreads
  <1>4. thread'["read"] = thread["read"]
    BY <1>1, <1>2, <1>3
  <1>5. changes' = changes + 1 /\ changes' \in 0..MaxChanges /\ changes \in Nat /\ revision \in Nat
    BY ViewBoundsAreNat DEF ChangeIsMade, ViewTypes
  <1>6. ~Loading => ~Loading'
    BY <1>4 DEF Loading
  <1>7. unheard' = Loading /\ unheard' \in BOOLEAN
    BY DEF ChangeIsMade, Loading
  <1>8. /\ finished' \in 0..MaxViewedJobs
        /\ \/ finished' = finished
           \/ finished' = latestJob.id /\ ~Loading /\ latestJob.status \notin {"installed", "none"}
    <2>1. latestJob.id \in 0..MaxViewedJobs
      BY DEF ViewTypes, JobsShown
    <2>2. CASE latestJob'.status = "installed" /\ latestJob # latestJob' /\ ~Loading
      BY <2>1, <2>2 DEF ChangeIsMade
    <2>3. CASE ~(latestJob'.status = "installed" /\ latestJob # latestJob' /\ ~Loading)
      BY <2>3 DEF ChangeIsMade, ViewTypes
    <2>4. QED
      BY <2>2, <2>3
  <1>9. ViewTypes'
    BY <1>2, <1>5, <1>7, <1>8 DEF ViewTypes, JobGoesOn
  <1>10. ChangesAreCounted'
    <2>1. /\ Due("start")' = IF t = "start" THEN 1 ELSE Due("start")
          /\ Due("button")' = IF t = "button" THEN 1 ELSE Due("button")
          /\ Due("worker")' = IF t = "worker" THEN 1 ELSE Due("worker")
      BY <1>1, <1>2, <1>3 DEF Due
    <2>2. /\ Due(t) = 0
          /\ Due("start") \in {0, 1} /\ Due("button") \in {0, 1} /\ Due("worker") \in {0, 1}
      BY DEF Due
    <2>3. Due("start")' + Due("button")' + Due("worker")' =
            Due("start") + Due("button") + Due("worker") + 1
      <3>1. CASE t = "start"
        BY <2>1, <2>2, <3>1
      <3>2. CASE t = "button"
        BY <2>1, <2>2, <3>2
      <3>3. CASE t = "worker"
        BY <2>1, <2>2, <3>3
      <3>4. QED
        BY <3>1, <3>2, <3>3
    <2>a. revision' = revision
      OBVIOUS
    <2>4. revision + Due("start")' + Due("button")' + Due("worker")' <= changes'
      <3>1. Due("start")' \in Nat /\ Due("button")' \in Nat /\ Due("worker")' \in Nat
        BY <2>1, <2>2
      <3>2. revision + Due("start") + Due("button") + Due("worker") <= changes
        BY DEF ChangesAreCounted
      <3>3. QED
        BY <2>2, <2>3, <3>1, <3>2, <1>5
    <2>5. \A n \in 0..MaxChanges : known'[n] <= changes'
      <3> SUFFICES ASSUME NEW n \in 0..MaxChanges PROVE known[n] <= changes'
        OBVIOUS
      <3>1. known \in [0..MaxChanges -> 0..MaxChanges]
        BY DEF ViewTypes
      <3>2. known[n] \in Nat
        BY <3>1, ViewBoundsAreNat
      <3>3. known[n] <= changes
        BY DEF ChangesAreCounted
      <3>4. QED
        BY <1>5, <3>2, <3>3
    <2>6. QED
      BY <1>1, <1>2, <1>4, <2>4, <2>5 DEF ChangesAreCounted
  <1>11. ViewsFit'
    <2>1. \A u \in Threads : /\ thread'[u].view = thread[u].view
                             /\ thread'[u].at = "answer" => thread[u].at = "answer"
      BY <1>1, <1>2
    <2>2. \A u \in Threads : thread[u].view \in SentViews
      BY DEF ViewTypes, ThreadStates
    <2>3. (\A u \in Threads : /\ thread[u].view.revision <= revision
                              /\ thread[u].at = "answer" => Fits(thread[u].view))'
      <3> SUFFICES ASSUME NEW u \in Threads
                   PROVE  (/\ thread[u].view.revision <= revision
                           /\ thread[u].at = "answer" => Fits(thread[u].view))'
        OBVIOUS
      <3>1. PICK v : v = thread'[u].view
        OBVIOUS
      <3>2. v \in SentViews /\ v = thread[u].view
        BY <2>1, <2>2, <3>1
      <3>3. ASSUME thread'[u].at = "answer" PROVE Fits(v)'
        BY <1>5, <2>1, <3>2, <3>3, FitsAfterChange DEF ViewsFit
      <3>4. QED
        BY <3>1, <3>2, <3>3 DEF ViewsFit, Fits
    <2>4. (\A i \in DOMAIN events : Fits(events[i]))'
      <3> SUFFICES ASSUME NEW i \in DOMAIN events PROVE Fits(events[i])'
        OBVIOUS
      <3>1. PICK v : v = events[i]
        OBVIOUS
      <3>2. v \in SentViews /\ Fits(v)
        BY <3>1 DEF ViewTypes, ViewsFit
      <3>3. Fits(v)'
        BY <1>5, <3>2, FitsAfterChange
      <3>4. QED
        BY <3>1, <3>3 DEF Fits
    <2>5. (IF page.loaded THEN Fits(page.held) ELSE page.held = NoView)'
      <3>1. PICK v : v = page.held
        OBVIOUS
      <3>2. v \in SentViews /\ IF page.loaded THEN Fits(v) ELSE v = NoView
        BY <3>1 DEF ViewTypes, ViewsFit, Pages
      <3>3. page.loaded => Fits(v)'
        BY <1>5, <3>2, FitsAfterChange
      <3>4. QED
        BY <3>1, <3>2, <3>3 DEF Fits
    <2>6. page'.shown = page'.held.job /\ (latestJob'.status # "none" => latestJob'.id # 0)
      BY DEF ViewsFit, JobGoesOn
    <2>7. QED
      BY <2>3, <2>4, <2>5, <2>6 DEF ViewsFit
  <1>12. NewestIsCarried' /\ LoadsQuietly'
    BY <1>1, <1>2, <1>6, <1>7 DEF NewestIsCarried, LoadsQuietly
  <1>13. FlowIsOne'
    BY <1>1, <1>2, <1>3 DEF FlowIsOne
  <1>14. FinishedIsAnnounced'
    <2>1. finished' # 0 => ~Loading'
      BY <1>6, <1>8 DEF FinishedIsAnnounced
    <2>2. CASE finished' = finished
      BY <2>1, <2>2 DEF FinishedIsAnnounced
    <2>3. CASE finished' = latestJob.id /\ ~Loading /\ latestJob.status \notin {"installed", "none"}
      <3>1. Fits(page.held)
        BY <2>3 DEF ViewsFit, Loading
      <3>2. ~(page.held.job.status = "installed" /\ page.held.job.id = latestJob.id)
        BY <2>3, <3>1 DEF Fits
      <3>3. QED
        BY <2>1, <2>3, <3>2 DEF FinishedIsAnnounced
    <2>4. QED
      BY <1>8, <2>2, <2>3
  <1>15. QED
    BY <1>9, <1>10, <1>11, <1>12, <1>13, <1>14

\* A step of one thread, or of the page, that changes nothing of the launcher.
LEMMA QuietStep ==
    ASSUME ViewTypes, ChangesAreCounted, ViewsFit, NEW t \in Threads, NEW r \in ThreadStates,
           thread' = [thread EXCEPT ![t] = r], r.at = "bump" <=> thread[t].at = "bump",
           r.view.revision <= revision, r.at = "answer" => Fits(r.view),
           t = "read" => r.at \in {"idle", "look again", "see again", "answer"},
           events' \in Seq(SentViews), \A i \in DOMAIN events' : Fits(events'[i]),
           page' \in Pages, IF page'.loaded THEN Fits(page'.held) ELSE page'.held = NoView,
           page'.shown = page'.held.job,
           UNCHANGED <<account, folder, latestJob, jobRuns, revision, changes, known, unheard, finished>>
    PROVE  ViewTypes' /\ ChangesAreCounted' /\ ViewsFit'
  <1>1. /\ thread' \in [Threads -> ThreadStates] /\ thread'[t] = r
        /\ \A u \in Threads \ {t} : thread'[u] = thread[u]
    BY ThreadPut DEF ViewTypes
  <1>2. ViewTypes'
    BY <1>1 DEF ViewTypes
  <1>3. \A u \in Threads : thread'[u].at = "bump" <=> thread[u].at = "bump"
    BY <1>1
  <1>4. ChangesAreCounted'
    <2>1. \A u \in {"start", "button", "worker"} : Due(u)' = Due(u)
      BY <1>3 DEF Due, Threads, PageThreads
    <2>2. thread'["read"].at \in {"idle", "look again", "see again", "answer"}
      BY <1>1 DEF ChangesAreCounted, Threads
    <2>3. QED
      BY <1>3, <2>1, <2>2 DEF ChangesAreCounted
  <1>5. ViewsFit'
    <2>1. \A u \in Threads : /\ thread'[u].view.revision <= revision'
                             /\ thread'[u].at = "answer" => Fits(thread'[u].view)
      BY <1>1 DEF ViewsFit
    <2>2. (\A u \in Threads : thread[u].at = "answer" => Fits(thread[u].view))'
      <3> SUFFICES ASSUME NEW u \in Threads, thread'[u].at = "answer" PROVE Fits(thread[u].view)'
        OBVIOUS
      <3>1. PICK v : v = thread'[u].view
        OBVIOUS
      <3>2. Fits(v)'
        BY <2>1, <3>1, FitsKeeps
      <3>3. QED
        BY <3>1, <3>2 DEF Fits
    <2>3. (\A i \in DOMAIN events : Fits(events[i]))'
      <3> SUFFICES ASSUME NEW i \in DOMAIN events' PROVE Fits(events[i])'
        OBVIOUS
      <3>1. PICK v : v = events'[i]
        OBVIOUS
      <3>2. Fits(v)'
        BY <3>1, FitsKeeps
      <3>3. QED
        BY <3>1, <3>2 DEF Fits
    <2>4. (IF page.loaded THEN Fits(page.held) ELSE page.held = NoView)'
      <3>1. PICK v : v = page'.held
        OBVIOUS
      <3>2. page'.loaded => Fits(v)'
        BY <3>1, FitsKeeps
      <3>3. QED
        BY <3>1, <3>2 DEF Fits
    <2>5. QED
      BY <2>1, <2>2, <2>3, <2>4 DEF ViewsFit
  <1>6. QED
    BY <1>2, <1>4, <1>5

\* The newest revision stays on its way.
LEMMA CarriedOn ==
    ASSUME NewestIsCarried, UNCHANGED <<revision, unheard>>, NEW t \in Threads,
           \A u \in Threads \ {t} : thread'[u] = thread[u],
           thread[t].at = "bump" \/ Carries(t) => NewestIsCarried',
           \A i \in DOMAIN events : events[i].revision = revision => NewestIsCarried',
           page.loaded /\ page.held.revision = revision => NewestIsCarried'
    PROVE  NewestIsCarried'
  <1>1. \A u \in Threads \ {t} : /\ thread'[u].at = "bump" <=> thread[u].at = "bump"
                                 /\ Carries(u) => Carries(u)'
    BY DEF Carries
  <1>2. CASE unheard
    BY <1>2 DEF NewestIsCarried
  <1>3. ASSUME NEW u \in Threads, thread[u].at = "bump" \/ Carries(u) PROVE NewestIsCarried'
    BY <1>1, <1>3 DEF NewestIsCarried
  <1>4. QED
    BY <1>2, <1>3 DEF NewestIsCarried

-----------------------------------------------------------------------------
(* DeliveryViews: the steps of a thread.                                   *)

LEMMA LoadsOn ==
    ASSUME page.loaded => page'.loaded, page.listening => page'.listening,
           "read" \in Threads, NEW t \in Threads, \A u \in Threads \ {t} : thread'[u] = thread[u],
           t = "read" /\ thread[t].at = "idle" => thread'[t].at = "idle"
    PROVE  Loading' => Loading
  BY DEF Loading

LEMMA QuietOn ==
    ASSUME LoadsQuietly, UNCHANGED <<revision, unheard>>, Loading' => Loading,
           NEW t \in Threads, \A u \in Threads \ {t} : thread'[u] = thread[u],
           thread'[t].at \in {"bump", "look", "see"} => thread[t].at \in {"bump", "look", "see"}
    PROVE  LoadsQuietly'
  BY DEF LoadsQuietly

LEMMA AnnouncedOn ==
    ASSUME FinishedIsAnnounced, Loading' => Loading, finished' = finished,
           page'.held = page.held, page'.notice = page.notice
    PROVE  FinishedIsAnnounced'
  BY DEF FinishedIsAnnounced

LEMMA ReadIsAThread ==
    "read" \in Threads /\ "start" \in Threads /\ "button" \in Threads /\ "worker" \in Threads
  BY DEF Threads, PageThreads

LEMMA LookKeeps ==
    ASSUME ViewsIInv, NEW t \in Threads, Look(t)
    PROVE  ViewsIInv'
  <1> USE DEF ViewsIInv
  <1>1. thread[t] \in ThreadStates /\ thread[t].at \in {"look", "look again"}
    BY DEF Look, ViewTypes
  <1>2. PICK v : v = [thread[t].view EXCEPT !.revision = revision]
    OBVIOUS
  <1>3. v \in SentViews /\ v.revision = revision
    BY <1>1, <1>2 DEF ThreadStates, SentViews, ViewTypes
  <1>4. PICK r : r = [thread[t] EXCEPT !.view = v,
                                       !.at = IF thread[t].at = "look" THEN "see" ELSE "see again"]
    OBVIOUS
  <1>5. /\ r \in ThreadStates /\ r.view.revision = revision
        /\ r.at = IF thread[t].at = "look" THEN "see" ELSE "see again"
    BY <1>1, <1>3, <1>4 DEF ThreadStates, ThreadSteps
  <1>6. thread' = [thread EXCEPT ![t] = r]
    BY <1>1, <1>2, <1>4 DEF Look, ViewTypes, ThreadStates
  <1>7. /\ UNCHANGED <<account, folder, latestJob, jobRuns, revision, events, page>>
        /\ UNCHANGED <<changes, known, unheard, finished>>
    BY DEF Look, state, viewsHistory
  <1>8. ViewTypes' /\ ChangesAreCounted' /\ ViewsFit'
    <2>1. revision <= revision
      BY ViewBoundsAreNat DEF ViewTypes
    <2>2. t = "read" => r.at \in {"idle", "look again", "see again", "answer"}
      BY <1>1, <1>5 DEF ChangesAreCounted
    <2>3. QED
      BY <1>1, <1>5, <1>6, <1>7, <2>1, <2>2, QuietStep DEF ViewTypes, ViewsFit
  <1>9. thread'[t] = r /\ \A u \in Threads \ {t} : thread'[u] = thread[u]
    BY <1>5, <1>6, ThreadPut DEF ViewTypes
  <1>10. Loading' => Loading
    BY <1>1, <1>7, <1>9, LoadsOn, ReadIsAThread
  <1>11. NewestIsCarried'
    <2>1. Carries(t)'
      BY <1>5, <1>7, <1>9 DEF Carries
    <2>2. QED
      BY <2>1 DEF NewestIsCarried
  <1>12. LoadsQuietly'
    BY <1>1, <1>5, <1>7, <1>9, <1>10, QuietOn
  <1>13. FlowIsOne'
    BY <1>1, <1>7, <1>9, ReadIsAThread DEF FlowIsOne
  <1>14. FinishedIsAnnounced'
    BY <1>7, <1>10, AnnouncedOn
  <1>15. QED
    BY <1>8, <1>11, <1>12, <1>13, <1>14

LEMMA SeeKeeps ==
    ASSUME ViewsIInv, NEW t \in Threads, See(t)
    PROVE  ViewsIInv'
  <1> USE DEF ViewsIInv
  <1>1. thread[t] \in ThreadStates /\ thread[t].at \in {"see", "see again"}
    BY DEF See, ViewTypes
  <1>2. PICK rev : rev = thread[t].view.revision
    OBVIOUS
  <1>3. rev \in 0..MaxChanges /\ rev <= revision
    BY <1>1, <1>2 DEF ThreadStates, SentViews, ViewsFit
  <1>4. changes >= known[rev]
    BY <1>3 DEF ChangesAreCounted
  <1>5. PICK view : view = [View EXCEPT !.revision = rev]
    OBVIOUS
  <1>6. view \in SentViews /\ view.revision = rev /\ Fits(view)
    BY <1>3, <1>4, <1>5, ViewFits
  <1>7. PICK r : r = [thread[t] EXCEPT
                        !.view = IF thread[t].at = "see again" THEN view ELSE NoView,
                        !.at = IF thread[t].at = "see again" THEN "answer"
                               ELSE IF t = "worker" THEN "idle" ELSE "look again"]
    OBVIOUS
  <1>8. /\ r \in ThreadStates
        /\ r.view = IF thread[t].at = "see again" THEN view ELSE NoView
        /\ r.at = IF thread[t].at = "see again" THEN "answer"
                  ELSE IF t = "worker" THEN "idle" ELSE "look again"
    BY <1>1, <1>6, <1>7, NoViewIsTyped DEF ThreadStates, ThreadSteps
  <1>9. thread' = [thread EXCEPT ![t] = r]
    BY <1>1, <1>2, <1>5, <1>7 DEF See, ViewTypes, ThreadStates
  <1>10. events' = IF thread[t].at = "see" /\ page.listening THEN Append(events, view) ELSE events
    BY <1>2, <1>5 DEF See
  <1>11. /\ UNCHANGED <<account, folder, latestJob, jobRuns, revision, page>>
         /\ UNCHANGED <<changes, known, unheard, finished>>
    BY DEF See, state, viewsHistory
  <1>12. events' \in Seq(SentViews) /\ \A i \in DOMAIN events' : Fits(events'[i])
    <2>1. events \in Seq(SentViews) /\ \A i \in DOMAIN events : Fits(events[i])
      BY DEF ViewTypes, ViewsFit
    <2>2. PICK new : new = Append(events, view)
      OBVIOUS
    <2>3. /\ new \in Seq(SentViews) /\ DOMAIN new = 1..(Len(events) + 1)
          /\ new[Len(events) + 1] = view /\ \A i \in 1..Len(events) : new[i] = events[i]
      BY <1>6, <2>1, <2>2
    <2>4. \A i \in DOMAIN new : Fits(new[i])
      BY <1>6, <2>1, <2>3
    <2>5. QED
      BY <1>10, <2>1, <2>2, <2>3, <2>4
  <1>13. ViewTypes' /\ ChangesAreCounted' /\ ViewsFit'
    <2>1. r.view.revision <= revision /\ (r.at = "answer" => Fits(r.view))
      <3>1. revision \in Nat
        BY ViewBoundsAreNat DEF ViewTypes
      <3>2. CASE thread[t].at = "see again"
        BY <1>3, <1>6, <1>8, <3>2
      <3>3. CASE thread[t].at # "see again"
        <4>1. r.view.revision = 0
          BY <1>8, <3>3, NoViewIsTyped
        <4>2. r.at # "answer"
          BY <1>8, <3>3
        <4>3. QED
          BY <3>1, <4>1, <4>2
      <3>4. QED
        BY <3>2, <3>3
    <2>2. t = "read" => r.at \in {"idle", "look again", "see again", "answer"}
      BY <1>1, <1>8
    <2>3. r.at = "bump" <=> thread[t].at = "bump"
      BY <1>1, <1>8
    <2>4. page' \in Pages /\ (IF page'.loaded THEN Fits(page'.held) ELSE page'.held = NoView)
          /\ page'.shown = page'.held.job
      BY <1>11 DEF ViewTypes, ViewsFit
    <2>5. QED
      BY <1>8, <1>9, <1>11, <1>12, <2>1, <2>2, <2>3, <2>4, QuietStep
  <1>14. thread'[t] = r /\ \A u \in Threads \ {t} : thread'[u] = thread[u]
    BY <1>8, <1>9, ThreadPut DEF ViewTypes
  <1>15. Loading' => Loading
    BY <1>1, <1>11, <1>14, LoadsOn, ReadIsAThread
  <1>16. NewestIsCarried'
    <2>1. Carries(t) => NewestIsCarried'
      <3> SUFFICES ASSUME Carries(t) PROVE NewestIsCarried'
        OBVIOUS
      <3>1. view.revision = revision
        BY <1>1, <1>2, <1>6 DEF Carries
      <3>2. CASE thread[t].at = "see again"
        <4>1. Carries(t)'
          BY <1>8, <1>11, <1>14, <3>1, <3>2 DEF Carries
        <4>2. QED
          BY <4>1 DEF NewestIsCarried
      <3>3. CASE thread[t].at = "see" /\ page.listening
        <4>1. Len(events) + 1 \in DOMAIN events' /\ events'[Len(events) + 1] = view
          BY <1>6, <1>10, <3>3 DEF ViewTypes
        <4>2. QED
          BY <1>11, <3>1, <4>1 DEF NewestIsCarried
      <3>4. CASE thread[t].at = "see" /\ ~page.listening
        BY <1>11, <3>4 DEF LoadsQuietly, Loading, NewestIsCarried
      <3>5. QED
        BY <1>1, <3>2, <3>3, <3>4
    <2>2. \A i \in DOMAIN events : events[i].revision = revision => NewestIsCarried'
      <3> SUFFICES ASSUME NEW i \in DOMAIN events, events[i].revision = revision
                   PROVE  NewestIsCarried'
        OBVIOUS
      <3>1. i \in DOMAIN events' /\ events'[i] = events[i]
        BY <1>6, <1>10 DEF ViewTypes
      <3>2. QED
        BY <1>11, <3>1 DEF NewestIsCarried
    <2>3. page.loaded /\ page.held.revision = revision => NewestIsCarried'
      BY <1>11 DEF NewestIsCarried
    <2>4. QED
      BY <1>1, <1>11, <1>14, <2>1, <2>2, <2>3, CarriedOn
  <1>17. LoadsQuietly'
    BY <1>1, <1>8, <1>11, <1>14, <1>15, QuietOn
  <1>18. FlowIsOne'
    BY <1>1, <1>11, <1>14, ReadIsAThread DEF FlowIsOne
  <1>19. FinishedIsAnnounced'
    BY <1>11, <1>15, AnnouncedOn
  <1>20. QED
    BY <1>13, <1>16, <1>17, <1>18, <1>19

LEMMA BumpKeeps ==
    ASSUME ViewsIInv, NEW t \in Threads, Bump(t)
    PROVE  ViewsIInv'
  <1> USE DEF ViewsIInv
  <1>1. /\ thread[t].at = "bump" /\ thread' = [thread EXCEPT ![t].at = "look"]
        /\ revision' = revision + 1 /\ known' = [known EXCEPT ![revision + 1] = changes]
        /\ UNCHANGED <<account, folder, latestJob, jobRuns, events, page, changes, unheard, finished>>
    BY DEF Bump, ThreadGoes, state
  <1>2. t \in {"start", "button", "worker"}
    BY <1>1 DEF ChangesAreCounted, Threads, PageThreads
  <1>3. /\ thread' \in [Threads -> ThreadStates]
        /\ thread'[t].at = "look" /\ thread'[t].view = thread[t].view
        /\ \A u \in Threads \ {t} : thread'[u] = thread[u]
    BY <1>1, ThreadGoesOn DEF ViewTypes, ThreadSteps
  <1>4. /\ revision \in Nat /\ changes \in Nat /\ changes <= MaxChanges
    BY ViewBoundsAreNat DEF ViewTypes
  <1>5. /\ Due("start")' = IF t = "start" THEN 0 ELSE Due("start")
        /\ Due("button")' = IF t = "button" THEN 0 ELSE Due("button")
        /\ Due("worker")' = IF t = "worker" THEN 0 ELSE Due("worker")
    BY <1>3, ReadIsAThread DEF Due
  <1>6. /\ Due(t) = 1
        /\ Due("start") \in {0, 1} /\ Due("button") \in {0, 1} /\ Due("worker") \in {0, 1}
    BY <1>1 DEF Due
  <1>7. revision + Due("start") + Due("button") + Due("worker") <= changes
    BY DEF ChangesAreCounted
  <1>8. /\ Due("start")' + Due("button")' + Due("worker")' + 1 =
             Due("start") + Due("button") + Due("worker")
        /\ Due("start")' \in Nat /\ Due("button")' \in Nat /\ Due("worker")' \in Nat
    <2>1. CASE t = "start"
      BY <1>5, <1>6, <2>1
    <2>2. CASE t = "button"
      BY <1>5, <1>6, <2>2
    <2>3. CASE t = "worker"
      BY <1>5, <1>6, <2>3
    <2>4. QED
      BY <1>2, <2>1, <2>2, <2>3
  <1>9. /\ revision + 1 + Due("start")' + Due("button")' + Due("worker")' <= changes
        /\ revision + 1 <= changes /\ revision + 1 \in 0..MaxChanges
    BY <1>4, <1>6, <1>7, <1>8, ViewBoundsAreNat
  <1>10. /\ known' \in [0..MaxChanges -> 0..MaxChanges] /\ known'[revision'] = changes
    BY <1>1, <1>9 DEF ViewTypes
  <1>11. ViewTypes'
    BY <1>1, <1>3, <1>9, <1>10 DEF ViewTypes
  <1>12. ChangesAreCounted'
    <2>1. \A n \in 0..MaxChanges : known'[n] <= changes'
      <3> SUFFICES ASSUME NEW n \in 0..MaxChanges PROVE known'[n] <= changes
        BY <1>1
      <3>1. known'[n] = IF n = revision + 1 THEN changes ELSE known[n]
        BY <1>1 DEF ViewTypes
      <3>2. known[n] <= changes
        BY DEF ChangesAreCounted
      <3>3. QED
        BY <1>4, <3>1, <3>2
    <2>2. QED
      BY <1>1, <1>2, <1>3, <1>9, <1>10, <2>1, ReadIsAThread DEF ChangesAreCounted
  <1>13. ViewsFit'
    <2>1. \A u \in Threads : /\ thread'[u].view = thread[u].view /\ thread[u].view \in SentViews
                             /\ thread'[u].at = "answer" => thread[u].at = "answer"
      BY <1>3 DEF ViewTypes, ThreadStates
    <2>2. (\A u \in Threads : /\ thread[u].view.revision <= revision
                              /\ thread[u].at = "answer" => Fits(thread[u].view))'
      <3> SUFFICES ASSUME NEW u \in Threads
                   PROVE  (/\ thread[u].view.revision <= revision
                           /\ thread[u].at = "answer" => Fits(thread[u].view))'
        OBVIOUS
      <3>1. PICK v : v = thread'[u].view
        OBVIOUS
      <3>2. v \in SentViews /\ v = thread[u].view
        BY <2>1, <3>1
      <3>3. ASSUME thread'[u].at = "answer" PROVE Fits(v)'
        BY <1>1, <2>1, <3>2, <3>3, FitsAfterBump DEF ViewsFit
      <3>4. v.revision <= revision'
        BY <1>1, <1>4, <3>2 DEF ViewsFit, SentViews
      <3>5. QED
        BY <3>1, <3>3, <3>4 DEF Fits
    <2>3. (\A i \in DOMAIN events : Fits(events[i]))'
      <3> SUFFICES ASSUME NEW i \in DOMAIN events PROVE Fits(events[i])'
        BY <1>1
      <3>1. PICK v : v = events[i]
        OBVIOUS
      <3>2. v \in SentViews /\ Fits(v)
        BY <3>1 DEF ViewTypes, ViewsFit
      <3>3. Fits(v)'
        BY <1>1, <3>2, FitsAfterBump
      <3>4. QED
        BY <1>1, <3>1, <3>3 DEF Fits
    <2>4. (IF page.loaded THEN Fits(page.held) ELSE page.held = NoView)'
      <3>1. PICK v : v = page.held
        OBVIOUS
      <3>2. v \in SentViews /\ IF page.loaded THEN Fits(v) ELSE v = NoView
        BY <3>1 DEF ViewTypes, ViewsFit, Pages
      <3>3. page.loaded => Fits(v)'
        BY <1>1, <3>2, FitsAfterBump
      <3>4. QED
        BY <1>1, <3>1, <3>2, <3>3 DEF Fits
    <2>5. QED
      BY <1>1, <2>2, <2>3, <2>4 DEF ViewsFit
  <1>14. NewestIsCarried'
    BY <1>3 DEF NewestIsCarried, Carries
  <1>15. ~unheard => ~Loading
    BY <1>1 DEF LoadsQuietly
  <1>16. Loading' => Loading
    BY <1>1, <1>2, <1>3, LoadsOn, ReadIsAThread
  <1>17. LoadsQuietly'
    BY <1>1, <1>15, <1>16 DEF LoadsQuietly
  <1>18. FlowIsOne' /\ FinishedIsAnnounced'
    BY <1>1, <1>3, <1>16, AnnouncedOn, ReadIsAThread DEF FlowIsOne
  <1>19. QED
    BY <1>11, <1>12, <1>13, <1>14, <1>17, <1>18

\* A step of a thread that has nothing to show, and of the install flow.
LEMMA AskingKeeps ==
    ASSUME ViewsIInv, NEW t \in Threads \ {"read"}, NEW r \in ThreadStates,
           thread' = [thread EXCEPT ![t] = r], thread[t].at \in {"idle", "act", "refused"},
           r.at \in {"idle", "act", "refused"}, r.view.revision <= revision, page' \in Pages,
           page'.listening = page.listening, page'.loaded = page.loaded, page'.held = page.held,
           page'.shown = page.shown, page'.notice = page.notice, FlowIsOne',
           UNCHANGED <<account, folder, latestJob, jobRuns, revision, events>>,
           UNCHANGED <<changes, known, unheard, finished>>
    PROVE  ViewsIInv'
  <1> USE DEF ViewsIInv
  <1>1. /\ events' \in Seq(SentViews) /\ \A i \in DOMAIN events' : Fits(events'[i])
        /\ IF page'.loaded THEN Fits(page'.held) ELSE page'.held = NoView
        /\ page'.shown = page'.held.job
    BY DEF ViewTypes, ViewsFit
  <1>2. ViewTypes' /\ ChangesAreCounted' /\ ViewsFit'
    BY <1>1, QuietStep
  <1>3. thread'[t] = r /\ \A u \in Threads \ {t} : thread'[u] = thread[u]
    BY ThreadPut DEF ViewTypes
  <1>4. Loading' => Loading
    BY <1>3, LoadsOn, ReadIsAThread
  <1>5. NewestIsCarried'
    <2>1. ~Carries(t) /\ thread[t].at # "bump"
      BY DEF Carries
    <2>2. \A i \in DOMAIN events : events[i].revision = revision => NewestIsCarried'
      BY DEF NewestIsCarried
    <2>3. page.loaded /\ page.held.revision = revision => NewestIsCarried'
      BY DEF NewestIsCarried
    <2>4. QED
      BY <1>3, <2>1, <2>2, <2>3, CarriedOn
  <1>6. LoadsQuietly'
    BY <1>3, <1>4, QuietOn
  <1>7. FinishedIsAnnounced'
    BY <1>4, AnnouncedOn
  <1>8. QED
    BY <1>2, <1>5, <1>6, <1>7

\* A view is shown: an event, or the answer to a thread.
LEMMA ShowingKeeps ==
    ASSUME ViewsIInv, NEW t \in Threads, NEW r \in ThreadStates,
           thread' = [thread EXCEPT ![t] = r], r.at = "bump" <=> thread[t].at = "bump",
           r.view.revision <= revision, r.at = "answer" => Fits(r.view),
           t = "read" => r.at \in {"idle", "look again", "see again", "answer"},
           t = "read" /\ thread[t].at = "idle" => r.at = "idle",
           r.at \in {"bump", "look", "see"} => thread[t].at \in {"bump", "look", "see"},
           NEW view \in SentViews, Fits(view), NEW flow \in Flows, Shows(view, flow),
           events' \in Seq(SentViews), \A i \in DOMAIN events' : Fits(events'[i]),
           FlowIsOne', NewestIsCarried',
           UNCHANGED <<account, folder, latestJob, jobRuns, revision, changes, known, unheard, finished>>
    PROVE  ViewsIInv'
  <1> USE DEF ViewsIInv
  <1>1. page \in Pages /\ view.job \in JobsShown
    BY DEF ViewTypes, SentViews
  <1>2. PICK notice : notice = IF /\ page.loaded /\ view.job.status \in {"failed", "installed"}
                                  /\ view.job # page.shown
                               THEN view.job.id ELSE page.notice
    OBVIOUS
  <1>3. notice \in 0..MaxViewedJobs
    BY <1>1, <1>2 DEF Pages, JobsShown
  <1>4. page' = [page EXCEPT !.held = view, !.loaded = TRUE, !.flow = flow, !.shown = view.job,
                             !.notice = notice]
    BY <1>1, <1>2 DEF Shows, Pages
  <1>5. /\ page' \in Pages /\ page'.loaded /\ page'.held = view /\ page'.shown = view.job
        /\ page'.flow = flow /\ page'.notice = notice /\ page'.listening = page.listening
    BY <1>1, <1>3, <1>4 DEF Pages
  <1>6. ViewTypes' /\ ChangesAreCounted' /\ ViewsFit'
    <2>1. /\ IF page'.loaded THEN Fits(page'.held) ELSE page'.held = NoView
          /\ page'.shown = page'.held.job
      BY <1>5
    <2>2. QED
      BY <1>5, <2>1, QuietStep
  <1>7. thread'[t] = r /\ \A u \in Threads \ {t} : thread'[u] = thread[u]
    BY ThreadPut DEF ViewTypes
  <1>8. Loading' => Loading
    BY <1>5, <1>7, LoadsOn, ReadIsAThread
  <1>9. LoadsQuietly'
    BY <1>7, <1>8, QuietOn
  <1>10. FinishedIsAnnounced'
    <2>1. finished # 0 => ~Loading'
      BY <1>8 DEF FinishedIsAnnounced
    <2>2. ASSUME view.job.status = "installed", finished = view.job.id
          PROVE  notice = finished
      <3>1. view.job.id # 0
        BY <2>2 DEF Fits
      <3>2. page.loaded
        BY <2>2, <3>1 DEF FinishedIsAnnounced, Loading
      <3>3. CASE view.job # page.shown
        BY <1>2, <2>2, <3>2, <3>3
      <3>4. CASE view.job = page.shown
        <4>1. page.held.job = view.job
          BY <3>4 DEF ViewsFit
        <4>2. page.notice = finished
          BY <2>2, <4>1 DEF FinishedIsAnnounced
        <4>3. QED
          BY <1>2, <3>4, <4>2
      <3>5. QED
        BY <3>3, <3>4
    <2>3. QED
      BY <1>5, <2>1, <2>2 DEF FinishedIsAnnounced
  <1>11. QED
    BY <1>6, <1>9, <1>10

\* newestView: what is shown is no older than what was held or has come.
LEMMA NewestIsNewer ==
    ASSUME ViewTypes, ViewsFit, NEW next \in SentViews, Fits(next),
           NEW view, view = NewestView(page.held, next)
    PROVE  /\ view \in SentViews /\ Fits(view)
           /\ next.revision = revision => view.revision = revision
           /\ page.loaded /\ page.held.revision = revision => view.revision = revision
  <1>1. /\ next.revision \in Nat /\ page.held.revision \in Nat /\ revision \in Nat
        /\ page.held \in SentViews
    BY ViewBoundsAreNat DEF ViewTypes, SentViews, Pages
  <1>2. next.revision <= revision
    BY DEF Fits
  <1>3. page.loaded => Fits(page.held) /\ page.held.revision <= revision
    BY DEF ViewsFit, Fits
  <1>4. CASE page.loaded /\ page.held.revision > next.revision
    BY <1>1, <1>2, <1>3, <1>4 DEF NewestView
  <1>5. CASE ~(page.loaded /\ page.held.revision > next.revision)
    BY <1>1, <1>2, <1>3, <1>5 DEF NewestView
  <1>6. QED
    BY <1>4, <1>5

LEMMA OnChangeKeeps ==
    ASSUME ViewsIInv, OnChange
    PROVE  ViewsIInv'
  <1> USE DEF ViewsIInv
  <1>1. PICK next : next = Head(events)
    OBVIOUS
  <1>2. PICK view : view = NewestView(page.held, next)
    OBVIOUS
  <1>3. /\ events # <<>> /\ Shows(view, page.flow) /\ events' = Tail(events)
        /\ UNCHANGED <<account, folder, latestJob, jobRuns, revision, changes, known, unheard, finished>>
        /\ UNCHANGED thread
    BY <1>1, <1>2 DEF OnChange, state
  <1>4. events \in Seq(SentViews) /\ \A i \in DOMAIN events : Fits(events[i])
    BY DEF ViewTypes, ViewsFit
  <1>5. next \in SentViews /\ Fits(next) /\ next = events[1]
    BY <1>1, <1>3, <1>4
  <1>6. /\ Tail(events) \in Seq(SentViews)
        /\ \A i \in DOMAIN Tail(events) : i + 1 \in DOMAIN events /\ Tail(events)[i] = events[i + 1]
        /\ \A i \in DOMAIN events : i = 1 \/ i - 1 \in DOMAIN Tail(events)
        /\ \A i \in DOMAIN events : i # 1 => Tail(events)[i - 1] = events[i]
    BY <1>3, <1>4
  <1>7. \A i \in DOMAIN events' : Fits(events'[i])
    BY <1>3, <1>4, <1>6
  <1>8. /\ view \in SentViews /\ Fits(view)
        /\ next.revision = revision => view.revision = revision
        /\ page.loaded /\ page.held.revision = revision => view.revision = revision
    BY <1>2, <1>5, NewestIsNewer
  <1>9. page'.loaded /\ page'.held = view /\ page'.flow = page.flow
    BY <1>3 DEF Shows, ViewTypes, Pages
  <1>10. page.flow \in Flows
    BY DEF ViewTypes, Pages
  <1>11. FlowIsOne'
    BY <1>3, <1>9 DEF FlowIsOne
  <1>12. NewestIsCarried'
    <2>1. view.revision = revision => NewestIsCarried'
      BY <1>3, <1>9 DEF NewestIsCarried
    <2>2. ASSUME NEW i \in DOMAIN events, events[i].revision = revision PROVE NewestIsCarried'
      <3>1. CASE i = 1
        BY <1>5, <1>8, <2>1, <2>2, <3>1
      <3>2. CASE i # 1
        BY <1>3, <1>6, <2>2, <3>2 DEF NewestIsCarried
      <3>3. QED
        BY <3>1, <3>2
    <2>3. "read" \in Threads
      BY ReadIsAThread
    <2>4. thread["read"].at = "bump" \/ Carries("read") => NewestIsCarried'
      BY <1>3, <2>3 DEF NewestIsCarried, Carries
    <2>5. QED
      BY <1>3, <1>8, <2>1, <2>2, <2>3, <2>4, CarriedOn
  <1>13. PICK r : r = thread["read"]
    OBVIOUS
  <1>14. /\ "read" \in Threads /\ r \in ThreadStates /\ thread' = [thread EXCEPT !["read"] = r]
         /\ r.view.revision <= revision /\ (r.at = "answer" => Fits(r.view))
         /\ r.at \in {"idle", "look again", "see again", "answer"}
    BY <1>3, <1>13, ReadIsAThread DEF ViewTypes, ViewsFit, ChangesAreCounted
  <1>15. events' \in Seq(SentViews)
    BY <1>3, <1>6
  <1>16. QED
    BY <1>3, <1>7, <1>8, <1>10, <1>11, <1>12, <1>13, <1>14, <1>15, ShowingKeeps

\* The answers: what they show, and what the thread does next.
LEMMA AnswerKeeps ==
    ASSUME ViewsIInv, NEW t \in Threads, thread[t].at = "answer", NEW r \in ThreadStates,
           thread' = [thread EXCEPT ![t] = r], t = "start" \/ r.at = "idle",
           r.at \in {"idle", "act"}, r.view.revision <= revision,
           NEW next, next = thread[t].view,
           NEW view, view = IF t = "read" THEN next ELSE NewestView(page.held, next),
           NEW flow \in Flows, Shows(view, flow), FlowIsOne', UNCHANGED events,
           UNCHANGED <<account, folder, latestJob, jobRuns, revision, changes, known, unheard, finished>>
    PROVE  ViewsIInv'
  <1> USE DEF ViewsIInv
  <1>1. next \in SentViews /\ Fits(next)
    BY DEF ViewTypes, ThreadStates, ViewsFit
  <1>2. /\ view \in SentViews /\ Fits(view)
        /\ next.revision = revision => view.revision = revision
    BY <1>1, NewestIsNewer
  <1>3. t # "read" /\ page.loaded /\ page.held.revision = revision => view.revision = revision
    BY <1>1, NewestIsNewer
  <1>4. page'.loaded /\ page'.held = view
    BY DEF Shows, ViewTypes, Pages
  <1>5. thread'[t] = r /\ \A u \in Threads \ {t} : thread'[u] = thread[u]
    BY ThreadPut DEF ViewTypes
  <1>6. view.revision = revision => NewestIsCarried'
    BY <1>4 DEF NewestIsCarried
  <1>7. NewestIsCarried'
    <2>1. CASE t = "read" /\ ~unheard
      <3>1. revision = 0
        BY <2>1 DEF LoadsQuietly, Loading
      <3>2. view.revision \in Nat /\ view.revision <= revision
        BY <1>2, ViewBoundsAreNat DEF SentViews, Fits
      <3>3. QED
        BY <1>6, <3>1, <3>2
    <2>2. CASE t = "read" /\ unheard
      BY <2>2 DEF NewestIsCarried
    <2>3. CASE t # "read"
      <3>1. thread[t].at = "bump" \/ Carries(t) => NewestIsCarried'
        BY <1>2, <1>6 DEF Carries
      <3>2. \A i \in DOMAIN events : events[i].revision = revision => NewestIsCarried'
        BY DEF NewestIsCarried
      <3>3. page.loaded /\ page.held.revision = revision => NewestIsCarried'
        BY <1>3, <1>6, <2>3
      <3>4. QED
        BY <1>5, <3>1, <3>2, <3>3, CarriedOn
    <2>4. QED
      BY <2>1, <2>2, <2>3
  <1>8. events' \in Seq(SentViews) /\ \A i \in DOMAIN events' : Fits(events'[i])
    BY DEF ViewTypes, ViewsFit
  <1>9. /\ t = "read" => r.at = "idle"
        /\ r.at # "bump" /\ thread[t].at # "bump" /\ r.at # "answer"
    BY DEF ViewTypes
  <1>10. QED
    BY <1>2, <1>7, <1>8, <1>9, ShowingKeeps

-----------------------------------------------------------------------------
(* DeliveryViews: commands, the worker, the page; the theorems.            *)

LEMMA RefusedKeeps ==
    ASSUME ViewsIInv, NEW t \in PageThreads, thread[t].at = "act", Refused(t)
    PROVE  ViewsIInv'
  <1> USE DEF ViewsIInv
  <1>1. t \in Threads \ {"read"} /\ thread[t] \in ThreadStates
    BY DEF Threads, PageThreads, ViewTypes
  <1>2. PICK r : r = [thread[t] EXCEPT !.at = "refused"]
    OBVIOUS
  <1>3. r \in ThreadStates /\ r.at = "refused" /\ r.view = thread[t].view
    BY <1>1, <1>2 DEF ThreadStates, ThreadSteps
  <1>4. thread' = [thread EXCEPT ![t] = r]
    BY <1>2 DEF Refused, ThreadGoes
  <1>5. /\ UNCHANGED <<account, folder, latestJob, jobRuns, revision, events, page>>
        /\ UNCHANGED <<changes, known, unheard, finished>>
    BY DEF Refused, state, viewsHistory
  <1>6. thread'["start"].at = thread["start"].at \/ t = "start"
    BY <1>1, <1>3, <1>4, ReadIsAThread DEF ViewTypes
  <1>7. FlowIsOne'
    BY <1>5, <1>6 DEF FlowIsOne
  <1>8. r.view.revision <= revision /\ page' \in Pages
    BY <1>1, <1>3, <1>5 DEF ViewsFit, ViewTypes
  <1>9. QED
    BY <1>1, <1>3, <1>4, <1>5, <1>7, <1>8, AskingKeeps

LEMMA DoneKeeps ==
    ASSUME ViewsIInv, NEW t \in PageThreads, thread[t].at = "act", Done(t), JobGoesOn,
           account' \in BOOLEAN, folder' \in BOOLEAN, jobRuns' \in BOOLEAN,
           latestJob'.status = "installed" => latestJob' = latestJob
    PROVE  ViewsIInv'
  <1> USE DEF ViewsIInv
  <1>1. t \in {"start", "button", "worker"} /\ t # "worker" /\ thread[t] \in ThreadStates
    BY DEF Threads, PageThreads, ViewTypes
  <1>2. PICK r : r = [thread[t] EXCEPT !.at = "bump"]
    OBVIOUS
  <1>3. r \in ThreadStates /\ r.at = "bump" /\ r.view = thread[t].view
    BY <1>1, <1>2 DEF ThreadStates, ThreadSteps
  <1>4. thread' = [thread EXCEPT ![t] = r]
    BY <1>2 DEF Done, ThreadGoes
  <1>5. ChangeIsMade /\ UNCHANGED <<revision, events, page, known>>
    BY DEF Done
  <1>6. QED
    BY <1>1, <1>3, <1>4, <1>5, ChangeKeeps

\* What the job may become.
LEMMA JobStays ==
    ASSUME ViewTypes, ViewsFit, latestJob' = latestJob
    PROVE  JobGoesOn
  BY ViewBoundsAreNat DEF JobGoesOn, ViewTypes, ViewsFit, JobsShown

LEMMA JobMoves ==
    ASSUME ViewTypes, ViewsFit, NEW s \in JobStatuses \cup {"none"},
           latestJob' = [latestJob EXCEPT !.status = s],
           s = "none" \/ latestJob.status \notin {"installed", "none"}
    PROVE  JobGoesOn /\ latestJob'.id = latestJob.id /\ latestJob'.status = s
  BY ViewBoundsAreNat DEF JobGoesOn, ViewTypes, ViewsFit, JobsShown

LEMMA QueueCommandKeeps ==
    ASSUME ViewsIInv, NEW t \in PageThreads, Command(t)
    PROVE  ViewsIInv'
  <1> USE DEF ViewsIInv
  <1>0. thread[t].at = "act"
    BY DEF Command, SignInAsked, SignOut, SetInstallFolder, InstallAsked, Pause, ResumeJob, Cancel,
           ChangeJob, RemoveJob, Does
  <1>1. CASE Refused(t)
    BY <1>0, <1>1, RefusedKeeps
  <1>2. ASSUME Done(t), UNCHANGED latestJob, account' \in BOOLEAN, folder' \in BOOLEAN,
               jobRuns' \in BOOLEAN
        PROVE  ViewsIInv'
    BY <1>0, <1>2, DoneKeeps, JobStays
  <1>3. CASE SignInAsked(t) /\ ~Refused(t)
    BY <1>2, <1>3 DEF SignInAsked, ViewTypes
  <1>4. CASE SignOut(t)
    BY <1>2, <1>4 DEF SignOut, ViewTypes
  <1>5. CASE SetInstallFolder(t) /\ ~Refused(t)
    BY <1>2, <1>5 DEF SetInstallFolder, ViewTypes
  <1>6. CASE InstallAsked(t) /\ ~Refused(t)
    <2>1. /\ Done(t) /\ account' \in BOOLEAN /\ folder' \in BOOLEAN /\ jobRuns' \in BOOLEAN
      BY <1>6 DEF InstallAsked, ViewTypes
    <2>2. CASE UNCHANGED latestJob
      BY <1>2, <2>1, <2>2
    <2>3. CASE /\ latestJob.id < MaxViewedJobs /\ latestJob' = [id |-> latestJob.id + 1, status |-> "queued"]
      <3>1. latestJob.id \in Nat
        BY ViewBoundsAreNat DEF ViewTypes, JobsShown
      <3>2. JobGoesOn /\ latestJob'.status # "installed"
        BY <2>3, <3>1, ViewBoundsAreNat DEF JobGoesOn, JobsShown, JobStatuses
      <3>3. QED
        BY <1>0, <2>1, <3>2, DoneKeeps
    <2>4. QED
      BY <1>6, <2>2, <2>3 DEF InstallAsked
  <1>7. ASSUME NEW command, NEW from, NEW to \in {"paused", "queued", "cancelled"},
               from \cap {"installed", "none"} = {}, ChangeJob(t, command, from, to), ~Refused(t)
        PROVE  ViewsIInv'
    <2>1. /\ Done(t) /\ account' \in BOOLEAN /\ folder' \in BOOLEAN /\ jobRuns' \in BOOLEAN
      BY <1>7 DEF ChangeJob, ViewTypes
    <2>2. CASE UNCHANGED latestJob
      BY <1>2, <2>1, <2>2
    <2>3. CASE latestJob.status \in from /\ latestJob' = [latestJob EXCEPT !.status = to]
      <3>1. JobGoesOn /\ latestJob'.status # "installed"
        BY <1>7, <2>3, JobMoves DEF JobStatuses
      <3>2. QED
        BY <1>0, <2>1, <3>1, DoneKeeps
    <2>4. QED
      BY <1>7, <2>2, <2>3 DEF ChangeJob
  <1>8. CASE Pause(t) \/ ResumeJob(t) \/ Cancel(t)
    <2>1. CASE Pause(t)
      BY <1>1, <1>7, <2>1 DEF Pause
    <2>2. CASE ResumeJob(t)
      BY <1>1, <1>7, <2>2 DEF ResumeJob
    <2>3. CASE Cancel(t)
      BY <1>1, <1>7, <2>3 DEF Cancel
    <2>4. QED
      BY <1>8, <2>1, <2>2, <2>3
  <1>9. CASE RemoveJob(t) /\ ~Refused(t)
    <2>1. /\ Done(t) /\ account' \in BOOLEAN /\ folder' \in BOOLEAN /\ jobRuns' \in BOOLEAN
          /\ latestJob' = [latestJob EXCEPT !.status = "none"]
      BY <1>9 DEF RemoveJob, ViewTypes
    <2>2. JobGoesOn /\ latestJob'.status # "installed"
      BY <2>1, JobMoves
    <2>3. QED
      BY <1>0, <2>1, <2>2, DoneKeeps
  <1>10. QED
    BY <1>1, <1>3, <1>4, <1>5, <1>6, <1>8, <1>9 DEF Command

LEMMA WorkKeeps ==
    ASSUME ViewsIInv, Work
    PROVE  ViewsIInv'
  <1> USE DEF ViewsIInv
  <1>1. PICK then \in {"work", "sign out"} :
          /\ thread' = [thread EXCEPT !["worker"].does = then, !["worker"].at = "bump"]
          /\ \/ UNCHANGED latestJob
             \/ latestJob.status = "queued" /\ latestJob' = [latestJob EXCEPT !.status = "downloading"]
             \/ /\ latestJob.status = "downloading"
                /\ \E s \in {"paused", "cancelled", "failed", "installed"} :
                      latestJob' = [latestJob EXCEPT !.status = s]
          /\ account' \in BOOLEAN /\ jobRuns' \in BOOLEAN
    BY DEF Work, ViewTypes
  <1>2. PICK r : r = [thread["worker"] EXCEPT !.does = then, !.at = "bump"]
    OBVIOUS
  <1>3. "worker" \in Threads /\ thread["worker"] \in ThreadStates
    BY ReadIsAThread DEF ViewTypes
  <1>4. /\ r \in ThreadStates /\ r.at = "bump" /\ r.view = thread["worker"].view
    BY <1>2, <1>3 DEF ThreadStates, ThreadSteps, Tasks
  <1>5. thread' = [thread EXCEPT !["worker"] = r]
    BY <1>1, <1>2, <1>3 DEF ViewTypes, ThreadStates
  <1>6. /\ thread["worker"].at = "idle" /\ ChangeIsMade
        /\ UNCHANGED <<folder, revision, events, page, known>>
    BY DEF Work
  <1>7. folder' \in BOOLEAN
    BY <1>6 DEF ViewTypes
  <1>8. /\ JobGoesOn
        /\ latestJob'.status = "installed" /\ latestJob # latestJob' =>
             latestJob'.id = latestJob.id /\ latestJob.status \notin {"installed", "none"}
    <2>1. CASE UNCHANGED latestJob
      BY <2>1, JobStays
    <2>2. CASE latestJob.status = "queued" /\ latestJob' = [latestJob EXCEPT !.status = "downloading"]
      BY <2>2, JobMoves DEF JobStatuses
    <2>3. ASSUME latestJob.status = "downloading", NEW s \in {"paused", "cancelled", "failed", "installed"},
                 latestJob' = [latestJob EXCEPT !.status = s]
          PROVE  JobGoesOn /\ latestJob'.id = latestJob.id
      BY <2>3, JobMoves DEF JobStatuses
    <2>4. QED
      BY <1>1, <2>1, <2>2, <2>3
  <1>9. QED
    BY <1>1, <1>4, <1>5, <1>6, <1>7, <1>8, ChangeKeeps

LEMMA PageIsTyped ==
    ASSUME ViewTypes
    PROVE  /\ page \in Pages /\ page.held \in SentViews /\ page.held.job.id \in 0..MaxViewedJobs
           /\ \A flow \in Flows : /\ [page EXCEPT !.flow = flow] \in Pages
                                  /\ [page EXCEPT !.flow = flow].flow = flow
  BY DEF ViewTypes, Pages, SentViews, JobsShown

\* What the page asks of the launcher.
LEMMA CallIsTyped ==
    ASSUME NEW command \in Tasks, NEW number \in 0..MaxViewedJobs,
           NEW r, r = [does |-> command, at |-> "act", view |-> NoView, of |-> number]
    PROVE  r \in ThreadStates /\ r.at = "act" /\ r.view.revision = 0
  BY NoViewIsTyped DEF ThreadStates, ThreadSteps

LEMMA NumberIsTyped ==
    ASSUME ViewTypes, NEW command, NEW number,
           number = IF command \in ForJobs THEN page.held.job.id ELSE 0
    PROVE  number \in 0..MaxViewedJobs
  BY PageIsTyped, ViewBoundsAreNat

LEMMA NewThreadIsOld ==
    ASSUME ViewTypes, NEW r, r.view.revision = 0
    PROVE  r.view.revision <= revision
  <1>1. revision \in Nat
    BY ViewBoundsAreNat DEF ViewTypes
  <1>2. QED
    BY <1>1

LEMMA PressKeeps ==
    ASSUME ViewsIInv,
           NEW command \in {"sign in", "sign out", "choose", "pause", "resume", "cancel", "remove"},
           Press(command)
    PROVE  ViewsIInv'
  <1> USE DEF ViewsIInv
  <1>1. PICK number : number = IF command \in ForJobs THEN page.held.job.id ELSE 0
    OBVIOUS
  <1>2. PICK r : r = [does |-> command, at |-> "act", view |-> NoView, of |-> number]
    OBVIOUS
  <1>3. /\ thread' = [thread EXCEPT !["button"] = r] /\ thread["button"].at = "idle"
        /\ UNCHANGED <<account, folder, latestJob, jobRuns, revision, events, page>>
        /\ UNCHANGED <<changes, known, unheard, finished>>
    BY <1>1, <1>2 DEF Press, AsksCommand, state, viewsHistory
  <1>4. /\ r \in ThreadStates /\ r.at = "act" /\ r.view.revision = 0
        /\ "button" \in Threads \ {"read"}
    <2>1. command \in Tasks
      BY DEF Tasks, ForJobs
    <2>2. number \in 0..MaxViewedJobs
      BY <1>1, NumberIsTyped
    <2>3. r \in ThreadStates /\ r.at = "act" /\ r.view.revision = 0
      BY <1>2, <2>1, <2>2, CallIsTyped
    <2>4. QED
      BY <2>3, ReadIsAThread
  <1>5. r.view.revision <= revision /\ page' \in Pages
    <2>1. page \in Pages
      BY PageIsTyped
    <2>2. r.view.revision <= revision
      BY <1>4, NewThreadIsOld
    <2>3. page' = page
      BY <1>3
    <2>4. QED
      BY <2>1, <2>2, <2>3
  <1>6. FlowIsOne'
    BY <1>3, ReadIsAThread DEF FlowIsOne, ViewTypes
  <1>7. QED
    BY <1>3, <1>4, <1>5, <1>6, AskingKeeps

\* A step of the install flow: the thread of its calls is put, the flow moves.
LEMMA FlowKeeps ==
    ASSUME ViewsIInv, NEW r \in ThreadStates, thread' = [thread EXCEPT !["start"] = r],
           thread["start"].at \in {"idle", "refused"}, r.at \in {"idle", "act"},
           r.view.revision <= revision, NEW flow \in Flows, page' = [page EXCEPT !.flow = flow],
           flow \in {"none", "dialog"} => r.at = "idle",
           UNCHANGED <<account, folder, latestJob, jobRuns, revision, events>>,
           UNCHANGED <<changes, known, unheard, finished>>
    PROVE  ViewsIInv'
  <1> USE DEF ViewsIInv
  <1>1. /\ page' \in Pages /\ page'.flow = flow
        /\ page'.listening = page.listening /\ page'.loaded = page.loaded /\ page'.held = page.held
        /\ page'.shown = page.shown /\ page'.notice = page.notice
    BY DEF ViewTypes, Pages
  <1>2. "start" \in Threads \ {"read"} /\ thread'["start"] = r
    BY ReadIsAThread DEF ViewTypes
  <1>3. FlowIsOne'
    BY <1>1, <1>2 DEF FlowIsOne
  <1>4. QED
    BY <1>1, <1>2, <1>3, AskingKeeps

LEMMA StartIsIdle ==
    ASSUME ViewsIInv, page.flow \in {"none", "dialog"}
    PROVE  thread["start"].at = "idle"
  BY DEF ViewsIInv, FlowIsOne

LEMMA StartInstallKeeps ==
    ASSUME ViewsIInv, StartInstall
    PROVE  ViewsIInv'
  <1> USE DEF ViewsIInv
  <1>1. /\ page.flow = "none" /\ thread["start"].at = "idle"
        /\ UNCHANGED <<account, folder, latestJob, jobRuns, revision, events>>
        /\ UNCHANGED <<changes, known, unheard, finished>>
    BY StartIsIdle DEF StartInstall, state, viewsHistory
  <1>2. revision \in Nat
    BY ViewBoundsAreNat DEF ViewTypes
  <1>3. CASE page.held.account
    <2>1. PICK flow : flow = Queues(page.held)
      OBVIOUS
    <2>2. flow \in {"installing", "choosing"} /\ FlowCommand(flow) \in {"choose", "install"}
      BY <2>1 DEF Queues, FlowCommand
    <2>a. PICK command : command = FlowCommand(flow)
      OBVIOUS
    <2>3. PICK number : number = IF command \in ForJobs THEN page.held.job.id ELSE 0
      OBVIOUS
    <2>b. PICK r : r = [does |-> command, at |-> "act", view |-> NoView, of |-> number]
      OBVIOUS
    <2>4. page' = [page EXCEPT !.flow = flow] /\ thread' = [thread EXCEPT !["start"] = r]
      BY <1>3, <2>1, <2>a, <2>3, <2>b DEF StartInstall, AsksCommand
    <2>5. r \in ThreadStates /\ r.at = "act" /\ r.view.revision = 0
      <3>1. command \in Tasks
        BY <2>2, <2>a DEF Tasks
      <3>2. number \in 0..MaxViewedJobs
        BY <2>3, NumberIsTyped
      <3>3. QED
        BY <2>b, <3>1, <3>2, CallIsTyped
    <2>6. r.view.revision <= revision /\ flow \in Flows
      <3>1. flow \in Flows
        BY <2>2 DEF Flows
      <3>2. QED
        BY <2>5, <3>1, NewThreadIsOld
    <2>7. QED
      BY <1>1, <2>2, <2>4, <2>5, <2>6, FlowKeeps
  <1>4. CASE ~page.held.account
    <2>1. PICK r : r = thread["start"]
      OBVIOUS
    <2>2. /\ page' = [page EXCEPT !.flow = "dialog"]
          /\ r \in ThreadStates /\ thread' = [thread EXCEPT !["start"] = r]
          /\ r.view.revision <= revision /\ "dialog" \in Flows
      BY <1>4, <2>1, ReadIsAThread DEF StartInstall, ViewTypes, ViewsFit, Flows
    <2>3. QED
      BY <1>1, <2>1, <2>2, FlowKeeps
  <1>5. QED
    BY <1>3, <1>4

LEMMA DialogKeeps ==
    ASSUME ViewsIInv, SubmitSignIn \/ CancelSignIn \/ StartRefused
    PROVE  ViewsIInv'
  <1> USE DEF ViewsIInv
  <1>1. /\ UNCHANGED <<account, folder, latestJob, jobRuns, revision, events>>
        /\ UNCHANGED <<changes, known, unheard, finished>>
    BY DEF SubmitSignIn, CancelSignIn, StartRefused, state, viewsHistory
  <1>2. revision \in Nat
    BY ViewBoundsAreNat DEF ViewTypes
  <1>3. CASE SubmitSignIn
    <2>0. PICK number : number = IF "sign in" \in ForJobs THEN page.held.job.id ELSE 0
      OBVIOUS
    <2>1. PICK r : r = [does |-> "sign in", at |-> "act", view |-> NoView, of |-> number]
      OBVIOUS
    <2>2. /\ page' = [page EXCEPT !.flow = "signing in"] /\ thread' = [thread EXCEPT !["start"] = r]
          /\ thread["start"].at = "idle"
      BY <1>3, <2>0, <2>1, StartIsIdle DEF SubmitSignIn, AsksCommand
    <2>3. r \in ThreadStates /\ r.at = "act" /\ r.view.revision = 0
      <3>1. "sign in" \in Tasks
        BY DEF Tasks
      <3>2. QED
        BY <2>0, <2>1, <3>1, NumberIsTyped, CallIsTyped
    <2>4. r.view.revision <= revision /\ "signing in" \in Flows
      BY <1>2, <2>3 DEF Flows
    <2>5. QED
      BY <1>1, <2>2, <2>3, <2>4, FlowKeeps
  <1>4. CASE CancelSignIn
    <2>1. PICK r : r = thread["start"]
      OBVIOUS
    <2>2. /\ page' = [page EXCEPT !.flow = "none"]
          /\ r \in ThreadStates /\ thread' = [thread EXCEPT !["start"] = r]
          /\ r.view.revision <= revision /\ "none" \in Flows /\ r.at = "idle"
      BY <1>4, <2>1, ReadIsAThread, StartIsIdle
      DEF CancelSignIn, ViewTypes, ViewsFit, Flows
    <2>3. QED
      BY <1>1, <2>1, <2>2, FlowKeeps
  <1>5. CASE StartRefused
    <2>1. PICK flow : flow = IF page.flow = "signing in" THEN "dialog" ELSE "none"
      OBVIOUS
    <2>2. flow \in Flows /\ page' = [page EXCEPT !.flow = flow]
      BY <1>5, <2>1 DEF StartRefused, Flows, ViewTypes, Pages
    <2>3. /\ thread' = [thread EXCEPT !["start"] = IdleThread] /\ thread["start"].at = "refused"
      BY <1>5 DEF StartRefused, Rests
    <2>4. IdleThread.view.revision <= revision
      BY <1>2, IdleIsTyped
    <2>5. QED
      BY <1>1, <2>2, <2>3, <2>4, IdleIsTyped, FlowKeeps
  <1>6. QED
    BY <1>3, <1>4, <1>5

LEMMA ListenKeeps ==
    ASSUME ViewsIInv, Listen
    PROVE  ViewsIInv'
  <1> USE DEF ViewsIInv
  <1>1. /\ ~page.listening /\ page' = [page EXCEPT !.listening = TRUE] /\ UNCHANGED thread
        /\ UNCHANGED <<account, folder, latestJob, jobRuns, revision, events>>
        /\ UNCHANGED <<changes, known, unheard, finished>>
    BY DEF Listen, state, viewsHistory
  <1>2. /\ page' \in Pages /\ page'.flow = page.flow /\ page'.loaded = page.loaded
        /\ page'.held = page.held /\ page'.shown = page.shown /\ page'.notice = page.notice
    BY <1>1 DEF ViewTypes, Pages
  <1>3. PICK r : r = thread["read"]
    OBVIOUS
  <1>4. /\ "read" \in Threads /\ r \in ThreadStates /\ thread' = [thread EXCEPT !["read"] = r]
        /\ r.view.revision <= revision /\ (r.at = "answer" => Fits(r.view))
        /\ r.at \in {"idle", "look again", "see again", "answer"}
    BY <1>1, <1>3, ReadIsAThread DEF ViewTypes, ViewsFit, ChangesAreCounted
  <1>5. /\ events' \in Seq(SentViews) /\ \A i \in DOMAIN events' : Fits(events'[i])
        /\ IF page'.loaded THEN Fits(page'.held) ELSE page'.held = NoView
        /\ page'.shown = page'.held.job
    BY <1>1, <1>2 DEF ViewTypes, ViewsFit
  <1>6. ViewTypes' /\ ChangesAreCounted' /\ ViewsFit'
    BY <1>1, <1>2, <1>3, <1>4, <1>5, QuietStep
  <1>7. Loading' => Loading
    BY <1>1, <1>2 DEF Loading
  <1>8. NewestIsCarried' /\ LoadsQuietly'
    BY <1>1, <1>2, <1>7 DEF NewestIsCarried, LoadsQuietly, Carries
  <1>9. FlowIsOne' /\ FinishedIsAnnounced'
    BY <1>1, <1>2, <1>7, AnnouncedOn DEF FlowIsOne
  <1>10. QED
    BY <1>6, <1>8, <1>9

LEMMA AnswersKeep ==
    ASSUME ViewsIInv, AnswerRead \/ AnswerButton \/ AnswerStart
    PROVE  ViewsIInv'
  <1> USE DEF ViewsIInv
  <1>1. UNCHANGED <<account, folder, latestJob, jobRuns, revision, changes, known, unheard, finished>>
    <2>1. UNCHANGED state /\ UNCHANGED <<revision, changes, known, unheard, finished>>
      BY DEF AnswerRead, AnswerButton, AnswerStart
    <2>2. QED
      BY <2>1 DEF state
  <1>2. page.flow \in Flows /\ UNCHANGED events /\ revision \in Nat
    <2>1. UNCHANGED events
      BY DEF AnswerRead, AnswerButton, AnswerStart
    <2>2. page.flow \in Flows /\ revision \in Nat
      BY ViewBoundsAreNat DEF ViewTypes, Pages
    <2>3. QED
      BY <2>1, <2>2
  <1>3. IdleThread.view.revision <= revision
    BY <1>2, IdleIsTyped
  <1>4. CASE AnswerRead
    <2>1. PICK next : next = thread["read"].view
      OBVIOUS
    <2>2. /\ thread["read"].at = "answer" /\ Shows(next, page.flow)
          /\ thread' = [thread EXCEPT !["read"] = IdleThread]
      BY <1>4, <2>1 DEF AnswerRead, Rests
    <2>3. page'.flow = page.flow /\ thread'["start"] = thread["start"]
      BY <2>2, ReadIsAThread DEF Shows, ViewTypes, Pages
    <2>4. FlowIsOne'
      BY <2>3 DEF FlowIsOne
    <2>5. QED
      BY <1>1, <1>2, <1>3, <2>1, <2>2, <2>4, IdleIsTyped, ReadIsAThread, AnswerKeeps
  <1>5. CASE AnswerButton /\ thread["button"].at = "answer"
    <2>1. PICK next : next = thread["button"].view
      OBVIOUS
    <2>2. PICK view : view = NewestView(page.held, next)
      OBVIOUS
    <2>3. Shows(view, page.flow) /\ thread' = [thread EXCEPT !["button"] = IdleThread]
      BY <1>5, <2>1, <2>2 DEF AnswerButton, Rests
    <2>4. page'.flow = page.flow /\ thread'["start"] = thread["start"]
      BY <2>3, ReadIsAThread DEF Shows, ViewTypes, Pages
    <2>5. FlowIsOne'
      BY <2>4 DEF FlowIsOne
    <2>6. QED
      BY <1>1, <1>2, <1>3, <1>5, <2>1, <2>2, <2>3, <2>5, IdleIsTyped, ReadIsAThread, AnswerKeeps
  <1>6. CASE AnswerButton /\ thread["button"].at # "answer"
    <2>1. /\ thread["button"].at = "refused" /\ UNCHANGED page
          /\ thread' = [thread EXCEPT !["button"] = IdleThread]
      BY <1>6 DEF AnswerButton, Rests
    <2>2. page' \in Pages /\ "button" \in Threads \ {"read"}
      BY <2>1, ReadIsAThread DEF ViewTypes
    <2>3. FlowIsOne'
      BY <2>1, ReadIsAThread DEF FlowIsOne, ViewTypes
    <2>4. QED
      BY <1>1, <1>2, <1>3, <2>1, <2>2, <2>3, IdleIsTyped, AskingKeeps
  <1>7. CASE AnswerStart
    <2>1. PICK next : next = thread["start"].view
      OBVIOUS
    <2>2. PICK view : view = NewestView(page.held, next)
      OBVIOUS
    <2>3. PICK flow : flow = IF page.flow = "signing in" THEN Queues(next)
                             ELSE IF page.flow = "choosing" THEN "installing" ELSE "none"
      OBVIOUS
    <2>4. flow \in {"installing", "choosing", "none"} /\ FlowCommand(flow) \in {"choose", "install"}
      BY <2>3 DEF Queues, FlowCommand
    <2>a. PICK nextCall : nextCall = [does |-> FlowCommand(flow), of |-> 0, at |-> "act", view |-> NoView]
      OBVIOUS
    <2>5. PICK r : r = IF flow = "none" THEN IdleThread ELSE nextCall
      OBVIOUS
    <2>6. /\ thread["start"].at = "answer" /\ Shows(view, flow)
          /\ thread' = [thread EXCEPT !["start"] = r]
      BY <1>7, <2>1, <2>2, <2>3, <2>a, <2>5 DEF AnswerStart
    <2>7. /\ r \in ThreadStates /\ r.view.revision = 0
          /\ r.at = IF flow = "none" THEN "idle" ELSE "act"
      <3>1. FlowCommand(flow) \in Tasks
        BY <2>4 DEF Tasks
      <3>2. 0 \in 0..MaxViewedJobs
        BY ViewBoundsAreNat
      <3>3. nextCall \in ThreadStates /\ nextCall.at = "act" /\ nextCall.view.revision = 0
        BY <2>a, <3>1, <3>2, NoViewIsTyped DEF ThreadStates, ThreadSteps
      <3>4. QED
        BY <2>5, <3>3, IdleIsTyped
    <2>8. page'.flow = flow /\ thread'["start"] = r
      BY <2>6, ReadIsAThread DEF Shows, ViewTypes, Pages
    <2>9. FlowIsOne'
      BY <2>4, <2>7, <2>8 DEF FlowIsOne
    <2>10. r.view.revision <= revision /\ flow \in Flows
      <3>1. r.view.revision <= revision
        BY <1>2, <2>7
      <3>2. flow \in Flows
        BY <2>4 DEF Flows
      <3>3. QED
        BY <3>1, <3>2
    <2>11. QED
      BY <1>1, <1>2, <2>1, <2>2, <2>6, <2>7, <2>9, <2>10, ReadIsAThread, AnswerKeeps
  <1>8. QED
    BY <1>4, <1>5, <1>6, <1>7

LEMMA ViewsNextKeeps == ViewsIInv /\ [ViewsNext]_viewsVars => ViewsIInv'
  <1> SUFFICES ASSUME ViewsIInv, [ViewsNext]_viewsVars PROVE ViewsIInv'
    OBVIOUS
  <1>1. CASE UNCHANGED viewsVars
    <2> USE DEF ViewsIInv
    <2>1. UNCHANGED <<account, folder, latestJob, jobRuns, revision, thread, events, page, changes, known,
                      unheard, finished>>
      BY <1>1 DEF viewsVars, state, viewsHistory
    <2>2. ViewTypes' /\ ChangesAreCounted'
      BY <2>1 DEF ViewTypes, ChangesAreCounted, Due
    <2>3. ViewsFit'
      BY <2>1 DEF ViewsFit, Fits
    <2>4. NewestIsCarried' /\ LoadsQuietly' /\ FlowIsOne' /\ FinishedIsAnnounced'
      BY <2>1 DEF NewestIsCarried, Carries, LoadsQuietly, Loading, FlowIsOne, FinishedIsAnnounced
    <2>5. QED
      BY <2>2, <2>3, <2>4
  <1>2. ASSUME NEW t \in Threads, Look(t) \/ See(t) \/ Bump(t) PROVE ViewsIInv'
    BY <1>2, LookKeeps, SeeKeeps, BumpKeeps
  <1>3. ASSUME NEW t \in PageThreads, Command(t) PROVE ViewsIInv'
    BY <1>3, QueueCommandKeeps
  <1>4. CASE Work \/ OnChange \/ Listen
    BY <1>4, WorkKeeps, OnChangeKeeps, ListenKeeps
  <1>5. CASE AnswerRead \/ AnswerButton \/ AnswerStart
    BY <1>5, AnswersKeep
  <1>6. ASSUME NEW c \in {"sign in", "sign out", "choose", "pause", "resume", "cancel", "remove"},
               Press(c)
        PROVE  ViewsIInv'
    BY <1>6, PressKeeps
  <1>7. CASE StartInstall \/ SubmitSignIn \/ CancelSignIn \/ StartRefused
    BY <1>7, StartInstallKeeps, DialogKeeps
  <1>8. QED
    BY <1>1, <1>2, <1>3, <1>4, <1>5, <1>6, <1>7 DEF ViewsNext

LEMMA ViewsInitHolds == ViewsInit => ViewsIInv
  <1> SUFFICES ASSUME ViewsInit PROVE ViewsIInv
    OBVIOUS
  <1>1. PICK s \in Starts :
          /\ account = s.account /\ folder = s.folder /\ jobRuns = s.running
          /\ changes = s.changes /\ known = [n \in 0..MaxChanges |-> s.changes]
          /\ latestJob = IF s.status = "none" THEN NoJobShown ELSE [id |-> 1, status |-> s.status]
    BY DEF ViewsInit
  <1>2. s \in [account : BOOLEAN, folder : BOOLEAN, running : BOOLEAN,
               status : JobStatuses \cup {"none"}, changes : 0..MaxChanges]
    BY ViewBounds
  <1>3. /\ revision = 0 /\ events = <<>> /\ page = NewPage /\ unheard = FALSE /\ finished = 0
        /\ thread = [t \in Threads |-> IF t = "read" THEN Reading ELSE IdleThread]
    BY DEF ViewsInit
  <1>4. latestJob \in JobsShown /\ (latestJob.status # "none" => latestJob.id # 0)
    BY <1>1, <1>2, ViewBoundsAreNat DEF JobsShown, NoJobShown
  <1>5. page \in Pages /\ ~page.loaded /\ page.held = NoView /\ page.shown = page.held.job
        /\ page.flow = "none" /\ page.held.job.status = "none"
    BY <1>3, NoViewIsTyped, ViewBoundsAreNat DEF NewPage, Pages, Flows, NoJobShown, SentViews
  <1>6. \A t \in Threads : /\ thread[t] \in ThreadStates /\ thread[t].view.revision = 0
                           /\ thread[t].at = IF t = "read" THEN "look again" ELSE "idle"
    BY <1>3, IdleIsTyped, NoViewIsTyped DEF Reading, IdleThread
  <1>7. /\ 0 \in 0..MaxChanges /\ 0 \in 0..MaxViewedJobs /\ s.changes \in 0..MaxChanges
        /\ known[0] = changes /\ \A n \in 0..MaxChanges : known[n] = changes
    BY <1>1, <1>2, ViewBoundsAreNat
  <1>8. ViewTypes
    <2>1. thread \in [Threads -> ThreadStates]
      BY <1>3, IdleIsTyped
    <2>2. known \in [0..MaxChanges -> 0..MaxChanges] /\ changes \in 0..MaxChanges
      BY <1>1, <1>7
    <2>3. account \in BOOLEAN /\ folder \in BOOLEAN /\ jobRuns \in BOOLEAN
      BY <1>1, <1>2
    <2>4. events \in Seq(SentViews) /\ unheard \in BOOLEAN
      <3>1. <<>> \in Seq(SentViews)
        OBVIOUS
      <3>2. QED
        BY <1>3, <3>1
    <2>5. QED
      BY <1>3, <1>4, <1>5, <1>7, <2>1, <2>2, <2>3, <2>4 DEF ViewTypes
  <1>9. ChangesAreCounted
    <2>1. Due("start") = 0 /\ Due("button") = 0 /\ Due("worker") = 0
      BY <1>6, ReadIsAThread DEF Due
    <2>2. changes \in Nat
      BY <1>1, <1>7, ViewBoundsAreNat
    <2>3. revision + Due("start") + Due("button") + Due("worker") <= changes
      BY <1>3, <2>1, <2>2
    <2>4. \A n \in 0..MaxChanges : known[n] <= changes
      BY <1>7, <2>2
    <2>5. QED
      BY <1>3, <1>6, <1>7, <2>3, <2>4, ReadIsAThread DEF ChangesAreCounted
  <1>10. ViewsFit
    <2>1. \A t \in Threads : thread[t].view.revision <= revision /\ thread[t].at # "answer"
      <3>1. \A t \in Threads : thread[t].view.revision = revision
        BY <1>3, <1>6
      <3>2. revision \in Nat
        BY <1>3
      <3>3. \A t \in Threads : thread[t].at # "answer"
        BY <1>6
      <3>4. QED
        BY <3>1, <3>2, <3>3
    <2>2. DOMAIN events = {}
      BY <1>3
    <2>3. QED
      BY <1>4, <1>5, <2>1, <2>2 DEF ViewsFit
  <1>11. NewestIsCarried /\ LoadsQuietly
    <2>1. Carries("read")
      BY <1>6, ReadIsAThread DEF Carries
    <2>2. QED
      BY <1>3, <1>6, <2>1, ReadIsAThread DEF NewestIsCarried, LoadsQuietly
  <1>12. FlowIsOne /\ FinishedIsAnnounced
    BY <1>3, <1>5, <1>6, ReadIsAThread DEF FlowIsOne, FinishedIsAnnounced
  <1>13. QED
    BY <1>8, <1>9, <1>10, <1>11, <1>12 DEF ViewsIInv

\* The invariant holds for any number of changes and of jobs, and any start.
THEOREM ViewsInductive == ViewsSpec => []ViewsIInv
  BY ViewsInitHolds, ViewsNextKeeps, PTL DEF ViewsSpec

\* delivery.rs, useDelivery.ts: a view is never older than its revision; once nothing is on its way
\* the page shows what the launcher holds, unless the last change was made while it loaded, and a
\* job that was installed before its eyes was announced.
THEOREM PageKeepsUp == ViewsSpec => []ViewsKeepUp
  <1>1. ViewsIInv => ViewsKeepUp
    <2> SUFFICES ASSUME ViewsIInv PROVE ViewsKeepUp
      OBVIOUS
    <2> USE DEF ViewsIInv
    <2>1. ViewsTypeOK
      <3>1. revision \in 0..changes /\ changes \in 0..MaxChanges
        <4>1. Due("start") \in Nat /\ Due("button") \in Nat /\ Due("worker") \in Nat
          BY DEF Due
        <4>2. revision \in Nat /\ changes \in Nat
          BY ViewBoundsAreNat DEF ViewTypes
        <4>3. revision + Due("start") + Due("button") + Due("worker") <= changes
          BY DEF ChangesAreCounted
        <4>4. QED
          BY <4>1, <4>2, <4>3 DEF ViewTypes
      <3>2. /\ account \in BOOLEAN /\ folder \in BOOLEAN /\ jobRuns \in BOOLEAN
            /\ unheard \in BOOLEAN /\ finished \in 0..MaxViewedJobs
            /\ latestJob.id \in 0..MaxViewedJobs /\ latestJob.status \in JobStatuses \cup {"none"}
        BY DEF ViewTypes, JobsShown
      <3>3. /\ \A t \in Threads : thread[t].at \in ThreadSteps
            /\ page.flow \in Flows
        BY DEF ViewTypes, ThreadStates, Pages
      <3>4. page.held.revision <= revision
        <4>1. CASE page.loaded
          BY <4>1 DEF ViewsFit, Fits
        <4>2. CASE ~page.loaded
          BY <4>2, NoViewIsTyped, ViewBoundsAreNat DEF ViewsFit, ViewTypes
        <4>3. QED
          BY <4>1, <4>2
      <3>5. QED
        BY <3>1, <3>2, <3>3, <3>4 DEF ViewsTypeOK, ThreadSteps, Flows
    <2>2. ViewsAreAsNew
      BY DEF ViewsAreAsNew, Answered, ViewsFit, Fits
    <2>3. ASSUME PageSettled, ~unheard
          PROVE  page.held.changes = changes /\ page.held.job = latestJob /\ page.held.account = account
      <3>1. page.loaded /\ events = <<>> /\ \A t \in Threads : thread[t].at = "idle"
        BY <2>3 DEF PageSettled
      <3>2. page.held.revision = revision
        <4>1. DOMAIN events = {}
          BY <3>1
        <4>2. QED
          BY <2>3, <3>1, <4>1 DEF NewestIsCarried, Carries
      <3>3. known[revision] = changes
        BY <3>1 DEF ChangesAreCounted
      <3>4. Fits(page.held)
        BY <3>1 DEF ViewsFit
      <3>5. page.held.changes \in Nat /\ changes \in Nat
        BY ViewBoundsAreNat DEF ViewTypes, Pages, SentViews
      <3>6. page.held.changes <= changes /\ page.held.changes >= changes
        BY <3>2, <3>3, <3>4 DEF Fits
      <3>7. page.held.changes = changes
        BY <3>5, <3>6
      <3>8. QED
        BY <3>4, <3>7 DEF Fits
    <2>4. SettledShowsAll
      BY <2>3 DEF SettledShowsAll
    <2>5. InstalledIsAnnounced
      BY <2>3 DEF InstalledIsAnnounced, FinishedIsAnnounced
    <2>6. QED
      BY <2>1, <2>2, <2>4, <2>5 DEF ViewsKeepUp
  <1>2. QED
    BY <1>1, ViewsInductive, PTL
============================================================================
