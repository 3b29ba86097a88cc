--------------------------- MODULE DeliveryQueue ---------------------------
(***************************************************************************)
(* "Install from DLA": the download queue of the launcher.  The module     *)
(* composes the persisted jobs and the service that edits them             *)
(* (dla-application/src/delivery.rs) with the controller that owns the     *)
(* worker thread and answers the commands of the interface                 *)
(* (src-tauri/src/delivery.rs).                                            *)
(*                                                                         *)
(* Commands run on a blocking thread pool, next to each other and to the   *)
(* worker, and every service call is a read of the whole job followed by   *)
(* a write of the whole job: the two are separate steps here.  The launcher *)
(* may be closed or killed between any two steps; the database and the     *)
(* staging folders survive, everything else starts afresh.                 *)
(***************************************************************************)
EXTENDS Naturals, FiniteSets

CONSTANTS
  Works,          \* work codes that can be queued
  NoWork,         \* the work of a job that does not exist
  Workers,        \* worker threads that may exist at the same time
  Callers,        \* pool threads answering commands of the interface
  Archives,       \* number of archives of a release
  MaxJobs,        \* bound: jobs ever created
  MaxCommands,    \* bound: commands issued
  MaxCrashes,     \* bound: restarts of the launcher
  MaxFailedSaves  \* bound: writes to the database that fail

ASSUME ConstantsAssumption ==
  /\ NoWork \notin Works
  /\ Archives \in Nat \ {0}
  /\ MaxJobs \in Nat /\ MaxCommands \in Nat
  /\ MaxCrashes \in Nat /\ MaxFailedSaves \in Nat

VARIABLES
  store,          \* the persisted jobs, by id; ids are in creation order
  created,        \* number of ids given out
  files,          \* per work: verified archives in its staging folder
  signedIn,       \* the client holds credentials
  workerFlag,     \* the controller's atomic `worker`
  running,        \* id of the job the controller publishes as running, or 0
  control,        \* pause and cancel flags of the running job
  pc, held,       \* per worker thread: place in the code, and its job
  caller,         \* per pool thread: the command it is in the middle of
  \* History of the behaviour, read by the properties only:
  stopAsked,      \* jobs somebody asked to pause, to cancel or signed out of
  unsaved,        \* jobs whose last write failed after a run
  halted,         \* a run stopped the queue and no command started it since
  \* Bounds:
  commands, crashes, failedSaves

memory  == <<signedIn, workerFlag, running, control, pc, held, caller>>
history == <<stopAsked, unsaved, halted>>
bounds  == <<commands, crashes, failedSaves>>
vars    == <<store, created, files, memory, history, bounds>>

-----------------------------------------------------------------------------
(* Jobs.                                                                    *)

Ids == 1 .. MaxJobs

\* Problems by what the queue does with them: one work's own problem, one
\* that concerns the whole session, and one that ends the session.
Problems == {"Work", "Session", "SignIn"}

Statuses == {"Absent", "Queued", "Downloading", "Installing", "Paused",
             "Installed", "NeedsReview", "Failed", "Cancelled"}

Jobs == [work     : Works \cup {NoWork},
         status   : Statuses,
         problem  : Problems \cup {"None"},
         located  : BOOLEAN,
         complete : 0 .. Archives]

NoJob == [work |-> NoWork, status |-> "Absent", problem |-> "None",
          located |-> FALSE, complete |-> 0]

NewJob(w) == [NoJob EXCEPT !.work = w, !.status = "Queued"]

IsFinished(status) ==
  status \in {"Installed", "NeedsReview", "Failed", "Cancelled"}

QueuedIds == {j \in Ids : store[j].status = "Queued"}

\* The oldest queued job.
IsNextQueued(j) == j \in QueuedIds /\ \A i \in QueuedIds : j <= i

Settled(job, status, problem) ==
  [job EXCEPT !.status = status, !.problem = problem]

StopsTheQueue(problem) == problem \in {"Session", "SignIn"}

\* Some archive is still missing.  (Off by one: the loop runs once more.)
LacksArchiveOffByOne(job) == job.complete <= Archives
LacksArchive(job) == job.complete < Archives

\* A paused or failed job goes back to the queue.  (Forgetting to clear what
\* the last attempt met with.)
RequeuedWithProblem(job) == [job EXCEPT !.status = "Queued"]
Requeued(job) == Settled(job, "Queued", "None")

\* What a restart makes of a job that was running.  (Forgetting the jobs that
\* had reached the installer.)
ReconciledDownloads(job) ==
  IF job.status = "Downloading" THEN [job EXCEPT !.status = "Queued"] ELSE job
Reconciled(job) ==
  IF job.status \in {"Downloading", "Installing"}
  THEN [job EXCEPT !.status = "Queued"] ELSE job

\* The archives a job expects in the staging folder of its work; archives
\* are fetched in order, so the complete ones are a prefix.
Recorded(job) == 1 .. job.complete

-----------------------------------------------------------------------------
(* The worker's control.                                                    *)

NoStop == [pause |-> FALSE, cancel |-> FALSE]

\* The control of a run that starts.  (One control for all runs.)
SharedControl == control
FreshControl == NoStop

StopRequested == control.pause \/ control.cancel

\* What `control.check()` makes of the two flags: cancellation wins.
StopStatus == IF control.cancel THEN "Cancelled" ELSE "Paused"

\* Threads inside `work()`: the flag is theirs.
WorkPCs == {"poll", "picked", "find", "begin", "locate", "archive",
            "receive", "record", "install", "settle", "final", "done",
            "abort", "react", "exit"}

PCs == WorkPCs \cup {"idle", "recheck"}

\* Places inside `service.run` after the job was marked as started.
RunPCs == {"locate", "archive", "receive", "record", "install", "settle",
           "final"}

\* Whether a kick starts a worker: `swap` tells that none holds the flag.
\* (Raising the flag without looking at what it was.)
MayStartAnyway == signedIn
MayStart == signedIn /\ ~workerFlag

\* Whether a finishing worker kicks once more.  (Trusting the empty queue it
\* saw before it lowered the flag.)
NoSecondLook == FALSE
SecondLook == signedIn /\ QueuedIds # {}

Idle == [id |-> 0, job |-> NoJob]

Ops == {"idle", "kick", "queue", "pause", "resume", "discard", "cancel",
        "remove", "signOut"}

NoCommand == [op |-> "idle", id |-> 0, job |-> NoJob]

TypeOK ==
  /\ store \in [Ids -> Jobs]
  /\ created \in 0 .. MaxJobs
  /\ files \in [Works -> SUBSET (1 .. Archives)]
  /\ signedIn \in BOOLEAN /\ workerFlag \in BOOLEAN
  /\ running \in Ids \cup {0}
  /\ control \in [pause : BOOLEAN, cancel : BOOLEAN]
  /\ pc \in [Workers -> PCs]
  /\ held \in [Workers -> [id : Ids \cup {0}, job : Jobs]]
  /\ caller \in [Callers -> [op : Ops, id : Ids \cup {0}, job : Jobs]]
  /\ stopAsked \subseteq Ids /\ unsaved \subseteq Ids /\ halted \in BOOLEAN
  /\ commands \in 0 .. MaxCommands
  /\ crashes \in 0 .. MaxCrashes
  /\ failedSaves \in 0 .. MaxFailedSaves

Init ==
  /\ store = [j \in Ids |-> NoJob]
  /\ created = 0
  /\ files = [w \in Works |-> {}]
  /\ signedIn = FALSE /\ workerFlag = FALSE
  /\ running = 0 /\ control = NoStop
  /\ pc = [t \in Workers |-> "idle"] /\ held = [t \in Workers |-> Idle]
  /\ caller = [c \in Callers |-> NoCommand]
  /\ stopAsked = {} /\ unsaved = {} /\ halted = FALSE
  /\ commands = 0 /\ crashes = 0 /\ failedSaves = 0

-----------------------------------------------------------------------------
(* Writes to the database.  A write replaces the whole row, and inserts it  *)
(* again if it was removed in between.                                      *)

Save(j, job) ==
  /\ store' = [store EXCEPT ![j] = job]
  /\ unsaved' = unsaved \ {j}
  /\ UNCHANGED failedSaves

StoreError ==
  /\ failedSaves < MaxFailedSaves
  /\ failedSaves' = failedSaves + 1
  /\ UNCHANGED store

Discard(w) == files' = [files EXCEPT ![w] = {}]

-----------------------------------------------------------------------------
(* The worker thread: `work` around `service.run` and `deliver`.            *)

Goto(t, place) == pc' = [pc EXCEPT ![t] = place]

Hold(t, job) == held' = [held EXCEPT ![t].job = job]

\* `deliver` returns: the outcome decides the status, then `run` settles it.
Stop(t, status, problem) ==
  /\ Hold(t, Settled(held[t].job, status, problem))
  /\ Goto(t, "settle")

Fail(t, problem) == Stop(t, "Failed", problem)

\* The worker's steps leave these alone unless they say otherwise.
QueueRest == <<created, stopAsked, halted, commands, crashes, caller>>

\* The head of the loop: leave when signed out or when nothing is queued.
Poll(t) ==
  /\ pc[t] = "poll"
  /\ \/ /\ ~signedIn \/ QueuedIds = {}
        /\ Goto(t, "exit") /\ UNCHANGED <<held, failedSaves, store>>
     \/ /\ signedIn
        /\ \E j \in Ids :
             /\ IsNextQueued(j)
             /\ held' = [held EXCEPT ![t] = [id |-> j, job |-> NoJob]]
        /\ Goto(t, "picked") /\ UNCHANGED <<failedSaves, store>>
     \/ signedIn /\ StoreError /\ Goto(t, "exit") /\ UNCHANGED held
  /\ UNCHANGED <<QueueRest, files, signedIn, workerFlag, running, control,
                 unsaved>>

\* Publishes the job with a fresh control.
Publish(t) ==
  /\ pc[t] = "picked"
  /\ running' = held[t].id /\ control' = FreshControl
  /\ Goto(t, "find")
  /\ UNCHANGED <<QueueRest, store, files, signedIn, workerFlag, held,
                 unsaved, failedSaves>>

\* `run` reads the job again and leaves it alone unless it is still queued.
Find(t) ==
  LET job == store[held[t].id] IN
  /\ pc[t] = "find"
  /\ \/ /\ job.status = "Queued"
        /\ Hold(t, Settled(job, "Downloading", "None"))
        /\ Goto(t, "begin") /\ UNCHANGED <<store, failedSaves>>
     \/ /\ job.status \notin {"Absent", "Queued"}
        /\ Hold(t, job)
        /\ Goto(t, "done") /\ UNCHANGED <<store, failedSaves>>
     \/ /\ job.status = "Absent"
        /\ Goto(t, "abort") /\ UNCHANGED <<held, store, failedSaves>>
     \/ StoreError /\ Goto(t, "abort") /\ UNCHANGED held
  /\ UNCHANGED <<QueueRest, files, signedIn, workerFlag, running, control,
                 unsaved>>

Begin(t) ==
  /\ pc[t] = "begin"
  /\ \/ Save(held[t].id, held[t].job) /\ Goto(t, "locate")
     \/ StoreError /\ Goto(t, "abort") /\ UNCHANGED unsaved
  /\ UNCHANGED <<QueueRest, files, signedIn, workerFlag, running, control,
                 held>>

\* Finds the remote paths unless an earlier run saved them.
Locate(t) ==
  LET job   == held[t].job
      found == [job EXCEPT !.located = TRUE] IN
  /\ pc[t] = "locate"
  /\ \/ /\ job.located
        /\ Goto(t, "archive") /\ UNCHANGED <<held, store, unsaved, failedSaves>>
     \/ /\ ~job.located
        /\ \/ /\ StopRequested /\ Stop(t, StopStatus, "None")
              /\ UNCHANGED <<store, unsaved, failedSaves>>
           \/ /\ \E p \in IF signedIn THEN Problems ELSE {"SignIn"} : Fail(t, p)
              /\ UNCHANGED <<store, unsaved, failedSaves>>
           \/ /\ signedIn
              /\ Save(held[t].id, found) /\ Hold(t, found) /\ Goto(t, "archive")
           \/ /\ signedIn /\ StoreError /\ UNCHANGED unsaved
              /\ held' = [held EXCEPT ![t].job = Settled(found, "Failed", "Session")]
              /\ Goto(t, "settle")
  /\ UNCHANGED <<QueueRest, files, signedIn, workerFlag, running, control>>

\* Each round of the archive loop, and the passage from it to the installer,
\* starts with a check of the control.  A verified file that is already in
\* the staging folder is kept; anything else needs a request.
NextArchive(t) ==
  LET job  == held[t].job
      next == job.complete + 1 IN
  /\ pc[t] = "archive"
  /\ \/ /\ StopRequested
        /\ Stop(t, StopStatus, "None") /\ UNCHANGED <<store, unsaved, failedSaves>>
     \/ /\ ~StopRequested /\ LacksArchive(job)
        /\ \/ /\ next \in files[job.work]
              /\ Hold(t, [job EXCEPT !.complete = next]) /\ Goto(t, "record")
           \/ /\ next \notin files[job.work] /\ signedIn
              /\ Goto(t, "receive") /\ UNCHANGED held
           \/ /\ next \notin files[job.work] /\ ~signedIn
              /\ Fail(t, "SignIn")
           \/ \E p \in {"Work", "Session"} : Fail(t, p)
        /\ UNCHANGED <<store, unsaved, failedSaves>>
     \/ /\ ~StopRequested /\ ~LacksArchive(job)
        /\ LET installing == [job EXCEPT !.status = "Installing"] IN
           \/ /\ Save(held[t].id, installing)
              /\ Hold(t, installing) /\ Goto(t, "install")
           \/ StoreError /\ Fail(t, "Session") /\ UNCHANGED unsaved
  /\ UNCHANGED <<QueueRest, files, signedIn, workerFlag, running, control>>

\* The transfer of one archive ends: verified and renamed, stopped through
\* the control, refused for want of credentials, or failed.
Receive(t) ==
  LET job  == held[t].job
      next == job.complete + 1 IN
  /\ pc[t] = "receive"
  /\ \/ /\ files' = [files EXCEPT ![job.work] = @ \cup {next}]
        /\ Hold(t, [job EXCEPT !.complete = next]) /\ Goto(t, "record")
     \/ StopRequested /\ Stop(t, StopStatus, "None") /\ UNCHANGED files
     \/ (\E p \in Problems : Fail(t, p)) /\ UNCHANGED files
  /\ UNCHANGED <<QueueRest, store, signedIn, workerFlag, running, control,
                 unsaved, failedSaves>>

Record(t) ==
  /\ pc[t] = "record"
  /\ \/ /\ Save(held[t].id, held[t].job)
        /\ Goto(t, "archive") /\ UNCHANGED held
     \/ StoreError /\ Fail(t, "Session") /\ UNCHANGED unsaved
  /\ UNCHANGED <<QueueRest, files, signedIn, workerFlag, running, control>>

\* The local installer.  It recognises the work by the archives it finds; a
\* committed extraction deletes them; a work prepared earlier leaves them.
Install(t) ==
  LET job == held[t].job
      w   == job.work IN
  /\ pc[t] = "install"
  /\ \/ StopRequested /\ Stop(t, StopStatus, "None") /\ UNCHANGED <<files, stopAsked>>
     \/ \* The preparation itself was cancelled, from the Library.
        /\ Stop(t, "Cancelled", "None") /\ UNCHANGED files
        /\ stopAsked' = stopAsked \cup {held[t].id}
     \/ Fail(t, "Work") /\ UNCHANGED <<files, stopAsked>>
     \/ /\ files[w] # {}
        /\ \E status \in {"Installed", "NeedsReview"} : Stop(t, status, "None")
        /\ UNCHANGED <<files, stopAsked>>
     \/ /\ files[w] = 1 .. Archives
        /\ \E status \in {"Installed", "NeedsReview"} : Stop(t, status, "None")
        /\ Discard(w) /\ UNCHANGED stopAsked
     \/ /\ files[w] = 1 .. Archives
        /\ Fail(t, "Work") /\ Discard(w) /\ UNCHANGED stopAsked
  /\ UNCHANGED <<store, created, signedIn, workerFlag, running, control,
                 caller, unsaved, halted, bounds>>

\* What is left of the downloads goes when the work is installed or the job
\* cancelled; a failure to delete is ignored.
Settle(t) ==
  LET job == held[t].job IN
  /\ pc[t] = "settle"
  /\ IF job.status \in {"Installed", "Cancelled"}
     THEN Discard(job.work) \/ UNCHANGED files
     ELSE UNCHANGED files
  /\ Goto(t, "final")
  /\ UNCHANGED <<QueueRest, store, signedIn, workerFlag, running, control,
                 held, unsaved, failedSaves>>

FinalSave(t) ==
  /\ pc[t] = "final"
  /\ \/ Save(held[t].id, held[t].job) /\ Goto(t, "done")
     \/ /\ StoreError /\ Goto(t, "abort")
        /\ unsaved' = unsaved \cup {held[t].id}
  /\ UNCHANGED <<QueueRest, files, signedIn, workerFlag, running, control,
                 held>>

\* `run` returned: with the job, or with an error that ends the loop.
Retire(t) ==
  /\ \/ pc[t] = "done" /\ Goto(t, "react") /\ UNCHANGED held
     \/ /\ pc[t] = "abort" /\ Goto(t, "exit")
        /\ held' = [held EXCEPT ![t] = Idle]
  /\ running' = 0
  /\ UNCHANGED <<QueueRest, store, files, signedIn, workerFlag, control,
                 unsaved, failedSaves>>

\* The loop reacts to the problem of the job that stopped.
React(t) ==
  LET problem == held[t].job.problem IN
  /\ pc[t] = "react"
  /\ signedIn' = (signedIn /\ problem # "SignIn")
  /\ Goto(t, IF StopsTheQueue(problem) THEN "exit" ELSE "poll")
  /\ halted' = (halted \/ StopsTheQueue(problem))
  /\ held' = [held EXCEPT ![t] = Idle]
  /\ UNCHANGED <<store, created, files, workerFlag, running, control, caller,
                 stopAsked, unsaved, bounds>>

\* `work` returned: the flag is lowered first, then the queue is looked at
\* once more.  The look and the kick are one step: the flag is down already,
\* so whatever changes in between brings a kick of its own.
Exit(t) ==
  /\ pc[t] = "exit"
  /\ workerFlag' = FALSE
  /\ Goto(t, "recheck")
  /\ UNCHANGED <<QueueRest, store, files, signedIn, running, control, held,
                 unsaved, failedSaves>>

\* A kick from here ends this thread and starts another: the name is reused.
Recheck(t) ==
  /\ pc[t] = "recheck"
  /\ IF SecondLook /\ MayStart
     THEN workerFlag' = TRUE /\ Goto(t, "poll")
     ELSE UNCHANGED workerFlag /\ Goto(t, "idle")
  /\ UNCHANGED <<QueueRest, store, files, signedIn, running, control, held,
                 unsaved, failedSaves>>

WorkerStep(t) ==
  \/ Poll(t) \/ Publish(t) \/ Find(t) \/ Begin(t) \/ Locate(t)
  \/ NextArchive(t) \/ Receive(t) \/ Record(t) \/ Install(t) \/ Settle(t)
  \/ FinalSave(t) \/ Retire(t) \/ React(t) \/ Exit(t) \/ Recheck(t)

-----------------------------------------------------------------------------
(* Commands of the interface.  Each command is one caller's; the steps a    *)
(* caller takes after the first are in `caller`.                            *)

Then(c, op, j, job) ==
  caller' = [caller EXCEPT ![c] = [op |-> op, id |-> j, job |-> job]]

Return(c) == caller' = [caller EXCEPT ![c] = NoCommand]

\* A command arrives at a free thread of the pool.
Arrives(c) ==
  /\ caller[c].op = "idle"
  /\ commands < MaxCommands /\ commands' = commands + 1

\* A write of a command either succeeds or ends the command with an error.
SaveThen(c, j, job, op) ==
  \/ Save(j, job) /\ Then(c, op, 0, NoJob)
  \/ StoreError /\ Return(c) /\ UNCHANGED unsaved

WorkerVars == <<workerFlag, pc, held>>
CommandRest == <<created, files, signedIn, WorkerVars, halted, crashes>>

\* `install`: a work with an unfinished job gets that job back.
RequestInstall(c, w) ==
  /\ Arrives(c)
  /\ IF \E j \in Ids : store[j].work = w /\ ~IsFinished(store[j].status)
     THEN Then(c, "kick", 0, NoJob)
     ELSE Then(c, "queue", 0, NewJob(w))
  /\ UNCHANGED <<CommandRest, store, running, control, stopAsked, unsaved,
                 failedSaves>>

SaveQueued(c) ==
  LET j == created + 1 IN
  /\ caller[c].op = "queue" /\ created < MaxJobs
  /\ created' = j
  /\ SaveThen(c, j, caller[c].job, "kick")
  /\ UNCHANGED <<files, signedIn, WorkerVars, halted, commands, crashes,
                 running, control, stopAsked>>

\* A pause of the running job goes through its control, any other is a read
\* of the job, followed by a write if it is queued.
RequestPause(c, j) ==
  /\ Arrives(c)
  /\ \/ /\ running = j
        /\ control' = [control EXCEPT !.pause = TRUE]
        /\ UNCHANGED caller
     \/ /\ running # j /\ store[j].status = "Queued"
        /\ Then(c, "pause", j, Settled(store[j], "Paused", "None"))
        /\ UNCHANGED control
  /\ stopAsked' = stopAsked \cup {j}
  /\ UNCHANGED <<CommandRest, store, running, unsaved, failedSaves>>

SavePaused(c) ==
  /\ caller[c].op = "pause"
  /\ SaveThen(c, caller[c].id, caller[c].job, "idle")
  /\ UNCHANGED <<CommandRest, commands, running, control, stopAsked>>

RequestResume(c, j) ==
  /\ Arrives(c)
  /\ store[j].status \in {"Paused", "Failed"}
  /\ Then(c, "resume", j, Requeued(store[j]))
  /\ UNCHANGED <<CommandRest, store, running, control, stopAsked, unsaved,
                 failedSaves>>

SaveResumed(c) ==
  /\ caller[c].op = "resume"
  /\ SaveThen(c, caller[c].id, caller[c].job, "kick")
  /\ UNCHANGED <<CommandRest, commands, running, control, stopAsked>>

RequestCancel(c, j) ==
  /\ Arrives(c)
  /\ \/ /\ running = j
        /\ control' = [control EXCEPT !.cancel = TRUE]
        /\ UNCHANGED caller
     \/ /\ running # j
        /\ store[j].status \in {"Queued", "Paused", "Failed"}
        /\ Then(c, "discard", j, [store[j] EXCEPT !.status = "Cancelled"])
        /\ UNCHANGED control
  /\ stopAsked' = stopAsked \cup {j}
  /\ UNCHANGED <<CommandRest, store, running, unsaved, failedSaves>>

\* A cancelled job loses its downloads before it is saved; if they cannot be
\* deleted the command fails and the job stays as it was.
DiscardCancelled(c) ==
  LET job == caller[c].job IN
  /\ caller[c].op = "discard"
  /\ \/ Discard(job.work) /\ Then(c, "cancel", caller[c].id, job)
     \/ UNCHANGED files /\ Return(c)
  /\ UNCHANGED <<store, created, signedIn, WorkerVars, running, control,
                 history, bounds>>

SaveCancelled(c) ==
  /\ caller[c].op = "cancel"
  /\ SaveThen(c, caller[c].id, caller[c].job, "idle")
  /\ UNCHANGED <<CommandRest, commands, running, control, stopAsked>>

RequestRemove(c, j) ==
  /\ Arrives(c)
  /\ IsFinished(store[j].status)
  /\ Then(c, "remove", j, NoJob)
  /\ UNCHANGED <<CommandRest, store, running, control, stopAsked, unsaved,
                 failedSaves>>

DeleteRemoved(c) ==
  /\ caller[c].op = "remove"
  /\ \/ Save(caller[c].id, NoJob)
     \/ StoreError /\ UNCHANGED unsaved
  /\ Return(c)
  /\ UNCHANGED <<CommandRest, commands, running, control, stopAsked>>

\* The service accepted the account.
SignIn(c) ==
  /\ Arrives(c)
  /\ signedIn' = TRUE
  /\ Then(c, "kick", 0, NoJob)
  /\ UNCHANGED <<store, created, files, WorkerVars, running, control,
                 history, crashes, failedSaves>>

\* Signing out pauses the running job first, then drops the credentials.
RequestSignOut(c) ==
  /\ Arrives(c)
  /\ IF running = 0
     THEN UNCHANGED <<control, stopAsked>>
     ELSE /\ control' = [control EXCEPT !.pause = TRUE]
          /\ stopAsked' = stopAsked \cup {running}
  /\ Then(c, "signOut", 0, NoJob)
  /\ UNCHANGED <<CommandRest, store, running, unsaved, failedSaves>>

DropCredentials(c) ==
  /\ caller[c].op = "signOut"
  /\ signedIn' = FALSE
  /\ Return(c)
  /\ UNCHANGED <<store, created, files, WorkerVars, running, control,
                 history, bounds>>

\* Starts a worker unless signed out or a worker holds the flag.
Kick(c) ==
  /\ caller[c].op = "kick"
  /\ IF MayStart
     THEN /\ workerFlag' = TRUE
          /\ \E t \in Workers : pc[t] = "idle" /\ Goto(t, "poll")
     ELSE UNCHANGED <<workerFlag, pc>>
  /\ halted' = FALSE
  /\ Return(c)
  /\ UNCHANGED <<store, created, files, signedIn, held, running, control,
                 stopAsked, unsaved, bounds>>

CommandArrives(c) ==
  \/ \E w \in Works : RequestInstall(c, w)
  \/ \E j \in Ids : \/ RequestPause(c, j) \/ RequestResume(c, j)
                    \/ RequestCancel(c, j) \/ RequestRemove(c, j)
  \/ SignIn(c) \/ RequestSignOut(c)

CommandStep(c) ==
  \/ SaveQueued(c) \/ SavePaused(c) \/ SaveResumed(c) \/ DiscardCancelled(c)
  \/ SaveCancelled(c) \/ DeleteRemoved(c) \/ DropCredentials(c) \/ Kick(c)

-----------------------------------------------------------------------------
(* The launcher is closed or killed, and started again: the threads and the *)
(* session are gone, and the jobs that were running are queued again.  If a *)
(* write fails the launcher does not start, and the next start goes on.     *)

Restart ==
  /\ crashes < MaxCrashes /\ crashes' = crashes + 1
  /\ store' = [j \in Ids |-> Reconciled(store[j])]
  /\ signedIn' = FALSE /\ workerFlag' = FALSE
  /\ running' = 0 /\ control' = NoStop
  /\ pc' = [t \in Workers |-> "idle"] /\ held' = [t \in Workers |-> Idle]
  /\ caller' = [c \in Callers |-> NoCommand]
  /\ unsaved' = {} /\ halted' = FALSE
  /\ UNCHANGED <<created, files, stopAsked, commands, failedSaves>>

Next ==
  \/ \E t \in Workers : WorkerStep(t)
  \/ \E c \in Callers : CommandArrives(c) \/ CommandStep(c)
  \/ Restart

\* Threads run; nobody has to use the launcher, and nothing has to fail.
Spec ==
  /\ Init /\ [][Next]_vars
  /\ \A t \in Workers : WF_vars(WorkerStep(t))
  /\ \A c \in Callers : WF_vars(CommandStep(c))

-----------------------------------------------------------------------------
(* What holds whatever the interleaving.                                    *)

\* The worker works through the queue one job at a time: threads may overlap
\* after they lowered the flag, never inside `work`, and the flag is up
\* exactly while one of them is there (`kick`).
OneWorker ==
  /\ \A t, u \in Workers : pc[t] \in WorkPCs /\ pc[u] \in WorkPCs => t = u
  /\ workerFlag <=> \E t \in Workers : pc[t] \in WorkPCs

\* A job is shown as downloading or installing only while a worker runs it,
\* or after its last write failed: no race of commands with the worker and
\* no restart leaves a job that looks busy and can neither be paused nor
\* cancelled nor removed (`run`, `reconcile_after_restart`).
NoStrandedRun ==
  \A j \in Ids : store[j].status \in {"Downloading", "Installing"} =>
    j \in unsaved \/ \E t \in Workers : pc[t] \in RunPCs /\ held[t].id = j

\* A stop request reaches the job it was made for and no other: a job is
\* paused or cancelled only if somebody asked that of this very job or
\* signed out while it ran (`JobControl`, made anew for each job by `work`).
StopsWereAsked ==
  \A j \in Ids : store[j].status \in {"Paused", "Cancelled"} => j \in stopAsked

\* The problem of a job belongs to its last attempt: a failed job says what
\* failed, a job that may still run or has run says nothing.  The worker
\* signs the session out on a problem it reads here, so one that outlived a
\* retry would end a good session (`run`, `resume`, `work`).
StatusExplained ==
  \A j \in Ids :
    /\ store[j].status = "Failed" => store[j].problem # "None"
    /\ store[j].status \notin {"Failed", "Cancelled"} => store[j].problem = "None"

\* No wake-up is lost: a queued job is eventually taken up, or the session
\* ends, however the kicks of commands meet a worker that is just finishing
\* (`kick` looks at the queue again after it lowered the flag).
QueuedIsServed ==
  \A j \in Ids :
    (store[j].status = "Queued" /\ signedIn)
      ~> (store[j].status # "Queued" \/ ~signedIn)

-----------------------------------------------------------------------------
(* What the comments of the code say and the code does not do.              *)

\* "Problems that concern the whole session rather than one work stop the
\* queue, so the remaining jobs are not failed one after another"
\* (src-tauri/src/delivery.rs:239): after such a problem no worker starts a
\* job until a command starts the queue again.  A command that is under way
\* may be about to do so and does not count.
SessionProblemStopsQueue ==
  halted /\ (\A c \in Callers : caller[c].op = "idle")
    => \A t \in Workers : pc[t] \notin RunPCs

\* "A work that already has an unfinished job gets that job back instead of
\* a second one" (dla-application/src/delivery.rs:283): two jobs of one work
\* never wait in the queue together.
OneUnfinishedJobPerWork ==
  \A i, j \in QueuedIds : store[i].work = store[j].work => i = j

\* "Jobs a closed app left running are queued again; their downloaded
\* archives and parts are kept, so they continue where they stopped"
\* (dla-application/src/delivery.rs:246): what such a job recorded as
\* complete is in the staging folder when it is queued again.
InterruptedJobsContinue ==
  [][ Restart =>
        \A j \in Ids :
          store[j].status \in {"Downloading", "Installing"} =>
            Recorded(store[j]) \subseteq files'[store[j].work] ]_vars

\* "Cancels a job that is not running [...] A running job is cancelled
\* through its control" (dla-application/src/delivery.rs:536): a job stored
\* as cancelled is not being run.
CancelledIsNotRun ==
  \A j \in Ids : store[j].status = "Cancelled" =>
    ~\E t \in Workers : pc[t] \in RunPCs \ {"settle", "final"} /\ held[t].id = j
=============================================================================
