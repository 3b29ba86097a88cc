----------------------------- MODULE ScanInstalls -----------------------------
(***************************************************************************)
(* Installing the archives a scan found, one after another.                *)
(*                                                                         *)
(* Source: src-tauri/src/scan_installs.rs (ScanInstallController), the     *)
(* single preparation slot of src-tauri/src/package_preparation.rs         *)
(* (PackagePreparationController) and, for what they do to the library,    *)
(* ScanFindingService::add and confirm and remove_from_library.            *)
(* An add records the work and queues its archive; whoever queues kicks    *)
(* the worker, which a flag keeps single.  The worker takes the slot,      *)
(* unpacks, and confirms the work; a cancelled install is forgotten.       *)
(***************************************************************************)
EXTENDS Naturals, Sequences, FiniteSets, SequencesExt

CONSTANTS
    Works,      \* works a scan found an archive of
    MaxAdds,    \* bound: calls of add
    MaxOthers,  \* bound: preparations the user starts beside the worker
    MaxFaults   \* bound: failing preparations, reads, saves and removals

VARIABLES
    library,               \* the row of a work: "absent", "archive" before the review, "reviewed"
    status,                \* what the list of installs says of a work
    queue,                 \* the works waiting, in order
    adding,                \* where the add call for a work stands
    forgetting,            \* works a cancel has taken out of the queue and not yet forgotten
    worker,                \* the flag that keeps the worker single
    stage,                 \* where the thread that holds the flag stands
    cur,                   \* the work it installs, and how that ended
    result,
    cancelled,             \* the cancel flag of that work
    looking,               \* threads that gave the flag back and look at the queue again
    retaking,              \* those of them that saw a work waiting
    slot,                  \* who prepares a package: nobody, the worker, another call
    adds, others, faults,  \* spent bounds
    kept,                  \* history: works whose removal from the library failed
    late                   \* history: works recorded again while their install was ending

installVars == <<library, status, queue, adding, forgetting, worker, stage, cur, result,
                 cancelled, looking, retaking, slot, adds, others, faults, kept, late>>

Settled == {"installed", "needs_review", "failed", "cancelled"}
Active == {"queued", "installing"}
None == "none"

InstallTypeOK ==
    /\ library \in [Works -> {"absent", "archive", "reviewed"}]
    /\ status \in [Works -> Settled \cup Active \cup {None}]
    /\ queue \in Seq(Works) /\ Len(queue) <= Cardinality(Works)
    /\ adding \in [Works -> {"idle", "enqueue", "kick"}]
    /\ forgetting \subseteq Works /\ kept \subseteq Works /\ late \subseteq Works
    /\ worker \in BOOLEAN /\ cancelled \in BOOLEAN
    /\ stage \in {"off", "next", "prepare", "unpack", "check", "read", "confirm",
                  "forget", "record", "leave"}
    /\ cur \in Works \cup {None} /\ result \in Settled \cup {None}
    /\ looking \in Nat /\ retaking \in Nat
    /\ slot \in {"free", "worker", "other"}
    /\ adds \in 0..MaxAdds /\ others \in 0..MaxOthers /\ faults \in 0..MaxFaults

InstallInit ==
    /\ library = [w \in Works |-> "absent"]
    /\ status = [w \in Works |-> None]
    /\ queue = <<>>
    /\ adding = [w \in Works |-> "idle"]
    /\ forgetting = {} /\ kept = {} /\ late = {}
    /\ worker = FALSE /\ stage = "off" /\ cur = None /\ result = None
    /\ cancelled = FALSE /\ looking = 0 /\ retaking = 0
    /\ slot = "free" /\ adds = 0 /\ others = 0 /\ faults = 0

Fault == faults < MaxFaults /\ faults' = faults + 1
NoFault == UNCHANGED faults

threads == <<worker, stage, cur, result, cancelled, looking, retaking>>

-----------------------------------------------------------------------------
(* Adding: record the work, queue the archive, wake the worker.            *)

\* findings.add: the archive's row is created, or the one not reviewed yet is used
\* again.  A work the library already has is answered without an install.
Add(w) ==
    /\ adding[w] = "idle" /\ adds < MaxAdds /\ library[w] # "reviewed"
    /\ library' = [library EXCEPT ![w] = "archive"]
    /\ adding' = [adding EXCEPT ![w] = "enqueue"]
    /\ adds' = adds + 1
    /\ late' = IF cur = w /\ stage = "record" THEN late \cup {w} ELSE late
    /\ UNCHANGED <<status, queue, forgetting, threads, slot, others, faults, kept>>

Enqueue(w) ==
    /\ adding[w] = "enqueue"
    /\ IF status[w] \in Active
       THEN /\ adding' = [adding EXCEPT ![w] = "idle"]
            /\ UNCHANGED <<status, queue>>
       ELSE /\ adding' = [adding EXCEPT ![w] = "kick"]
            /\ status' = [status EXCEPT ![w] = "queued"]
            /\ queue' = Append(queue, w)
    /\ UNCHANGED <<library, forgetting, threads, slot, adds, others, faults, kept, late>>

Kick(w) ==
    /\ adding[w] = "kick"
    /\ adding' = [adding EXCEPT ![w] = "idle"]
    /\ IF worker THEN UNCHANGED <<worker, stage>>
       ELSE worker' = TRUE /\ stage' = "next"
    /\ UNCHANGED <<library, status, queue, forgetting, cur, result, cancelled, looking,
                   retaking, slot, adds, others, faults, kept, late>>

-----------------------------------------------------------------------------
(* Cancelling, and forgetting the work.                                    *)

\* cancel, under the lock: out of the queue, or the flag of the running install.
Cancel(w) ==
    /\ \/ /\ \E i \in 1..Len(queue) : queue[i] = w /\ queue' = RemoveAt(queue, i)
          /\ status' = [status EXCEPT ![w] = "cancelled"]
          /\ forgetting' = forgetting \cup {w}
          /\ UNCHANGED cancelled
       \/ /\ ~ \E i \in 1..Len(queue) : queue[i] = w
          /\ cur = w /\ cancelled' = TRUE
          /\ UNCHANGED <<queue, status, forgetting>>
    /\ UNCHANGED <<library, adding, worker, stage, cur, result, looking, retaking, slot,
                   adds, others, faults, kept, late>>

\* remove_from_library: refused while the work runs, or failing.
RemoveRow(w) ==
    \/ library' = [library EXCEPT ![w] = "absent"] /\ NoFault /\ UNCHANGED kept
    \/ Fault /\ kept' = kept \cup {w} /\ UNCHANGED library

Forget(w) ==
    /\ w \in forgetting
    /\ RemoveRow(w)
    /\ forgetting' = forgetting \ {w}
    /\ UNCHANGED <<status, queue, adding, threads, slot, adds, others, late>>

\* The Remove of the Library, refused for the work that is being prepared.
RemoveByUser(w) ==
    /\ library[w] # "absent" /\ ~(slot = "worker" /\ cur = w)
    /\ library' = [library EXCEPT ![w] = "absent"]
    /\ UNCHANGED <<status, queue, adding, forgetting, threads, slot, adds, others,
                   faults, kept, late>>

-----------------------------------------------------------------------------
(* The worker.                                                             *)

workRest == <<queue, adding, forgetting, worker, looking, retaking, adds, others, late>>

TakeNext ==
    /\ stage = "next"
    /\ IF queue = <<>>
       THEN stage' = "leave" /\ UNCHANGED <<queue, cur, cancelled, status>>
       ELSE /\ cur' = Head(queue) /\ queue' = Tail(queue)
            /\ cancelled' = FALSE
            /\ status' = [status EXCEPT ![Head(queue)] = "installing"]
            /\ stage' = "prepare"
    /\ UNCHANGED <<library, adding, forgetting, worker, result, looking, retaking, slot,
                   adds, others, faults, kept, late>>

EndWith(r) ==
    /\ result' = r
    /\ stage' = IF r = "cancelled" THEN "forget" ELSE "record"

\* No install folder, or one that cannot be read; else execute_now waits for the slot.
Prepare ==
    /\ stage = "prepare"
    /\ \/ Fault /\ EndWith("failed") /\ UNCHANGED slot
       \/ cancelled /\ EndWith("cancelled") /\ NoFault /\ UNCHANGED slot
       \/ /\ ~cancelled /\ slot = "free"
          /\ slot' = "worker" /\ stage' = "unpack"
          /\ NoFault /\ UNCHANGED result
    /\ UNCHANGED <<library, status, cur, cancelled, kept, workRest>>

\* service.execute under the slot, which is released however it ends.
Unpack ==
    /\ stage = "unpack"
    /\ slot' = "free"
    /\ \/ library[cur] # "absent" /\ stage' = "check" /\ NoFault /\ UNCHANGED result
       \/ library[cur] = "absent" /\ EndWith("failed") /\ NoFault
       \/ Fault /\ EndWith("failed")
       \/ cancelled /\ EndWith("cancelled") /\ NoFault
    /\ UNCHANGED <<library, status, cur, cancelled, kept, workRest>>

CheckCancelled ==
    /\ stage = "check"
    /\ IF cancelled THEN EndWith("cancelled") ELSE stage' = "read" /\ UNCHANGED result
    /\ UNCHANGED <<library, status, cur, cancelled, slot, faults, kept, workRest>>

\* review.read, then findings.confirm: both fail when the row is gone.
ReadRow ==
    /\ stage = "read"
    /\ \/ library[cur] # "absent" /\ stage' = "confirm" /\ NoFault /\ UNCHANGED result
       \/ library[cur] = "absent" /\ EndWith("failed") /\ NoFault
       \/ Fault /\ EndWith("failed")
    /\ UNCHANGED <<library, status, cur, cancelled, slot, kept, workRest>>

Confirm ==
    /\ stage = "confirm"
    /\ \/ /\ library[cur] # "absent"
          /\ library' = [library EXCEPT ![cur] = "reviewed"]
          /\ \E r \in {"installed", "needs_review"} : EndWith(r)
          /\ NoFault
       \/ library[cur] = "absent" /\ EndWith("failed") /\ NoFault /\ UNCHANGED library
       \/ Fault /\ EndWith("failed") /\ UNCHANGED library
    /\ UNCHANGED <<status, cur, cancelled, slot, kept, workRest>>

\* (Wrong form.) A cancelled install is listed as cancelled and its row left.
ForgetRunningNot ==
    /\ stage = "forget" /\ stage' = "record"
    /\ UNCHANGED <<library, faults, kept, status, cur, result, cancelled, slot, workRest>>

ForgetRunning ==
    /\ stage = "forget"
    /\ RemoveRow(cur)
    /\ stage' = "record"
    /\ UNCHANGED <<status, cur, result, cancelled, slot, workRest>>

\* The entry of `cancels` and the status, under one lock.
Record ==
    /\ stage = "record"
    /\ status' = [status EXCEPT ![cur] = result]
    /\ cur' = None /\ cancelled' = FALSE /\ result' = None
    /\ stage' = "next"
    /\ UNCHANGED <<library, slot, faults, kept, workRest>>

\* (Wrong form.) The thread ends once it has given the flag back.
LeaveForGood ==
    /\ stage = "leave"
    /\ worker' = FALSE /\ stage' = "off"
    /\ UNCHANGED <<library, status, queue, adding, forgetting, cur, result, cancelled,
                   looking, retaking, slot, adds, others, faults, kept, late>>

\* The queue was empty: give the flag back, then look at the queue again.
Leave ==
    /\ stage = "leave"
    /\ worker' = FALSE /\ stage' = "off"
    /\ looking' = looking + 1
    /\ UNCHANGED <<library, status, queue, adding, forgetting, cur, result, cancelled,
                   retaking, slot, adds, others, faults, kept, late>>

LookAgain ==
    /\ looking > 0 /\ looking' = looking - 1
    /\ retaking' = IF queue # <<>> THEN retaking + 1 ELSE retaking
    /\ UNCHANGED <<library, status, queue, adding, forgetting, worker, stage, cur, result,
                   cancelled, slot, adds, others, faults, kept, late>>

Retake ==
    /\ retaking > 0 /\ retaking' = retaking - 1
    /\ IF worker THEN UNCHANGED <<worker, stage>>
       ELSE worker' = TRUE /\ stage' = "next"
    /\ UNCHANGED <<library, status, queue, adding, forgetting, cur, result, cancelled,
                   looking, slot, adds, others, faults, kept, late>>

Holder ==
    \/ TakeNext \/ Prepare \/ Unpack \/ CheckCancelled \/ ReadRow \/ Confirm
    \/ ForgetRunning \/ Record \/ Leave

Worker == Holder \/ LookAgain \/ Retake

-----------------------------------------------------------------------------
(* The other user of the slot: start, which claims it or is refused.       *)

otherRest == <<library, status, queue, adding, forgetting, threads, adds, faults, kept,
               late>>

StartOther ==
    /\ slot = "free" /\ others < MaxOthers
    /\ slot' = "other" /\ others' = others + 1
    /\ UNCHANGED otherRest

\* finish, or the first publication of its progress that failed.
FinishOther ==
    /\ slot = "other" /\ slot' = "free"
    /\ UNCHANGED <<others, otherRest>>

InstallNext ==
    \/ \E w \in Works : Add(w) \/ Enqueue(w) \/ Kick(w) \/ Cancel(w) \/ Forget(w)
                        \/ RemoveByUser(w)
    \/ Worker
    \/ StartOther \/ FinishOther

\* Threads run; whoever holds the slot works on a package and ends.
InstallFairness ==
    /\ WF_installVars(Holder) /\ WF_installVars(LookAgain) /\ WF_installVars(Retake) /\ WF_installVars(FinishOther)
    /\ \A w \in Works : WF_installVars(Enqueue(w) \/ Kick(w)) /\ WF_installVars(Forget(w))

InstallSpec == InstallInit /\ [][InstallNext]_installVars /\ InstallFairness

-----------------------------------------------------------------------------

\* A work whose install is listed as cancelled has left the library: the cancel, which
\* answers before it forgets, or the worker, which forgets before it answers, removed
\* its row.  What remains was added again meanwhile, or could not be removed: a work
\* added between the worker's removal and its last status is recorded and, as it still
\* counts as installing, never queued.
CancelledIsGone ==
    \A w \in Works :
        /\ status[w] = "cancelled" /\ adding[w] = "idle"
        /\ w \notin forgetting \cup kept \cup late
        => library[w] = "absent"

\* Whatever is queued is installed, fails or is cancelled in the end, whenever the
\* worker found the queue empty and whoever holds the preparation slot.
InstallsSettle ==
    \A w \in Works : status[w] = "queued" ~> status[w] \in Settled
=============================================================================
