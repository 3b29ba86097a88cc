------------------------------- MODULE Launch -------------------------------
(***************************************************************************)
(* Starting, watching and stopping games.                                  *)
(*                                                                         *)
(* Source: dla-application/src/launch.rs (LaunchService, monitor_process), *)
(* dla-sqlite/src/launch.rs (the rows) and dla-launch/src/lib.rs (the      *)
(* process itself).  `launch` runs on a command thread: it plans, begins a *)
(* row, spawns the process, saves the row as running and hands the process *)
(* to a monitor thread, with an entry in the map `active` through which    *)
(* `stop` finds the monitor.  The monitor alternates between the command   *)
(* channel and try_wait, and saves the last state of the row, three times  *)
(* if need be, before it takes its entry out of the map.  A restart of the *)
(* launcher loses the threads and the map; the processes live on and the   *)
(* rows that were active become `interrupted`.                             *)
(***************************************************************************)
EXTENDS Naturals, FiniteSets

CONSTANTS
    Installs,         \* installations a user can launch
    Attempts,         \* launch activity identifiers, a fresh one per call
    Stoppable,        \* bound: the attempts somebody tries to stop
    LastSaves,        \* saves of the last status before it is given up, 3 in the code
    MaxLaunchFaults,  \* bound: failing saves, kills, waits and thread spawns
    MaxRestarts       \* bound: restarts of the launcher

VARIABLES
    row,           \* status of the activity's row, "absent" before the first save
    inst,          \* installation the attempt was made for
    call,          \* where the launch call of an attempt stands
    proc,          \* the process: "none", "alive", "dying", "zero", "nonzero"
    active,        \* attempts in the map of supervised launches
    mon,           \* where the monitor thread of an attempt stands
    stopping,      \* attempts whose monitor has carried out a stop
    final,         \* status the monitor wants to save last
    tries,         \* saves of the last status that failed
    inbox,         \* attempts whose channel holds a stop the monitor has not taken
    stop,          \* where the stop call for an attempt stands, or its answer
    launchFaults,  \* faults spent
    restarts,      \* restarts spent
    stray,         \* history: processes nobody could kill or that outlived their session
    lost           \* history: attempts whose last status could not be saved

launchVars == <<row, inst, call, proc, active, mon, stopping, final, tries,
                inbox, stop, launchFaults, restarts, stray, lost>>

ActiveStatus == {"starting", "running", "stopping"}
EndStatus == {"exited", "failed", "stopped", "interrupted"}
Answers == {"ok", "refused", "not_running", "not_owned", "timed_out"}

LaunchTypeOK ==
    /\ row \in [Attempts -> ActiveStatus \cup EndStatus \cup {"absent"}]
    /\ inst \in [Attempts -> Installs]
    /\ call \in [Attempts -> {"idle", "execute", "record", "undo", "supervise",
                              "register", "start", "returned"}]
    /\ proc \in [Attempts -> {"none", "alive", "dying", "zero", "nonzero"}]
    /\ active \subseteq Attempts /\ stopping \subseteq Attempts /\ inbox \subseteq Attempts
    /\ mon \in [Attempts -> {"off", "command", "poll", "settle", "leave", "gone"}]
    /\ final \in [Attempts -> EndStatus]
    /\ tries \in [Attempts -> 0..(LastSaves - 1)]
    /\ stop \in [Attempts -> {"idle", "send", "sent", "accepted"} \cup Answers]
    /\ launchFaults \in 0..MaxLaunchFaults /\ restarts \in 0..MaxRestarts
    /\ stray \subseteq Attempts /\ lost \subseteq Attempts

LaunchInit ==
    /\ row = [a \in Attempts |-> "absent"]
    /\ inst \in [Attempts -> Installs]
    /\ call = [a \in Attempts |-> "idle"]
    /\ proc = [a \in Attempts |-> "none"]
    /\ active = {} /\ stopping = {} /\ inbox = {}
    /\ mon = [a \in Attempts |-> "off"]
    /\ final = [a \in Attempts |-> "failed"]
    /\ tries = [a \in Attempts |-> 0]
    /\ stop = [a \in Attempts |-> "idle"]
    /\ launchFaults = 0 /\ restarts = 0
    /\ stray = {} /\ lost = {}

-----------------------------------------------------------------------------
(* Which installations can be launched, and which targets started.         *)

Shapes ==
    [ready : BOOLEAN, reviewed : BOOLEAN,
     prepared : {"none", "no_action", "other_action", "executable"},
     selected : {"none", "other_action", "root", "unknown", "ignored", "executable"}]

BuildPlan(s) ==
    CASE ~s.ready -> "needs_review"
      [] s.ready /\ ~s.reviewed -> "not_reviewed"
      [] s.ready /\ s.reviewed /\ s.prepared # "none" ->
           IF s.prepared = "executable" THEN "plan" ELSE s.prepared
      [] OTHER -> IF s.selected = "executable" THEN "plan" ELSE s.selected

PlanVerdicts == {BuildPlan(s) : s \in Shapes}

Targets ==
    [root : {"directory", "symlink", "missing"}, symlinked : BOOLEAN,
     kind : {"file", "directory", "missing"}, inside : BOOLEAN,
     hash : {"unknown", "same", "changed"}, platform : BOOLEAN]

ExecuteVerdict(t) ==
    IF /\ t.root = "directory" /\ ~t.symlinked /\ t.kind = "file" /\ t.inside
       /\ t.hash # "changed" /\ t.platform
    THEN "spawn" ELSE "adapter_error"

ExecuteVerdicts == {ExecuteVerdict(t) : t \in Targets}

-----------------------------------------------------------------------------
(* The rows, and the faults a step can meet.                               *)

LaunchFault == launchFaults < MaxLaunchFaults /\ launchFaults' = launchFaults + 1
NoLaunchFault == UNCHANGED launchFaults

\* save_launch_activity: an upsert by activity, or a fault and no change.
Save(a, s) == row' = [row EXCEPT ![a] = s]

\* (Wrong form.) The check looks at running rows only.
BusyRunning(i) == \E b \in Attempts : inst[b] = i /\ row[b] = "running"

\* begin_launch_activity: refused while the installation has an active row.
Busy(i) == \E b \in Attempts : inst[b] = i /\ row[b] \in ActiveStatus

Running(a) == proc[a] \in {"alive", "dying"}

\* terminate_and_reap: the kill and the wait, or a kill that fails.
Reap(a) ==
    \/ /\ proc' = [proc EXCEPT ![a] = IF Running(a) THEN "nonzero" ELSE @]
       /\ NoLaunchFault /\ UNCHANGED stray
    \/ Running(a) /\ LaunchFault /\ stray' = stray \cup {a} /\ UNCHANGED proc

-----------------------------------------------------------------------------
(* The launch call.                                                        *)

launchRest == <<inst, active, mon, stopping, final, tries, inbox, stop, restarts>>

Launch(a) ==
    /\ call[a] = "idle"
    /\ \E verdict \in PlanVerdicts :
         IF verdict # "plan"
         THEN \* record_preflight_failure
              /\ call' = [call EXCEPT ![a] = "returned"]
              /\ \/ Save(a, "failed") /\ NoLaunchFault
                 \/ LaunchFault /\ UNCHANGED row
         ELSE \/ /\ ~Busy(inst[a])
                 /\ Save(a, "starting")
                 /\ call' = [call EXCEPT ![a] = "execute"]
                 /\ NoLaunchFault
              \/ /\ Busy(inst[a]) \/ launchFaults < MaxLaunchFaults
                 /\ call' = [call EXCEPT ![a] = "returned"]
                 /\ launchFaults' = IF Busy(inst[a]) THEN launchFaults ELSE launchFaults + 1
                 /\ UNCHANGED row
    /\ UNCHANGED <<launchRest, proc, stray, lost>>

Execute(a) ==
    /\ call[a] = "execute"
    /\ \E verdict \in ExecuteVerdicts :
         IF verdict = "spawn"
         THEN /\ proc' = [proc EXCEPT ![a] = "alive"]
              /\ call' = [call EXCEPT ![a] = "record"]
              /\ NoLaunchFault /\ UNCHANGED <<row, lost>>
         ELSE /\ call' = [call EXCEPT ![a] = "returned"]
              /\ \/ Save(a, "failed") /\ NoLaunchFault /\ UNCHANGED lost
                 \/ LaunchFault /\ lost' = lost \cup {a} /\ UNCHANGED row
              /\ UNCHANGED proc
    /\ UNCHANGED <<launchRest, stray>>

RecordRunning(a) ==
    /\ call[a] = "record"
    /\ \/ /\ Save(a, "running")
          /\ call' = [call EXCEPT ![a] = "supervise"]
          /\ NoLaunchFault
       \/ LaunchFault /\ call' = [call EXCEPT ![a] = "undo"] /\ UNCHANGED row
    /\ UNCHANGED <<launchRest, proc, stray, lost>>

\* The process that cannot be recorded, or not supervised, is killed first
\* and its row saved as failed afterwards.
UndoProcess(a) ==
    /\ call[a] = "undo"
    /\ Reap(a)
    /\ call' = [call EXCEPT ![a] = "returned"]
    /\ \/ Save(a, "failed") /\ UNCHANGED lost
       \/ /\ launchFaults' < MaxLaunchFaults
          /\ lost' = lost \cup {a} /\ UNCHANGED row
    /\ UNCHANGED launchRest

\* supervise: the thread is spawned, the entry registered, the process sent.
SpawnMonitor(a) ==
    /\ call[a] = "supervise"
    /\ \/ call' = [call EXCEPT ![a] = "register"] /\ NoLaunchFault
       \/ call' = [call EXCEPT ![a] = "undo"] /\ LaunchFault
    /\ UNCHANGED <<launchRest, row, proc, stray, lost>>

Register(a) ==
    /\ call[a] = "register"
    /\ active' = active \cup {a}
    /\ call' = [call EXCEPT ![a] = "start"]
    /\ UNCHANGED <<row, inst, proc, mon, stopping, final, tries, inbox, stop,
                   launchFaults, restarts, stray, lost>>

StartMonitor(a) ==
    /\ call[a] = "start"
    /\ mon' = [mon EXCEPT ![a] = "command"]
    /\ call' = [call EXCEPT ![a] = "returned"]
    /\ UNCHANGED <<row, inst, proc, active, stopping, final, tries, inbox, stop,
                   launchFaults, restarts, stray, lost>>

-----------------------------------------------------------------------------
(* The process and its monitor.                                            *)

Exit(a) ==
    /\ Running(a)
    /\ \E end \in {"zero", "nonzero"} : proc' = [proc EXCEPT ![a] = end]
    /\ UNCHANGED <<row, inst, call, active, mon, stopping, final, tries, inbox,
                   stop, launchFaults, restarts, stray, lost>>

\* response.send: heard only by a stop call that has not given up.
Answer(a, s) == stop' = [stop EXCEPT ![a] = IF @ = "sent" THEN s ELSE @]

\* (Wrong form.) The monitor counts a carried out stop as the end.
TakeCommandAndLeave(a) ==
    /\ mon[a] = "command"
    /\ mon' = [mon EXCEPT ![a] = IF a \in inbox THEN "leave" ELSE "poll"]
    /\ inbox' = inbox \ {a}
    /\ \/ a \notin inbox /\ UNCHANGED <<proc, stopping, row, stop, launchFaults>>
       \/ /\ a \in inbox
          /\ proc' = [proc EXCEPT ![a] = IF @ = "alive" THEN "dying" ELSE @]
          /\ stopping' = stopping \cup {a}
          /\ Save(a, "stopping") /\ Answer(a, "accepted") /\ NoLaunchFault
    /\ UNCHANGED <<inst, call, active, final, tries, restarts, stray, lost>>

\* try_recv: a stop in the channel is carried out, saved and answered.
TakeCommand(a) ==
    /\ mon[a] = "command"
    /\ mon' = [mon EXCEPT ![a] = "poll"]
    /\ inbox' = inbox \ {a}
    /\ \/ a \notin inbox /\ UNCHANGED <<proc, stopping, row, stop, launchFaults>>
       \/ /\ a \in inbox
          /\ proc' = [proc EXCEPT ![a] = IF @ = "alive" THEN "dying" ELSE @]
          /\ stopping' = stopping \cup {a}
          /\ \/ Save(a, "stopping") /\ Answer(a, "accepted") /\ NoLaunchFault
             \/ LaunchFault /\ Answer(a, "refused") /\ UNCHANGED row
       \/ /\ a \in inbox /\ LaunchFault
          /\ Answer(a, "refused")
          /\ UNCHANGED <<proc, stopping, row>>
    /\ UNCHANGED <<inst, call, active, final, tries, restarts, stray, lost>>

\* (Wrong form.) The exit code alone decides.
EndOfByCode(a) == IF proc[a] = "zero" THEN "exited" ELSE "failed"

EndOf(a) ==
    IF a \in stopping THEN "stopped"
    ELSE IF proc[a] = "zero" THEN "exited" ELSE "failed"

\* try_wait: still running, over, or an error and the process is killed.
Poll(a) ==
    /\ mon[a] = "poll"
    /\ \/ /\ Running(a)
          /\ mon' = [mon EXCEPT ![a] = "command"]
          /\ UNCHANGED <<final, proc, stray, launchFaults>>
       \/ /\ ~Running(a)
          /\ mon' = [mon EXCEPT ![a] = "settle"]
          /\ final' = [final EXCEPT ![a] = EndOf(a)]
          /\ UNCHANGED <<proc, stray, launchFaults>>
       \/ /\ mon' = [mon EXCEPT ![a] = "settle"]
          /\ final' = [final EXCEPT ![a] = "failed"]
          /\ \/ /\ LaunchFault
                /\ proc' = [proc EXCEPT ![a] = IF Running(a) THEN "nonzero" ELSE @]
                /\ UNCHANGED stray
             \/ /\ launchFaults + 1 < MaxLaunchFaults /\ launchFaults' = launchFaults + 2
                /\ stray' = stray \cup {a}
                /\ UNCHANGED proc
    /\ UNCHANGED <<row, inst, call, active, stopping, tries, inbox, stop, restarts, lost>>

\* persist_terminal_activity: one save per step, given up at the last one.
Settle(a) ==
    /\ mon[a] = "settle"
    /\ \/ /\ Save(a, final[a])
          /\ mon' = [mon EXCEPT ![a] = "leave"]
          /\ NoLaunchFault /\ UNCHANGED <<tries, lost>>
       \/ /\ LaunchFault
          /\ IF tries[a] + 1 < LastSaves
             THEN tries' = [tries EXCEPT ![a] = @ + 1] /\ UNCHANGED <<mon, lost>>
             ELSE /\ mon' = [mon EXCEPT ![a] = "leave"]
                  /\ lost' = lost \cup {a} /\ UNCHANGED tries
          /\ UNCHANGED row
    /\ UNCHANGED <<inst, call, proc, active, stopping, final, inbox, stop, restarts, stray>>

\* What a monitor thread keeps for itself goes with it.
ForgetMonitors(S) ==
    /\ stopping' = stopping \ S /\ inbox' = inbox \ S
    /\ final' = [a \in Attempts |-> IF a \in S THEN "failed" ELSE final[a]]
    /\ tries' = [a \in Attempts |-> IF a \in S THEN 0 ELSE tries[a]]

\* remove_active, and the return that drops the channel: a stop still in it
\* reads the closed channel as NotRunning.
LeaveMap(a) ==
    /\ mon[a] = "leave"
    /\ mon' = [mon EXCEPT ![a] = "gone"]
    /\ active' = active \ {a}
    /\ ForgetMonitors({a})
    /\ stop' = [stop EXCEPT ![a] = IF @ = "sent" THEN "not_running" ELSE @]
    /\ UNCHANGED <<row, inst, call, proc, launchFaults, restarts, stray, lost>>

-----------------------------------------------------------------------------
(* The stop call, one per attempt.                                         *)

stopRest == <<row, inst, call, proc, active, mon, stopping, final, tries,
              launchFaults, restarts, stray, lost>>

FindMonitor(a) ==
    /\ stop[a] = "idle" /\ row[a] # "absent" /\ a \in Stoppable
    /\ stop' = [stop EXCEPT ![a] = IF a \in active THEN "send"
                                   ELSE IF row[a] \in ActiveStatus THEN "not_owned"
                                   ELSE "not_running"]
    /\ UNCHANGED <<stopRest, inbox>>

SendStop(a) ==
    /\ stop[a] = "send"
    /\ stop' = [stop EXCEPT ![a] = IF mon[a] = "gone" THEN "not_running" ELSE "sent"]
    /\ inbox' = IF mon[a] = "gone" THEN inbox ELSE inbox \cup {a}
    /\ UNCHANGED stopRest

\* recv_timeout: five seconds without an answer, while the command stays in
\* the channel and may still be carried out.
StopTimesOut(a) ==
    /\ stop[a] = "sent"
    /\ stop' = [stop EXCEPT ![a] = "timed_out"]
    /\ UNCHANGED <<stopRest, inbox>>

\* The row is read again after the monitor accepted.
AnswerStop(a) ==
    /\ stop[a] = "accepted"
    /\ stop' = [stop EXCEPT ![a] = "ok"]
    /\ UNCHANGED <<stopRest, inbox>>

-----------------------------------------------------------------------------
(* The launcher dies and starts again: reconcile_after_restart runs before *)
(* any command, and nobody owns the processes of the earlier session.      *)

Interrupted(s) == IF s \in ActiveStatus THEN "interrupted" ELSE s

Restart ==
    /\ restarts < MaxRestarts
    /\ restarts' = restarts + 1
    /\ row' = [a \in Attempts |-> Interrupted(row[a])]
    /\ stray' = stray \cup {a \in Attempts : Running(a)}
    /\ call' = [a \in Attempts |-> IF call[a] = "idle" THEN "idle" ELSE "returned"]
    /\ mon' = [a \in Attempts |-> IF mon[a] = "off" THEN "off" ELSE "gone"]
    /\ stop' = [a \in Attempts |-> IF stop[a] \in {"send", "sent", "accepted"}
                                   THEN "not_running" ELSE stop[a]]
    /\ active' = {}
    /\ ForgetMonitors(Attempts)
    /\ UNCHANGED <<inst, proc, launchFaults, lost>>

CallStep(a) ==
    \/ Execute(a) \/ RecordRunning(a) \/ UndoProcess(a)
    \/ SpawnMonitor(a) \/ Register(a) \/ StartMonitor(a)
MonitorStep(a) == TakeCommand(a) \/ Poll(a) \/ Settle(a) \/ LeaveMap(a)
StopStep(a) == FindMonitor(a) \/ SendStop(a) \/ StopTimesOut(a) \/ AnswerStop(a)

LaunchNext ==
    \/ \E a \in Attempts : Launch(a) \/ CallStep(a) \/ MonitorStep(a)
                           \/ StopStep(a) \/ Exit(a)
    \/ Restart

\* The threads of the launcher run, and a killed process goes.
LaunchFairness ==
    \A a \in Attempts : /\ WF_launchVars(CallStep(a)) /\ WF_launchVars(MonitorStep(a))
                        /\ WF_launchVars(proc[a] = "dying" /\ Exit(a))

LaunchSpec == LaunchInit /\ [][LaunchNext]_launchVars /\ LaunchFairness

-----------------------------------------------------------------------------
(* Properties.                                                             *)

\* An installation never has two processes the launcher is responsible for:
\* begin_launch_activity refuses while a row is active, and a row leaves the
\* active statuses only after the process was reaped.  Strays, which a failed
\* kill or a restart leaves behind, are outside this promise.
OneOwnedProcess ==
    \A a, b \in Attempts :
        (a # b /\ inst[a] = inst[b] /\ Running(a) /\ Running(b)) =>
            a \in stray \/ b \in stray

\* A stop that was answered Ok is what the history shows: the row is stopping
\* or has ended, and never as if the game had exited on its own.
StopIsRecorded ==
    \A a \in Attempts : stop[a] = "ok" => row[a] \notin {"starting", "running", "exited"}

\* A launch that was told to stop gets its last status, unless every
\* save of it failed.
StoppedLaunchSettles ==
    \A a \in Attempts : (row[a] = "stopping") ~> (row[a] \in EndStatus \/ a \in lost)

\* A stop is the end of a launch: recorded from the moment it is answered, and settled later.
StopIsFinal == []StopIsRecorded /\ StoppedLaunchSettles
=============================================================================
