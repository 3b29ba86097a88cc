--------------------------- MODULE Activities_proofs ---------------------------
(***************************************************************************)
(* Proofs about what users start: launches, the installs of scanned        *)
(* archives and Android packages, for any installations, attempts, works,  *)
(* faults and restarts.                                                    *)
(*                                                                         *)
(* Launch: an attempt is followed from its call to its monitor.  While its *)
(* process may run and is the launcher's to watch, its row is active, so   *)
(* that the check of begin_launch_activity keeps others away; and a stop   *)
(* that was answered marks the monitor until the last status is saved.     *)
(*                                                                         *)
(* ScanInstalls: the flag keeps the worker single, a work is in the queue  *)
(* once, and a cancelled work is removed before its last status is shown.  *)
(*                                                                         *)
(* AndroidPackages: a selection number stands for one file wherever it is  *)
(* kept, "installed" is what the system said of the file a session was     *)
(* given, and so what an association names was reviewed when it was saved. *)
(***************************************************************************)
EXTENDS Launch, ScanInstalls, AndroidPackages, SequenceTheorems, FiniteSetTheorems, TLAPS

-----------------------------------------------------------------------------
(* Launch: the inductive invariant.                                        *)

CallStages == {"execute", "record", "undo", "supervise", "register", "start"}

LaunchTypes ==
    /\ row \in [Attempts -> ActiveStatus \cup EndStatus \cup {"absent"}]
    /\ inst \in [Attempts -> Installs]
    /\ call \in [Attempts -> CallStages \cup {"idle", "returned"}]
    /\ proc \in [Attempts -> {"none", "alive", "dying", "zero", "nonzero"}]
    /\ mon \in [Attempts -> {"off", "command", "poll", "settle", "leave", "gone"}]
    /\ final \in [Attempts -> EndStatus]
    /\ stop \in [Attempts -> {"idle", "send", "sent", "accepted"} \cup Answers]
    /\ active \subseteq Attempts /\ stopping \subseteq Attempts /\ inbox \subseteq Attempts
    /\ stray \subseteq Attempts /\ lost \subseteq Attempts

\* A call hands its process to a monitor in the end; there is no process before execute.
CallThenMonitor ==
    \A a \in Attempts :
        /\ call[a] # "returned" => mon[a] = "off"
        /\ call[a] \in {"idle", "execute"} => proc[a] = "none"
        /\ call[a] = "idle" => row[a] = "absent"

\* The row of an attempt that is being made is active, and no stop has reached it.
CallIsRecorded ==
    \A a \in Attempts : call[a] \in CallStages => row[a] \in {"starting", "running"}

\* So is the row of an attempt that is watched.
WatchIsRecorded ==
    \A a \in Attempts : mon[a] \in {"command", "poll", "settle"} => row[a] \in ActiveStatus

\* The last status is saved once the process is over, or nobody could kill it.
SettledIsOver ==
    \A a \in Attempts : mon[a] = "settle" => ~Running(a) \/ a \in stray

\* A process that is the launcher's to watch has an active row.
OwnedIsRecorded ==
    \A a \in Attempts : Running(a) /\ a \notin stray => row[a] \in ActiveStatus

\* begin_launch_activity: one active row per installation.
OneActiveRow ==
    \A a, b \in Attempts :
        a # b /\ inst[a] = inst[b] /\ row[a] \in ActiveStatus => row[b] \notin ActiveStatus

\* What a stop that was carried out leaves behind.
Stopped == {"stopping", "stopped", "failed", "interrupted"}
StopIsMarked ==
    \A a \in Attempts :
        /\ stop[a] \in {"accepted", "ok"} => row[a] \in Stopped
        /\ row[a] = "stopping" =>
             /\ mon[a] \in {"command", "poll"} => a \in stopping
             /\ mon[a] = "settle" => final[a] # "exited"

LaunchIInv ==
    /\ LaunchTypes /\ CallThenMonitor /\ CallIsRecorded /\ WatchIsRecorded /\ SettledIsOver
    /\ OwnedIsRecorded /\ OneActiveRow /\ StopIsMarked
\* The call plans and begins its row, unless another attempt of the installation is active.
LEMMA LaunchKeeps ==
    ASSUME LaunchIInv, NEW a \in Attempts, Launch(a)
    PROVE  LaunchIInv'
  <1>1. LaunchTypes'
    BY DEF LaunchIInv, LaunchTypes, CallStages, ActiveStatus, EndStatus, Answers,
           Launch, Busy, Save, LaunchFault, NoLaunchFault, launchRest
  <1>2. CallThenMonitor'
    BY DEF LaunchIInv, LaunchTypes, CallThenMonitor, CallStages, ActiveStatus,
           EndStatus, Answers, Launch, Busy, Save, LaunchFault, NoLaunchFault,
           launchRest
  <1>3. CallIsRecorded'
    BY DEF LaunchIInv, LaunchTypes, CallThenMonitor, CallIsRecorded, CallStages,
           ActiveStatus, EndStatus, Answers, Launch, Busy, Save, LaunchFault,
           NoLaunchFault, launchRest
  <1>4. WatchIsRecorded'
    BY DEF LaunchIInv, LaunchTypes, CallThenMonitor, CallIsRecorded, WatchIsRecorded,
           CallStages, ActiveStatus, EndStatus, Answers, Launch, Busy, Save,
           LaunchFault, NoLaunchFault, launchRest
  <1>5. SettledIsOver'
    BY DEF LaunchIInv, LaunchTypes, CallThenMonitor, SettledIsOver, CallStages,
           ActiveStatus, EndStatus, Answers, Running, Launch, Busy, Save, LaunchFault,
           NoLaunchFault, launchRest
  <1>6. OwnedIsRecorded'
    BY DEF LaunchIInv, LaunchTypes, CallThenMonitor, CallIsRecorded, WatchIsRecorded,
           SettledIsOver, OwnedIsRecorded, CallStages, ActiveStatus, EndStatus,
           Answers, Running, Launch, Busy, Save, LaunchFault, NoLaunchFault, launchRest
  <1>7. OneActiveRow'
    BY DEF LaunchIInv, LaunchTypes, CallThenMonitor, CallIsRecorded, WatchIsRecorded,
           OneActiveRow, CallStages, ActiveStatus, EndStatus, Answers, Launch, Busy,
           Save, LaunchFault, NoLaunchFault, launchRest
  <1>8. StopIsMarked'
    BY DEF LaunchIInv, LaunchTypes, CallThenMonitor, CallIsRecorded, WatchIsRecorded,
           StopIsMarked, CallStages, ActiveStatus, EndStatus, Answers, Stopped, Launch,
           Busy, Save, LaunchFault, NoLaunchFault, launchRest
  <1>9. QED
    BY <1>1, <1>2, <1>3, <1>4, <1>5, <1>6, <1>7, <1>8 DEF LaunchIInv

\* A process is spawned for a recorded attempt, or its row fails.
LEMMA ExecuteKeeps ==
    ASSUME LaunchIInv, NEW a \in Attempts, Execute(a)
    PROVE  LaunchIInv'
  <1>1. LaunchTypes'
    BY DEF LaunchIInv, LaunchTypes, CallStages, ActiveStatus, EndStatus, Answers,
           Execute, Save, LaunchFault, NoLaunchFault, launchRest
  <1>2. CallThenMonitor'
    BY DEF LaunchIInv, LaunchTypes, CallThenMonitor, CallStages, ActiveStatus,
           EndStatus, Answers, Execute, Save, LaunchFault, NoLaunchFault, launchRest
  <1>3. CallIsRecorded'
    BY DEF LaunchIInv, LaunchTypes, CallThenMonitor, CallIsRecorded, CallStages,
           ActiveStatus, EndStatus, Answers, Execute, Save, LaunchFault, NoLaunchFault,
           launchRest
  <1>4. WatchIsRecorded'
    BY DEF LaunchIInv, LaunchTypes, CallThenMonitor, CallIsRecorded, WatchIsRecorded,
           CallStages, ActiveStatus, EndStatus, Answers, Execute, Save, LaunchFault,
           NoLaunchFault, launchRest
  <1>5. SettledIsOver'
    BY DEF LaunchIInv, LaunchTypes, CallThenMonitor, SettledIsOver, CallStages,
           ActiveStatus, EndStatus, Answers, Running, Execute, Save, LaunchFault,
           NoLaunchFault, launchRest
  <1>6. OwnedIsRecorded'
    BY DEF LaunchIInv, LaunchTypes, CallThenMonitor, CallIsRecorded, WatchIsRecorded,
           SettledIsOver, OwnedIsRecorded, CallStages, ActiveStatus, EndStatus,
           Answers, Running, Execute, Save, LaunchFault, NoLaunchFault, launchRest
  <1>7. OneActiveRow'
    BY DEF LaunchIInv, LaunchTypes, CallThenMonitor, CallIsRecorded, WatchIsRecorded,
           OneActiveRow, CallStages, ActiveStatus, EndStatus, Answers, Execute, Save,
           LaunchFault, NoLaunchFault, launchRest
  <1>8. StopIsMarked'
    BY DEF LaunchIInv, LaunchTypes, CallThenMonitor, CallIsRecorded, WatchIsRecorded,
           StopIsMarked, CallStages, ActiveStatus, EndStatus, Answers, Stopped,
           Execute, Save, LaunchFault, NoLaunchFault, launchRest
  <1>9. QED
    BY <1>1, <1>2, <1>3, <1>4, <1>5, <1>6, <1>7, <1>8 DEF LaunchIInv

\* The row of an attempt that was begun is active already.
LEMMA RecordRunningKeeps ==
    ASSUME LaunchIInv, NEW a \in Attempts, RecordRunning(a)
    PROVE  LaunchIInv'
  BY DEF LaunchIInv, LaunchTypes, CallThenMonitor, CallIsRecorded, WatchIsRecorded,
         SettledIsOver, OwnedIsRecorded, OneActiveRow, StopIsMarked, CallStages,
         ActiveStatus, EndStatus, Answers, Stopped, Running, RecordRunning, Save,
         LaunchFault, NoLaunchFault, launchRest

\* The row fails after the process was killed, or nobody could kill it.
LEMMA UndoProcessKeeps ==
    ASSUME LaunchIInv, NEW a \in Attempts, UndoProcess(a)
    PROVE  LaunchIInv'
  <1>1. LaunchTypes'
    BY DEF LaunchIInv, LaunchTypes, CallStages, ActiveStatus, EndStatus, Answers,
           UndoProcess, Reap, Save, LaunchFault, NoLaunchFault, launchRest
  <1>2. CallThenMonitor'
    BY DEF LaunchIInv, LaunchTypes, CallThenMonitor, CallStages, ActiveStatus,
           EndStatus, Answers, UndoProcess, Reap, Save, LaunchFault, NoLaunchFault,
           launchRest
  <1>3. CallIsRecorded'
    BY DEF LaunchIInv, LaunchTypes, CallThenMonitor, CallIsRecorded, CallStages,
           ActiveStatus, EndStatus, Answers, UndoProcess, Reap, Save, LaunchFault,
           NoLaunchFault, launchRest
  <1>4. WatchIsRecorded'
    BY DEF LaunchIInv, LaunchTypes, CallThenMonitor, CallIsRecorded, WatchIsRecorded,
           CallStages, ActiveStatus, EndStatus, Answers, UndoProcess, Reap, Save,
           LaunchFault, NoLaunchFault, launchRest
  <1>5. SettledIsOver'
    BY DEF LaunchIInv, LaunchTypes, CallThenMonitor, SettledIsOver, CallStages,
           ActiveStatus, EndStatus, Answers, Running, UndoProcess, Reap, Save,
           LaunchFault, NoLaunchFault, launchRest
  <1>6. OwnedIsRecorded'
    BY DEF LaunchIInv, LaunchTypes, CallThenMonitor, CallIsRecorded, WatchIsRecorded,
           SettledIsOver, OwnedIsRecorded, CallStages, ActiveStatus, EndStatus,
           Answers, Running, UndoProcess, Reap, Save, LaunchFault, NoLaunchFault,
           launchRest
  <1>7. OneActiveRow'
    BY DEF LaunchIInv, LaunchTypes, CallThenMonitor, CallIsRecorded, WatchIsRecorded,
           OneActiveRow, CallStages, ActiveStatus, EndStatus, Answers, UndoProcess,
           Reap, Save, LaunchFault, NoLaunchFault, launchRest
  <1>8. StopIsMarked'
    BY DEF LaunchIInv, LaunchTypes, CallThenMonitor, CallIsRecorded, WatchIsRecorded,
           StopIsMarked, CallStages, ActiveStatus, EndStatus, Answers, Stopped,
           UndoProcess, Reap, Save, LaunchFault, NoLaunchFault, launchRest
  <1>9. QED
    BY <1>1, <1>2, <1>3, <1>4, <1>5, <1>6, <1>7, <1>8 DEF LaunchIInv

\* Neither row nor process change on the way to the monitor.
LEMMA SpawnMonitorKeeps ==
    ASSUME LaunchIInv, NEW a \in Attempts, SpawnMonitor(a)
    PROVE  LaunchIInv'
  BY DEF LaunchIInv, LaunchTypes, CallThenMonitor, CallIsRecorded, WatchIsRecorded,
         SettledIsOver, OwnedIsRecorded, OneActiveRow, StopIsMarked, CallStages,
         ActiveStatus, EndStatus, Answers, Stopped, Running, SpawnMonitor, LaunchFault,
         NoLaunchFault, launchRest

LEMMA RegisterKeeps ==
    ASSUME LaunchIInv, NEW a \in Attempts, Register(a)
    PROVE  LaunchIInv'
  BY DEF LaunchIInv, LaunchTypes, CallThenMonitor, CallIsRecorded, WatchIsRecorded,
         SettledIsOver, OwnedIsRecorded, OneActiveRow, StopIsMarked, CallStages,
         ActiveStatus, EndStatus, Answers, Stopped, Running, Register

\* From here the monitor has what the call had.
LEMMA StartMonitorKeeps ==
    ASSUME LaunchIInv, NEW a \in Attempts, StartMonitor(a)
    PROVE  LaunchIInv'
  BY DEF LaunchIInv, LaunchTypes, CallThenMonitor, CallIsRecorded, WatchIsRecorded,
         SettledIsOver, OwnedIsRecorded, OneActiveRow, StopIsMarked, CallStages,
         ActiveStatus, EndStatus, Answers, Stopped, Running, StartMonitor

\* A process that ends leaves its row behind.
LEMMA ExitKeeps ==
    ASSUME LaunchIInv, NEW a \in Attempts, Exit(a)
    PROVE  LaunchIInv'
  <1>1. LaunchTypes'
    BY DEF LaunchIInv, LaunchTypes, CallStages, ActiveStatus, EndStatus, Answers, Exit,
           Running
  <1>2. CallThenMonitor'
    BY DEF LaunchIInv, LaunchTypes, CallThenMonitor, CallStages, ActiveStatus,
           EndStatus, Answers, Exit, Running
  <1>3. CallIsRecorded'
    BY DEF LaunchIInv, LaunchTypes, CallThenMonitor, CallIsRecorded, CallStages,
           ActiveStatus, EndStatus, Answers, Exit, Running
  <1>4. WatchIsRecorded'
    BY DEF LaunchIInv, LaunchTypes, CallThenMonitor, CallIsRecorded, WatchIsRecorded,
           CallStages, ActiveStatus, EndStatus, Answers, Exit, Running
  <1>5. SettledIsOver'
    BY DEF LaunchIInv, LaunchTypes, CallThenMonitor, SettledIsOver, CallStages,
           ActiveStatus, EndStatus, Answers, Running, Exit, Running
  <1>6. OwnedIsRecorded'
    BY DEF LaunchIInv, LaunchTypes, CallThenMonitor, CallIsRecorded, WatchIsRecorded,
           SettledIsOver, OwnedIsRecorded, CallStages, ActiveStatus, EndStatus,
           Answers, Running, Exit, Running
  <1>7. OneActiveRow'
    BY DEF LaunchIInv, LaunchTypes, CallThenMonitor, CallIsRecorded, WatchIsRecorded,
           OneActiveRow, CallStages, ActiveStatus, EndStatus, Answers, Exit, Running
  <1>8. StopIsMarked'
    BY DEF LaunchIInv, LaunchTypes, CallThenMonitor, CallIsRecorded, WatchIsRecorded,
           StopIsMarked, CallStages, ActiveStatus, EndStatus, Answers, Stopped, Exit,
           Running
  <1>9. QED
    BY <1>1, <1>2, <1>3, <1>4, <1>5, <1>6, <1>7, <1>8 DEF LaunchIInv

\* A stop marks the monitor, and its row stays active.
LEMMA TakeCommandKeeps ==
    ASSUME LaunchIInv, NEW a \in Attempts, TakeCommand(a)
    PROVE  LaunchIInv'
  <1>1. LaunchTypes'
    BY DEF LaunchIInv, LaunchTypes, CallStages, ActiveStatus, EndStatus, Answers,
           TakeCommand, Save, Answer, LaunchFault, NoLaunchFault
  <1>2. CallThenMonitor'
    BY DEF LaunchIInv, LaunchTypes, CallThenMonitor, CallStages, ActiveStatus,
           EndStatus, Answers, TakeCommand, Save, Answer, LaunchFault, NoLaunchFault
  <1>3. CallIsRecorded'
    BY DEF LaunchIInv, LaunchTypes, CallThenMonitor, CallIsRecorded, CallStages,
           ActiveStatus, EndStatus, Answers, TakeCommand, Save, Answer, LaunchFault,
           NoLaunchFault
  <1>4. WatchIsRecorded'
    BY DEF LaunchIInv, LaunchTypes, CallThenMonitor, CallIsRecorded, WatchIsRecorded,
           CallStages, ActiveStatus, EndStatus, Answers, TakeCommand, Save, Answer,
           LaunchFault, NoLaunchFault
  <1>5. SettledIsOver'
    BY DEF LaunchIInv, LaunchTypes, CallThenMonitor, SettledIsOver, CallStages,
           ActiveStatus, EndStatus, Answers, Running, TakeCommand, Save, Answer,
           LaunchFault, NoLaunchFault
  <1>6. OwnedIsRecorded'
    BY DEF LaunchIInv, LaunchTypes, CallThenMonitor, CallIsRecorded, WatchIsRecorded,
           SettledIsOver, OwnedIsRecorded, CallStages, ActiveStatus, EndStatus,
           Answers, Running, TakeCommand, Save, Answer, LaunchFault, NoLaunchFault
  <1>7. OneActiveRow'
    BY DEF LaunchIInv, LaunchTypes, CallThenMonitor, CallIsRecorded, WatchIsRecorded,
           OneActiveRow, CallStages, ActiveStatus, EndStatus, Answers, TakeCommand,
           Save, Answer, LaunchFault, NoLaunchFault
  <1>8. StopIsMarked'
    BY DEF LaunchIInv, LaunchTypes, CallThenMonitor, CallIsRecorded, WatchIsRecorded,
           StopIsMarked, CallStages, ActiveStatus, EndStatus, Answers, Stopped,
           TakeCommand, Save, Answer, LaunchFault, NoLaunchFault
  <1>9. QED
    BY <1>1, <1>2, <1>3, <1>4, <1>5, <1>6, <1>7, <1>8 DEF LaunchIInv

\* What the monitor wants to save last is said once the process is over, or stray.
LEMMA PollKeeps ==
    ASSUME LaunchIInv, NEW a \in Attempts, Poll(a)
    PROVE  LaunchIInv'
  <1>1. LaunchTypes'
    BY DEF LaunchIInv, LaunchTypes, CallStages, ActiveStatus, EndStatus, Answers, Poll,
           EndOf, LaunchFault
  <1>2. CallThenMonitor'
    BY DEF LaunchIInv, LaunchTypes, CallThenMonitor, CallStages, ActiveStatus,
           EndStatus, Answers, Poll, EndOf, LaunchFault
  <1>3. CallIsRecorded'
    BY DEF LaunchIInv, LaunchTypes, CallThenMonitor, CallIsRecorded, CallStages,
           ActiveStatus, EndStatus, Answers, Poll, EndOf, LaunchFault
  <1>4. WatchIsRecorded'
    BY DEF LaunchIInv, LaunchTypes, CallThenMonitor, CallIsRecorded, WatchIsRecorded,
           CallStages, ActiveStatus, EndStatus, Answers, Poll, EndOf, LaunchFault
  <1>5. SettledIsOver'
    BY DEF LaunchIInv, LaunchTypes, CallThenMonitor, SettledIsOver, CallStages,
           ActiveStatus, EndStatus, Answers, Running, Poll, EndOf, LaunchFault
  <1>6. OwnedIsRecorded'
    BY DEF LaunchIInv, LaunchTypes, CallThenMonitor, CallIsRecorded, WatchIsRecorded,
           SettledIsOver, OwnedIsRecorded, CallStages, ActiveStatus, EndStatus,
           Answers, Running, Poll, EndOf, LaunchFault
  <1>7. OneActiveRow'
    BY DEF LaunchIInv, LaunchTypes, CallThenMonitor, CallIsRecorded, WatchIsRecorded,
           OneActiveRow, CallStages, ActiveStatus, EndStatus, Answers, Poll, EndOf,
           LaunchFault
  <1>8. StopIsMarked'
    BY DEF LaunchIInv, LaunchTypes, CallThenMonitor, CallIsRecorded, WatchIsRecorded,
           StopIsMarked, CallStages, ActiveStatus, EndStatus, Answers, Stopped, Poll,
           EndOf, LaunchFault
  <1>9. QED
    BY <1>1, <1>2, <1>3, <1>4, <1>5, <1>6, <1>7, <1>8 DEF LaunchIInv

\* The last status is saved of a process that is over, or stray.
LEMMA SettleKeeps ==
    ASSUME LaunchIInv, NEW a \in Attempts, Settle(a)
    PROVE  LaunchIInv'
  <1>1. LaunchTypes'
    BY DEF LaunchIInv, LaunchTypes, CallStages, ActiveStatus, EndStatus, Answers,
           Settle, Save, LaunchFault, NoLaunchFault
  <1>2. CallThenMonitor'
    BY DEF LaunchIInv, LaunchTypes, CallThenMonitor, CallStages, ActiveStatus,
           EndStatus, Answers, Settle, Save, LaunchFault, NoLaunchFault
  <1>3. CallIsRecorded'
    BY DEF LaunchIInv, LaunchTypes, CallThenMonitor, CallIsRecorded, CallStages,
           ActiveStatus, EndStatus, Answers, Settle, Save, LaunchFault, NoLaunchFault
  <1>4. WatchIsRecorded'
    BY DEF LaunchIInv, LaunchTypes, CallThenMonitor, CallIsRecorded, WatchIsRecorded,
           CallStages, ActiveStatus, EndStatus, Answers, Settle, Save, LaunchFault,
           NoLaunchFault
  <1>5. SettledIsOver'
    BY DEF LaunchIInv, LaunchTypes, CallThenMonitor, SettledIsOver, CallStages,
           ActiveStatus, EndStatus, Answers, Running, Settle, Save, LaunchFault,
           NoLaunchFault
  <1>6. OwnedIsRecorded'
    BY DEF LaunchIInv, LaunchTypes, CallThenMonitor, CallIsRecorded, WatchIsRecorded,
           SettledIsOver, OwnedIsRecorded, CallStages, ActiveStatus, EndStatus,
           Answers, Running, Settle, Save, LaunchFault, NoLaunchFault
  <1>7. OneActiveRow'
    BY DEF LaunchIInv, LaunchTypes, CallThenMonitor, CallIsRecorded, WatchIsRecorded,
           OneActiveRow, CallStages, ActiveStatus, EndStatus, Answers, Settle, Save,
           LaunchFault, NoLaunchFault
  <1>8. StopIsMarked'
    BY DEF LaunchIInv, LaunchTypes, CallThenMonitor, CallIsRecorded, WatchIsRecorded,
           StopIsMarked, CallStages, ActiveStatus, EndStatus, Answers, Stopped, Settle,
           Save, LaunchFault, NoLaunchFault
  <1>9. QED
    BY <1>1, <1>2, <1>3, <1>4, <1>5, <1>6, <1>7, <1>8 DEF LaunchIInv

LEMMA LeaveMapKeeps ==
    ASSUME LaunchIInv, NEW a \in Attempts, LeaveMap(a)
    PROVE  LaunchIInv'
  BY DEF LaunchIInv, LaunchTypes, CallThenMonitor, CallIsRecorded, WatchIsRecorded,
         SettledIsOver, OwnedIsRecorded, OneActiveRow, StopIsMarked, CallStages,
         ActiveStatus, EndStatus, Answers, Stopped, Running, LeaveMap, ForgetMonitors

\* The stop call reads, sends and waits.
LEMMA FindMonitorKeeps ==
    ASSUME LaunchIInv, NEW a \in Attempts, FindMonitor(a)
    PROVE  LaunchIInv'
  BY DEF LaunchIInv, LaunchTypes, CallThenMonitor, CallIsRecorded, WatchIsRecorded,
         SettledIsOver, OwnedIsRecorded, OneActiveRow, StopIsMarked, CallStages,
         ActiveStatus, EndStatus, Answers, Stopped, Running, FindMonitor, stopRest

LEMMA SendStopKeeps ==
    ASSUME LaunchIInv, NEW a \in Attempts, SendStop(a)
    PROVE  LaunchIInv'
  BY DEF LaunchIInv, LaunchTypes, CallThenMonitor, CallIsRecorded, WatchIsRecorded,
         SettledIsOver, OwnedIsRecorded, OneActiveRow, StopIsMarked, CallStages,
         ActiveStatus, EndStatus, Answers, Stopped, Running, SendStop, stopRest

LEMMA StopTimesOutKeeps ==
    ASSUME LaunchIInv, NEW a \in Attempts, StopTimesOut(a)
    PROVE  LaunchIInv'
  BY DEF LaunchIInv, LaunchTypes, CallThenMonitor, CallIsRecorded, WatchIsRecorded,
         SettledIsOver, OwnedIsRecorded, OneActiveRow, StopIsMarked, CallStages,
         ActiveStatus, EndStatus, Answers, Stopped, Running, StopTimesOut, stopRest

LEMMA AnswerStopKeeps ==
    ASSUME LaunchIInv, NEW a \in Attempts, AnswerStop(a)
    PROVE  LaunchIInv'
  BY DEF LaunchIInv, LaunchTypes, CallThenMonitor, CallIsRecorded, WatchIsRecorded,
         SettledIsOver, OwnedIsRecorded, OneActiveRow, StopIsMarked, CallStages,
         ActiveStatus, EndStatus, Answers, Stopped, Running, AnswerStop, stopRest

\* Whatever runs when the launcher dies is stray, and nobody watches a row.
LEMMA RestartKeeps ==
    ASSUME LaunchIInv, Restart
    PROVE  LaunchIInv'
  <1>1. LaunchTypes'
    BY DEF LaunchIInv, LaunchTypes, CallStages, ActiveStatus, EndStatus, Answers,
           Restart, Interrupted, ForgetMonitors
  <1>2. CallThenMonitor'
    BY DEF LaunchIInv, LaunchTypes, CallThenMonitor, CallStages, ActiveStatus,
           EndStatus, Answers, Restart, Interrupted, ForgetMonitors
  <1>3. CallIsRecorded'
    BY DEF LaunchIInv, LaunchTypes, CallThenMonitor, CallIsRecorded, CallStages,
           ActiveStatus, EndStatus, Answers, Restart, Interrupted, ForgetMonitors
  <1>4. WatchIsRecorded'
    BY DEF LaunchIInv, LaunchTypes, CallThenMonitor, CallIsRecorded, WatchIsRecorded,
           CallStages, ActiveStatus, EndStatus, Answers, Restart, Interrupted,
           ForgetMonitors
  <1>5. SettledIsOver'
    BY DEF LaunchIInv, LaunchTypes, CallThenMonitor, SettledIsOver, CallStages,
           ActiveStatus, EndStatus, Answers, Running, Restart, Interrupted,
           ForgetMonitors
  <1>6. OwnedIsRecorded'
    BY DEF LaunchIInv, LaunchTypes, CallThenMonitor, CallIsRecorded, WatchIsRecorded,
           SettledIsOver, OwnedIsRecorded, CallStages, ActiveStatus, EndStatus,
           Answers, Running, Restart, Interrupted, ForgetMonitors
  <1>7. OneActiveRow'
    BY DEF LaunchIInv, LaunchTypes, CallThenMonitor, CallIsRecorded, WatchIsRecorded,
           OneActiveRow, CallStages, ActiveStatus, EndStatus, Answers, Restart,
           Interrupted, ForgetMonitors
  <1>8. StopIsMarked'
    BY DEF LaunchIInv, LaunchTypes, CallThenMonitor, CallIsRecorded, WatchIsRecorded,
           StopIsMarked, CallStages, ActiveStatus, EndStatus, Answers, Stopped,
           Restart, Interrupted, ForgetMonitors
  <1>9. QED
    BY <1>1, <1>2, <1>3, <1>4, <1>5, <1>6, <1>7, <1>8 DEF LaunchIInv

LEMMA LaunchInductive == LaunchSpec => []LaunchIInv
  <1>1. LaunchInit => LaunchIInv
    BY DEF LaunchInit, LaunchIInv, LaunchTypes, CallThenMonitor, CallIsRecorded,
           WatchIsRecorded, SettledIsOver, OwnedIsRecorded, OneActiveRow, StopIsMarked,
           CallStages, ActiveStatus, EndStatus, Answers, Stopped, Running
  <1>2. ASSUME LaunchIInv, [LaunchNext]_launchVars PROVE LaunchIInv'
    <2>1. ASSUME NEW a \in Attempts, CallStep(a) PROVE LaunchIInv'
      BY <1>2, <2>1, ExecuteKeeps, RecordRunningKeeps, UndoProcessKeeps, SpawnMonitorKeeps,
         RegisterKeeps, StartMonitorKeeps DEF CallStep
    <2>2. ASSUME NEW a \in Attempts, MonitorStep(a) PROVE LaunchIInv'
      BY <1>2, <2>2, TakeCommandKeeps, PollKeeps, SettleKeeps, LeaveMapKeeps DEF MonitorStep
    <2>3. ASSUME NEW a \in Attempts, StopStep(a) PROVE LaunchIInv'
      BY <1>2, <2>3, FindMonitorKeeps, SendStopKeeps, StopTimesOutKeeps, AnswerStopKeeps
         DEF StopStep
    <2>4. CASE UNCHANGED launchVars
      BY <1>2, <2>4 DEF launchVars, LaunchIInv, LaunchTypes, CallThenMonitor, CallIsRecorded,
           WatchIsRecorded, SettledIsOver, OwnedIsRecorded, OneActiveRow, StopIsMarked, Running
    <2>5. QED
      BY <1>2, <2>1, <2>2, <2>3, <2>4, LaunchKeeps, ExitKeeps, RestartKeeps DEF LaunchNext
  <1>3. QED
    BY <1>1, <1>2, PTL DEF LaunchSpec

\* OneOwnedProcess: an installation never runs twice under the launcher's eyes.  Two
\* processes that are both the launcher's would have two active rows, and
\* begin_launch_activity refuses the second.
THEOREM OneProcessAtATime == LaunchSpec => []OneOwnedProcess
  <1>1. LaunchIInv => OneOwnedProcess
    BY DEF LaunchIInv, OwnedIsRecorded, OneActiveRow, OneOwnedProcess
  <1> QED BY <1>1, LaunchInductive, PTL

\* StopIsRecorded, the safety part of StopIsFinal: a stop that was answered is in the
\* history, and the launch is never shown as if the game had exited on its own.
THEOREM StopStaysRecorded == LaunchSpec => []StopIsRecorded
  <1>1. LaunchIInv => StopIsRecorded
    BY DEF LaunchIInv, StopIsMarked, Stopped, StopIsRecorded
  <1> QED BY <1>1, LaunchInductive, PTL

\* The rows, threads, channels and processes are well typed and within their bounds.
THEOREM LaunchTypeCorrect ==
    ASSUME LastSaves \in Nat \ {0}, MaxLaunchFaults \in Nat, MaxRestarts \in Nat
    PROVE  LaunchSpec => []LaunchTypeOK
  <1> DEFINE Counted == /\ launchFaults \in 0..MaxLaunchFaults /\ restarts \in 0..MaxRestarts
                        /\ tries \in [Attempts -> 0..(LastSaves - 1)]
  <1>1. LaunchInit => Counted
    BY DEF LaunchInit
  <1>2. ASSUME Counted, [LaunchNext]_launchVars PROVE Counted'
    <2>1. ASSUME NEW a \in Attempts, Launch(a) \/ CallStep(a) PROVE Counted'
      BY <1>2, <2>1 DEF Launch, CallStep, Execute, RecordRunning, UndoProcess, SpawnMonitor,
           Register, StartMonitor, Reap, LaunchFault, NoLaunchFault, launchRest
    <2>2. ASSUME NEW a \in Attempts, TakeCommand(a) \/ Poll(a) PROVE Counted'
      BY <1>2, <2>2 DEF TakeCommand, Poll, LaunchFault, NoLaunchFault
    <2>3. ASSUME NEW a \in Attempts, Settle(a) \/ LeaveMap(a) PROVE Counted'
      BY <1>2, <2>3 DEF Settle, LeaveMap, ForgetMonitors, LaunchFault, NoLaunchFault
    <2>4. ASSUME NEW a \in Attempts, StopStep(a) \/ Exit(a) PROVE Counted'
      BY <1>2, <2>4 DEF StopStep, FindMonitor, SendStop, StopTimesOut, AnswerStop, Exit, stopRest
    <2>5. CASE Restart
      BY <1>2, <2>5 DEF Restart, ForgetMonitors
    <2>6. CASE UNCHANGED launchVars
      BY <1>2, <2>6 DEF launchVars
    <2>7. QED
      BY <1>2, <2>1, <2>2, <2>3, <2>4, <2>5, <2>6 DEF LaunchNext, MonitorStep
  <1>3. LaunchIInv /\ Counted => LaunchTypeOK
    BY DEF LaunchIInv, LaunchTypes, LaunchTypeOK, CallStages
  <1>4. QED
    BY <1>1, <1>2, <1>3, LaunchInductive, PTL DEF LaunchSpec

-----------------------------------------------------------------------------
(* ScanInstalls: the inductive invariant.                                  *)

InstallStages == {"prepare", "unpack", "check", "read", "confirm", "forget", "record"}

InstallTypes ==
    /\ library \in [Works -> {"absent", "archive", "reviewed"}]
    /\ status \in [Works -> Settled \cup Active \cup {None}]
    /\ queue \in Seq(Works)
    /\ adding \in [Works -> {"idle", "enqueue", "kick"}]
    /\ forgetting \subseteq Works /\ kept \subseteq Works /\ late \subseteq Works
    /\ worker \in BOOLEAN /\ cancelled \in BOOLEAN
    /\ stage \in InstallStages \cup {"off", "next", "leave"}
    /\ cur \in Works \cup {None} /\ result \in Settled \cup {None}
    /\ looking \in Nat /\ retaking \in Nat
    /\ slot \in {"free", "worker", "other"}

\* The flag keeps the worker single, and it works on the work it took.
OneInstall ==
    /\ ~worker => stage = "off"
    /\ stage \in InstallStages => cur \in Works /\ status[cur] = "installing"

\* A work waits in the queue once, and is listed as waiting.
QueuedOnce ==
    /\ \A i \in 1..Len(queue) : status[queue[i]] = "queued"
    /\ \A i, j \in 1..Len(queue) : queue[i] = queue[j] => i = j

\* The row of a work goes before its install is listed as cancelled.
GoneBeforeListed ==
    stage = "record" /\ result = "cancelled" /\ cur \notin kept \cup late =>
        library[cur] = "absent"

\* Until the work is queued again, an add does not show in the list.
CancelledIsGoneStill ==
    \A w \in Works :
        /\ status[w] = "cancelled" /\ adding[w] # "enqueue"
        /\ w \notin forgetting \cup kept \cup late
        => library[w] = "absent"

InstallIInv ==
    /\ InstallTypes /\ OneInstall /\ QueuedOnce /\ GoneBeforeListed /\ CancelledIsGoneStill

\* What RemoveAt leaves of a sequence.
LEMMA RemoveAtProperties ==
    ASSUME NEW S, NEW s \in Seq(S), NEW i \in 1..Len(s)
    PROVE  /\ RemoveAt(s, i) \in Seq(S) /\ Len(RemoveAt(s, i)) = Len(s) - 1
           /\ \A j \in 1..(Len(s) - 1) :
                RemoveAt(s, i)[j] = s[IF j < i THEN j ELSE j + 1]
  <1> DEFINE before == SubSeq(s, 1, i - 1)
             after == SubSeq(s, i + 1, Len(s))
  <1>1. /\ before \in Seq(S) /\ Len(before) = i - 1
        /\ \A j \in 1..(i - 1) : before[j] = s[j]
    <2>1. \A j \in 1..(i - 1) : s[j] \in S
      BY ElementOfSeq
    <2>2. QED
      BY <2>1, SubSeqProperties
  <1>2. /\ after \in Seq(S) /\ Len(after) = Len(s) - i
        /\ \A j \in 1..(Len(s) - i) : after[j] = s[i + j]
    <2>1. \A j \in (i + 1)..Len(s) : s[j] \in S
      BY ElementOfSeq
    <2>2. /\ after \in Seq(S) /\ Len(after) = IF i + 1 <= Len(s) THEN Len(s) - (i + 1) + 1 ELSE 0
          /\ \A j \in 1..(Len(s) - (i + 1) + 1) : after[j] = s[i + 1 + j - 1]
      BY <2>1, SubSeqProperties, LenProperties
    <2>3. QED
      BY <2>2, LenProperties
  <1> HIDE DEF before, after
  <1>3. RemoveAt(s, i) = before \o after
    BY DEF RemoveAt, before, after
  <1>4. /\ before \o after \in Seq(S) /\ Len(before \o after) = Len(before) + Len(after)
        /\ \A j \in 1..(Len(before) + Len(after)) : (before \o after)[j] =
             IF j <= Len(before) THEN before[j] ELSE after[j - Len(before)]
    BY <1>1, <1>2, ConcatProperties
  <1>5. Len(s) \in Nat
    BY LenProperties
  <1>6. Len(before) + Len(after) = Len(s) - 1
    BY <1>1, <1>2, <1>5
  <1>7. ASSUME NEW j \in 1..(Len(s) - 1)
        PROVE  RemoveAt(s, i)[j] = s[IF j < i THEN j ELSE j + 1]
    <2>1. CASE j < i
      BY <1>1, <1>3, <1>4, <1>5, <1>6, <2>1
    <2>2. CASE ~(j < i)
      <3>1. j - (i - 1) \in 1..(Len(s) - i) /\ i + (j - (i - 1)) = j + 1
        BY <1>5, <2>2
      <3>2. after[j - (i - 1)] = s[j + 1]
        BY <1>2, <3>1
      <3>3. QED
        BY <1>1, <1>3, <1>4, <1>5, <1>6, <2>2, <3>2
    <2>3. QED
      BY <2>1, <2>2
  <1>8. QED
    BY <1>3, <1>4, <1>6, <1>7

\* An add writes the row and waits to queue the work.
LEMMA AddKeeps ==
    ASSUME InstallIInv, NEW w \in Works, Add(w)
    PROVE  InstallIInv'
  <1>1. InstallTypes'
    BY DEF InstallIInv, InstallTypes, OneInstall, Settled, InstallStages, Add, threads
  <1>2. OneInstall'
    BY DEF InstallIInv, InstallTypes, OneInstall, InstallStages, Add, threads
  <1>3. QueuedOnce'
    BY DEF InstallIInv, InstallTypes, OneInstall, QueuedOnce, InstallStages, Add,
           threads
  <1>4. GoneBeforeListed'
    BY DEF InstallIInv, InstallTypes, OneInstall, GoneBeforeListed, InstallStages, Add,
           threads
  <1>5. CancelledIsGoneStill'
    BY DEF InstallIInv, InstallTypes, OneInstall, GoneBeforeListed,
           CancelledIsGoneStill, InstallStages, Active, Add, threads
  <1>6. QED
    BY <1>1, <1>2, <1>3, <1>4, <1>5 DEF InstallIInv

\* A work that is queued is not in the queue yet, and no longer listed as cancelled.
LEMMA EnqueueKeeps ==
    ASSUME InstallIInv, NEW w \in Works, Enqueue(w)
    PROVE  InstallIInv'
  <1>1. InstallTypes'
    <2>1. Append(queue, w) \in Seq(Works)
      BY AppendProperties DEF InstallIInv, InstallTypes
    <2>2. QED
      BY <2>1 DEF InstallIInv, InstallTypes, Active, Enqueue, threads
  <1>2. OneInstall'
    BY DEF InstallIInv, InstallTypes, OneInstall, InstallStages, Enqueue, Active,
           threads
  <1>3. QueuedOnce'
    <2>1. CASE status[w] \in Active
      BY <2>1 DEF InstallIInv, QueuedOnce, Enqueue
    <2>2. CASE status[w] \notin Active
      <3>1. /\ Len(Append(queue, w)) = Len(queue) + 1 /\ Len(queue) \in Nat
            /\ \A i \in 1..Len(queue) : Append(queue, w)[i] = queue[i]
            /\ Append(queue, w)[Len(queue) + 1] = w
        BY AppendProperties, LenProperties DEF InstallIInv, InstallTypes
      <3>2. \A i \in 1..Len(queue) : queue[i] \in Works /\ queue[i] # w
        BY <2>2, ElementOfSeq DEF InstallIInv, InstallTypes, QueuedOnce, Active
      <3>3. \A i \in 1..(Len(queue) + 1) : i \in 1..Len(queue) \/ i = Len(queue) + 1
        BY <3>1
      <3>4. /\ queue' = Append(queue, w)
            /\ status' = [status EXCEPT ![w] = "queued"]
        BY <2>2 DEF Enqueue
      <3>5. \A i \in 1..Len(queue') : status'[queue'[i]] = "queued"
        BY <3>1, <3>2, <3>3, <3>4 DEF InstallIInv, InstallTypes, QueuedOnce
      <3>6. \A i, j \in 1..Len(queue') : queue'[i] = queue'[j] => i = j
        BY <3>1, <3>2, <3>3, <3>4 DEF InstallIInv, QueuedOnce
      <3>7. QED
        BY <3>5, <3>6 DEF QueuedOnce
    <2>3. QED
      BY <2>1, <2>2
  <1>4. GoneBeforeListed'
    BY DEF InstallIInv, InstallTypes, OneInstall, GoneBeforeListed, InstallStages,
           Enqueue, Active, threads
  <1>5. CancelledIsGoneStill'
    BY DEF InstallIInv, InstallTypes, OneInstall, GoneBeforeListed,
           CancelledIsGoneStill, InstallStages, Enqueue, Active, threads
  <1>6. QED
    BY <1>1, <1>2, <1>3, <1>4, <1>5 DEF InstallIInv

LEMMA KickKeeps ==
    ASSUME InstallIInv, NEW w \in Works, Kick(w)
    PROVE  InstallIInv'
  <1>1. InstallTypes'
    BY DEF InstallIInv, InstallTypes, OneInstall, Settled, InstallStages, Kick
  <1>2. OneInstall'
    BY DEF InstallIInv, InstallTypes, OneInstall, InstallStages, Kick
  <1>3. QueuedOnce'
    BY DEF InstallIInv, InstallTypes, OneInstall, QueuedOnce, InstallStages, Kick
  <1>4. GoneBeforeListed'
    BY DEF InstallIInv, InstallTypes, OneInstall, GoneBeforeListed, InstallStages, Kick
  <1>5. CancelledIsGoneStill'
    BY DEF InstallIInv, InstallTypes, OneInstall, GoneBeforeListed,
           CancelledIsGoneStill, InstallStages, Active, Kick
  <1>6. QED
    BY <1>1, <1>2, <1>3, <1>4, <1>5 DEF InstallIInv

LEMMA ForgetKeeps ==
    ASSUME InstallIInv, NEW w \in Works, Forget(w)
    PROVE  InstallIInv'
  <1>1. InstallTypes'
    BY DEF InstallIInv, InstallTypes, OneInstall, Settled, InstallStages, Forget,
           RemoveRow, Fault, NoFault, threads
  <1>2. OneInstall'
    BY DEF InstallIInv, InstallTypes, OneInstall, InstallStages, Forget, RemoveRow,
           Fault, NoFault, threads
  <1>3. QueuedOnce'
    BY DEF InstallIInv, InstallTypes, OneInstall, QueuedOnce, InstallStages, Forget,
           RemoveRow, Fault, NoFault, threads
  <1>4. GoneBeforeListed'
    BY DEF InstallIInv, InstallTypes, OneInstall, GoneBeforeListed, InstallStages,
           Forget, RemoveRow, Fault, NoFault, threads
  <1>5. CancelledIsGoneStill'
    BY DEF InstallIInv, InstallTypes, OneInstall, GoneBeforeListed,
           CancelledIsGoneStill, InstallStages, Active, Forget, RemoveRow, Fault,
           NoFault, threads
  <1>6. QED
    BY <1>1, <1>2, <1>3, <1>4, <1>5 DEF InstallIInv

LEMMA RemoveByUserKeeps ==
    ASSUME InstallIInv, NEW w \in Works, RemoveByUser(w)
    PROVE  InstallIInv'
  <1>1. InstallTypes'
    BY DEF InstallIInv, InstallTypes, OneInstall, Settled, InstallStages, RemoveByUser,
           threads
  <1>2. OneInstall'
    BY DEF InstallIInv, InstallTypes, OneInstall, InstallStages, RemoveByUser, threads
  <1>3. QueuedOnce'
    BY DEF InstallIInv, InstallTypes, OneInstall, QueuedOnce, InstallStages,
           RemoveByUser, threads
  <1>4. GoneBeforeListed'
    BY DEF InstallIInv, InstallTypes, OneInstall, GoneBeforeListed, InstallStages,
           RemoveByUser, threads
  <1>5. CancelledIsGoneStill'
    BY DEF InstallIInv, InstallTypes, OneInstall, GoneBeforeListed,
           CancelledIsGoneStill, InstallStages, Active, RemoveByUser, threads
  <1>6. QED
    BY <1>1, <1>2, <1>3, <1>4, <1>5 DEF InstallIInv

\* The first of the queue is taken, and no other place of the queue holds it.
LEMMA TakeNextKeeps ==
    ASSUME InstallIInv, TakeNext
    PROVE  InstallIInv'
  <1>1. InstallTypes'
    <2>1. CASE queue = <<>>
      BY <2>1 DEF InstallIInv, InstallTypes, InstallStages, TakeNext
    <2>2. CASE queue # <<>>
      <3>1. Head(queue) \in Works /\ Tail(queue) \in Seq(Works)
        BY <2>2, HeadTailProperties DEF InstallIInv, InstallTypes
      <3>2. QED
        BY <2>2, <3>1 DEF InstallIInv, InstallTypes, InstallStages, Active, TakeNext
    <2>3. QED
      BY <2>1, <2>2
  <1>2. OneInstall'
    BY DEF InstallIInv, InstallTypes, OneInstall, InstallStages, TakeNext
  <1>3. QueuedOnce'
    <2>1. CASE queue = <<>>
      BY <2>1 DEF InstallIInv, QueuedOnce, TakeNext
    <2>2. CASE queue # <<>>
      <3>1. /\ Tail(queue) \in Seq(Works) /\ Len(Tail(queue)) = Len(queue) - 1
            /\ \A i \in 1..Len(Tail(queue)) : Tail(queue)[i] = queue[i + 1]
            /\ Len(queue) \in Nat /\ Len(queue) # 0
        BY <2>2, HeadTailProperties, LenProperties, EmptySeq DEF InstallIInv, InstallTypes
      <3>2. Head(queue) = queue[1]
        BY <2>2 DEF InstallIInv, InstallTypes
      <3>3. \A i \in 1..Len(Tail(queue)) :
              /\ i + 1 \in 1..Len(queue) /\ queue[i + 1] \in Works
              /\ queue[i + 1] # Head(queue)
        BY <3>1, <3>2, ElementOfSeq DEF InstallIInv, InstallTypes, QueuedOnce
      <3>4. /\ queue' = Tail(queue) /\ Head(queue) \in Works
            /\ status' = [status EXCEPT ![Head(queue)] = "installing"]
        BY <2>2, HeadTailProperties DEF InstallIInv, InstallTypes, TakeNext
      <3>5. \A i \in 1..Len(queue') : status'[queue'[i]] = "queued"
        BY <3>1, <3>3, <3>4 DEF InstallIInv, InstallTypes, QueuedOnce
      <3>6. \A i, j \in 1..Len(queue') : queue'[i] = queue'[j] => i = j
        <4>1. \A i, j \in 1..Len(queue') : queue[i + 1] = queue[j + 1] => i + 1 = j + 1
          BY <3>1, <3>3, <3>4 DEF InstallIInv, QueuedOnce
        <4>2. \A i, j \in 1..Len(queue') : i + 1 = j + 1 => i = j
          BY <3>1
        <4>3. \A i \in 1..Len(queue') : queue'[i] = queue[i + 1]
          BY <3>1, <3>4
        <4>4. QED
          BY <4>1, <4>2, <4>3
      <3>7. QED
        BY <3>5, <3>6 DEF QueuedOnce
    <2>3. QED
      BY <2>1, <2>2
  <1>4. GoneBeforeListed'
    BY DEF InstallIInv, InstallTypes, OneInstall, GoneBeforeListed, InstallStages,
           TakeNext
  <1>5. CancelledIsGoneStill'
    BY DEF InstallIInv, InstallTypes, OneInstall, GoneBeforeListed,
           CancelledIsGoneStill, InstallStages, Active, TakeNext
  <1>6. QED
    BY <1>1, <1>2, <1>3, <1>4, <1>5 DEF InstallIInv

LEMMA PrepareKeeps ==
    ASSUME InstallIInv, Prepare
    PROVE  InstallIInv'
  <1>1. InstallTypes'
    BY DEF InstallIInv, InstallTypes, OneInstall, Settled, InstallStages, Prepare,
           EndWith, Fault, NoFault, workRest
  <1>2. OneInstall'
    BY DEF InstallIInv, InstallTypes, OneInstall, InstallStages, Prepare, EndWith,
           Fault, NoFault, workRest
  <1>3. QueuedOnce'
    BY DEF InstallIInv, InstallTypes, OneInstall, QueuedOnce, InstallStages, Prepare,
           EndWith, Fault, NoFault, workRest
  <1>4. GoneBeforeListed'
    BY DEF InstallIInv, InstallTypes, OneInstall, GoneBeforeListed, InstallStages,
           Prepare, EndWith, Fault, NoFault, workRest
  <1>5. CancelledIsGoneStill'
    BY DEF InstallIInv, InstallTypes, OneInstall, GoneBeforeListed,
           CancelledIsGoneStill, InstallStages, Active, Prepare, EndWith, Fault,
           NoFault, workRest
  <1>6. QED
    BY <1>1, <1>2, <1>3, <1>4, <1>5 DEF InstallIInv

LEMMA UnpackKeeps ==
    ASSUME InstallIInv, Unpack
    PROVE  InstallIInv'
  <1>1. InstallTypes'
    BY DEF InstallIInv, InstallTypes, OneInstall, Settled, InstallStages, Unpack,
           EndWith, Fault, NoFault, workRest
  <1>2. OneInstall'
    BY DEF InstallIInv, InstallTypes, OneInstall, InstallStages, Unpack, EndWith,
           Fault, NoFault, workRest
  <1>3. QueuedOnce'
    BY DEF InstallIInv, InstallTypes, OneInstall, QueuedOnce, InstallStages, Unpack,
           EndWith, Fault, NoFault, workRest
  <1>4. GoneBeforeListed'
    BY DEF InstallIInv, InstallTypes, OneInstall, GoneBeforeListed, InstallStages,
           Unpack, EndWith, Fault, NoFault, workRest
  <1>5. CancelledIsGoneStill'
    BY DEF InstallIInv, InstallTypes, OneInstall, GoneBeforeListed,
           CancelledIsGoneStill, InstallStages, Active, Unpack, EndWith, Fault,
           NoFault, workRest
  <1>6. QED
    BY <1>1, <1>2, <1>3, <1>4, <1>5 DEF InstallIInv

LEMMA CheckCancelledKeeps ==
    ASSUME InstallIInv, CheckCancelled
    PROVE  InstallIInv'
  <1>1. InstallTypes'
    BY DEF InstallIInv, InstallTypes, OneInstall, Settled, InstallStages,
           CheckCancelled, EndWith, workRest
  <1>2. OneInstall'
    BY DEF InstallIInv, InstallTypes, OneInstall, InstallStages, CheckCancelled,
           EndWith, workRest
  <1>3. QueuedOnce'
    BY DEF InstallIInv, InstallTypes, OneInstall, QueuedOnce, InstallStages,
           CheckCancelled, EndWith, workRest
  <1>4. GoneBeforeListed'
    BY DEF InstallIInv, InstallTypes, OneInstall, GoneBeforeListed, InstallStages,
           CheckCancelled, EndWith, workRest
  <1>5. CancelledIsGoneStill'
    BY DEF InstallIInv, InstallTypes, OneInstall, GoneBeforeListed,
           CancelledIsGoneStill, InstallStages, Active, CheckCancelled, EndWith,
           workRest
  <1>6. QED
    BY <1>1, <1>2, <1>3, <1>4, <1>5 DEF InstallIInv

LEMMA ReadRowKeeps ==
    ASSUME InstallIInv, ReadRow
    PROVE  InstallIInv'
  <1>1. InstallTypes'
    BY DEF InstallIInv, InstallTypes, OneInstall, Settled, InstallStages, ReadRow,
           EndWith, Fault, NoFault, workRest
  <1>2. OneInstall'
    BY DEF InstallIInv, InstallTypes, OneInstall, InstallStages, ReadRow, EndWith,
           Fault, NoFault, workRest
  <1>3. QueuedOnce'
    BY DEF InstallIInv, InstallTypes, OneInstall, QueuedOnce, InstallStages, ReadRow,
           EndWith, Fault, NoFault, workRest
  <1>4. GoneBeforeListed'
    BY DEF InstallIInv, InstallTypes, OneInstall, GoneBeforeListed, InstallStages,
           ReadRow, EndWith, Fault, NoFault, workRest
  <1>5. CancelledIsGoneStill'
    BY DEF InstallIInv, InstallTypes, OneInstall, GoneBeforeListed,
           CancelledIsGoneStill, InstallStages, Active, ReadRow, EndWith, Fault,
           NoFault, workRest
  <1>6. QED
    BY <1>1, <1>2, <1>3, <1>4, <1>5 DEF InstallIInv

LEMMA ConfirmKeeps ==
    ASSUME InstallIInv, Confirm
    PROVE  InstallIInv'
  <1>1. InstallTypes'
    BY DEF InstallIInv, InstallTypes, OneInstall, Settled, InstallStages, Confirm,
           EndWith, Fault, NoFault, workRest
  <1>2. OneInstall'
    BY DEF InstallIInv, InstallTypes, OneInstall, InstallStages, Confirm, EndWith,
           Fault, NoFault, workRest
  <1>3. QueuedOnce'
    BY DEF InstallIInv, InstallTypes, OneInstall, QueuedOnce, InstallStages, Confirm,
           EndWith, Fault, NoFault, workRest
  <1>4. GoneBeforeListed'
    BY DEF InstallIInv, InstallTypes, OneInstall, GoneBeforeListed, InstallStages,
           Confirm, EndWith, Fault, NoFault, workRest
  <1>5. CancelledIsGoneStill'
    BY DEF InstallIInv, InstallTypes, OneInstall, GoneBeforeListed,
           CancelledIsGoneStill, InstallStages, Active, Confirm, EndWith, Fault,
           NoFault, workRest
  <1>6. QED
    BY <1>1, <1>2, <1>3, <1>4, <1>5 DEF InstallIInv

LEMMA ForgetRunningKeeps ==
    ASSUME InstallIInv, ForgetRunning
    PROVE  InstallIInv'
  <1>1. InstallTypes'
    BY DEF InstallIInv, InstallTypes, OneInstall, Settled, InstallStages,
           ForgetRunning, RemoveRow, Fault, NoFault, workRest
  <1>2. OneInstall'
    BY DEF InstallIInv, InstallTypes, OneInstall, InstallStages, ForgetRunning,
           RemoveRow, Fault, NoFault, workRest
  <1>3. QueuedOnce'
    BY DEF InstallIInv, InstallTypes, OneInstall, QueuedOnce, InstallStages,
           ForgetRunning, RemoveRow, Fault, NoFault, workRest
  <1>4. GoneBeforeListed'
    BY DEF InstallIInv, InstallTypes, OneInstall, GoneBeforeListed, InstallStages,
           ForgetRunning, RemoveRow, Fault, NoFault, workRest
  <1>5. CancelledIsGoneStill'
    BY DEF InstallIInv, InstallTypes, OneInstall, GoneBeforeListed,
           CancelledIsGoneStill, InstallStages, Active, ForgetRunning, RemoveRow,
           Fault, NoFault, workRest
  <1>6. QED
    BY <1>1, <1>2, <1>3, <1>4, <1>5 DEF InstallIInv

LEMMA RecordKeeps ==
    ASSUME InstallIInv, Record
    PROVE  InstallIInv'
  <1>1. InstallTypes'
    BY DEF InstallIInv, InstallTypes, OneInstall, Settled, InstallStages, Record,
           workRest
  <1>2. OneInstall'
    BY DEF InstallIInv, InstallTypes, OneInstall, InstallStages, Record, workRest
  <1>3. QueuedOnce'
    BY DEF InstallIInv, InstallTypes, OneInstall, QueuedOnce, InstallStages, Record,
           workRest
  <1>4. GoneBeforeListed'
    BY DEF InstallIInv, InstallTypes, OneInstall, GoneBeforeListed, InstallStages,
           Record, workRest
  <1>5. CancelledIsGoneStill'
    BY DEF InstallIInv, InstallTypes, OneInstall, GoneBeforeListed,
           CancelledIsGoneStill, InstallStages, Active, Record, workRest
  <1>6. QED
    BY <1>1, <1>2, <1>3, <1>4, <1>5 DEF InstallIInv

LEMMA LeaveKeeps ==
    ASSUME InstallIInv, Leave
    PROVE  InstallIInv'
  <1>1. InstallTypes'
    <2>1. looking + 1 \in Nat
      BY DEF InstallIInv, InstallTypes
    <2>2. QED
      BY <2>1 DEF InstallIInv, InstallTypes, InstallStages, Leave
  <1>2. OneInstall'
    BY DEF InstallIInv, InstallTypes, OneInstall, InstallStages, Leave
  <1>3. QueuedOnce'
    BY DEF InstallIInv, InstallTypes, OneInstall, QueuedOnce, InstallStages, Leave
  <1>4. GoneBeforeListed'
    BY DEF InstallIInv, InstallTypes, OneInstall, GoneBeforeListed, InstallStages, Leave
  <1>5. CancelledIsGoneStill'
    BY DEF InstallIInv, InstallTypes, OneInstall, GoneBeforeListed,
           CancelledIsGoneStill, InstallStages, Active, Leave
  <1>6. QED
    BY <1>1, <1>2, <1>3, <1>4, <1>5 DEF InstallIInv

LEMMA LookAgainKeeps ==
    ASSUME InstallIInv, LookAgain
    PROVE  InstallIInv'
  <1>1. InstallTypes'
    BY DEF InstallIInv, InstallTypes, OneInstall, Settled, InstallStages, LookAgain
  <1>2. OneInstall'
    BY DEF InstallIInv, InstallTypes, OneInstall, InstallStages, LookAgain
  <1>3. QueuedOnce'
    BY DEF InstallIInv, InstallTypes, OneInstall, QueuedOnce, InstallStages, LookAgain
  <1>4. GoneBeforeListed'
    BY DEF InstallIInv, InstallTypes, OneInstall, GoneBeforeListed, InstallStages,
           LookAgain
  <1>5. CancelledIsGoneStill'
    BY DEF InstallIInv, InstallTypes, OneInstall, GoneBeforeListed,
           CancelledIsGoneStill, InstallStages, Active, LookAgain
  <1>6. QED
    BY <1>1, <1>2, <1>3, <1>4, <1>5 DEF InstallIInv

LEMMA RetakeKeeps ==
    ASSUME InstallIInv, Retake
    PROVE  InstallIInv'
  <1>1. InstallTypes'
    <2>1. retaking - 1 \in Nat
      BY DEF InstallIInv, InstallTypes, Retake
    <2>2. QED
      BY <2>1 DEF InstallIInv, InstallTypes, InstallStages, Retake
  <1>2. OneInstall'
    BY DEF InstallIInv, InstallTypes, OneInstall, InstallStages, Retake
  <1>3. QueuedOnce'
    BY DEF InstallIInv, InstallTypes, OneInstall, QueuedOnce, InstallStages, Retake
  <1>4. GoneBeforeListed'
    BY DEF InstallIInv, InstallTypes, OneInstall, GoneBeforeListed, InstallStages,
           Retake
  <1>5. CancelledIsGoneStill'
    BY DEF InstallIInv, InstallTypes, OneInstall, GoneBeforeListed,
           CancelledIsGoneStill, InstallStages, Active, Retake
  <1>6. QED
    BY <1>1, <1>2, <1>3, <1>4, <1>5 DEF InstallIInv

LEMMA StartOtherKeeps ==
    ASSUME InstallIInv, StartOther
    PROVE  InstallIInv'
  <1>1. InstallTypes'
    BY DEF InstallIInv, InstallTypes, OneInstall, Settled, InstallStages, StartOther,
           otherRest, threads
  <1>2. OneInstall'
    BY DEF InstallIInv, InstallTypes, OneInstall, InstallStages, StartOther, otherRest,
           threads
  <1>3. QueuedOnce'
    BY DEF InstallIInv, InstallTypes, OneInstall, QueuedOnce, InstallStages,
           StartOther, otherRest, threads
  <1>4. GoneBeforeListed'
    BY DEF InstallIInv, InstallTypes, OneInstall, GoneBeforeListed, InstallStages,
           StartOther, otherRest, threads
  <1>5. CancelledIsGoneStill'
    BY DEF InstallIInv, InstallTypes, OneInstall, GoneBeforeListed,
           CancelledIsGoneStill, InstallStages, Active, StartOther, otherRest, threads
  <1>6. QED
    BY <1>1, <1>2, <1>3, <1>4, <1>5 DEF InstallIInv

LEMMA FinishOtherKeeps ==
    ASSUME InstallIInv, FinishOther
    PROVE  InstallIInv'
  <1>1. InstallTypes'
    BY DEF InstallIInv, InstallTypes, OneInstall, Settled, InstallStages, FinishOther,
           otherRest, threads
  <1>2. OneInstall'
    BY DEF InstallIInv, InstallTypes, OneInstall, InstallStages, FinishOther,
           otherRest, threads
  <1>3. QueuedOnce'
    BY DEF InstallIInv, InstallTypes, OneInstall, QueuedOnce, InstallStages,
           FinishOther, otherRest, threads
  <1>4. GoneBeforeListed'
    BY DEF InstallIInv, InstallTypes, OneInstall, GoneBeforeListed, InstallStages,
           FinishOther, otherRest, threads
  <1>5. CancelledIsGoneStill'
    BY DEF InstallIInv, InstallTypes, OneInstall, GoneBeforeListed,
           CancelledIsGoneStill, InstallStages, Active, FinishOther, otherRest, threads
  <1>6. QED
    BY <1>1, <1>2, <1>3, <1>4, <1>5 DEF InstallIInv

\* A cancelled work leaves the queue where it stood, and is forgotten next.
LEMMA CancelKeeps ==
    ASSUME InstallIInv, NEW w \in Works, Cancel(w)
    PROVE  InstallIInv'
  <1>1. ASSUME NEW i \in 1..Len(queue), queue[i] = w, queue' = RemoveAt(queue, i),
               status' = [status EXCEPT ![w] = "cancelled"],
               forgetting' = forgetting \cup {w},
               UNCHANGED <<cancelled, library, adding, worker, stage, cur, result, looking,
                           retaking, slot, kept, late>>
        PROVE  InstallIInv'
    <2>1. /\ queue' \in Seq(Works) /\ Len(queue') = Len(queue) - 1
          /\ \A j \in 1..Len(queue') : queue'[j] = queue[IF j < i THEN j ELSE j + 1]
      BY <1>1, RemoveAtProperties DEF InstallIInv, InstallTypes
    <2>2. InstallTypes'
      BY <1>1, <2>1 DEF InstallIInv, InstallTypes, Settled, Active, None, InstallStages
    <2>3. OneInstall'
      BY <1>1 DEF InstallIInv, InstallTypes, OneInstall, QueuedOnce, InstallStages
    <2>4. QueuedOnce'
      <3>1. /\ \A j \in 1..Len(queue) : status[queue[j]] = "queued" /\ queue[j] \in Works
            /\ \A j, k \in 1..Len(queue) : queue[j] = queue[k] => j = k
            /\ Len(queue) \in Nat /\ status \in [Works -> Settled \cup Active \cup {None}]
        BY ElementOfSeq, LenProperties DEF InstallIInv, InstallTypes, QueuedOnce
      <3>2. \A j \in 1..Len(queue') :
              /\ (IF j < i THEN j ELSE j + 1) \in 1..Len(queue)
              /\ (IF j < i THEN j ELSE j + 1) # i
        BY <1>1, <2>1, <3>1
      <3>3. \A j \in 1..Len(queue') : status'[queue'[j]] = "queued"
        BY <1>1, <2>1, <3>1, <3>2
      <3>4. \A j, k \in 1..Len(queue') : queue'[j] = queue'[k] => j = k
        BY <1>1, <2>1, <3>1, <3>2
      <3>5. QED
        BY <3>3, <3>4 DEF QueuedOnce
    <2>5. GoneBeforeListed'
      BY <1>1 DEF InstallIInv, GoneBeforeListed
    <2>6. CancelledIsGoneStill'
      BY <1>1 DEF InstallIInv, InstallTypes, CancelledIsGoneStill
    <2>7. QED
      BY <2>2, <2>3, <2>4, <2>5, <2>6 DEF InstallIInv
  <1>2. ASSUME cancelled' = TRUE,
               UNCHANGED <<queue, status, forgetting, library, adding, worker, stage, cur,
                           result, looking, retaking, slot, kept, late>>
        PROVE  InstallIInv'
    BY <1>2 DEF InstallIInv, InstallTypes, OneInstall, QueuedOnce, GoneBeforeListed,
         CancelledIsGoneStill
  <1>3. QED
    BY <1>1, <1>2 DEF Cancel

LEMMA InstallInductive == InstallSpec => []InstallIInv
  <1>1. InstallInit => InstallIInv
    <2>1. << >> \in Seq(Works) /\ Len(<< >>) = 0
      BY EmptySeq
    <2>2. InstallInit => InstallTypes
      <3>1. InstallInit => queue \in Seq(Works)
        BY <2>1 DEF InstallInit
      <3>2. SUFFICES ASSUME InstallInit PROVE InstallTypes
        OBVIOUS
      <3>3. /\ library \in [Works -> {"absent", "archive", "reviewed"}]
            /\ status \in [Works -> Settled \cup Active \cup {None}]
            /\ adding \in [Works -> {"idle", "enqueue", "kick"}]
        BY <3>2 DEF InstallInit
      <3>4. QED
        BY <3>1, <3>2, <3>3 DEF InstallInit, InstallTypes
    <2>3. InstallInit => QueuedOnce
      BY <2>1 DEF InstallInit, QueuedOnce
    <2>4. InstallInit => OneInstall /\ GoneBeforeListed /\ CancelledIsGoneStill
      BY DEF InstallInit, OneInstall, GoneBeforeListed, CancelledIsGoneStill, InstallStages
    <2>5. QED
      BY <2>2, <2>3, <2>4 DEF InstallIInv
  <1>2. ASSUME InstallIInv, [InstallNext]_installVars PROVE InstallIInv'
    <2>1. ASSUME Worker PROVE InstallIInv'
      BY <1>2, <2>1, TakeNextKeeps, PrepareKeeps, UnpackKeeps, CheckCancelledKeeps,
         ReadRowKeeps, ConfirmKeeps, ForgetRunningKeeps, RecordKeeps, LeaveKeeps,
         LookAgainKeeps, RetakeKeeps DEF Worker, Holder
    <2>2. CASE UNCHANGED installVars
      BY <1>2, <2>2 DEF installVars, InstallIInv, InstallTypes, OneInstall, QueuedOnce,
           GoneBeforeListed, CancelledIsGoneStill
    <2>3. QED
      BY <1>2, <2>1, <2>2, AddKeeps, EnqueueKeeps, KickKeeps, CancelKeeps, ForgetKeeps,
         RemoveByUserKeeps, StartOtherKeeps, FinishOtherKeeps DEF InstallNext
  <1>3. QED
    BY <1>1, <1>2, PTL DEF InstallSpec

\* CancelledIsGone: a work whose install is listed as cancelled has left the library,
\* whichever of the cancel and the worker removed its row.
THEOREM CancelledWorkIsGone == InstallSpec => []CancelledIsGone
  <1>1. InstallIInv => CancelledIsGone
    BY DEF InstallIInv, CancelledIsGoneStill, CancelledIsGone
  <1> QED BY <1>1, InstallInductive, PTL

\* The list, the queue, the worker and the slot are well typed and within their bounds;
\* the queue never holds more than the works there are.
THEOREM InstallTypeCorrect ==
    ASSUME IsFiniteSet(Works), MaxAdds \in Nat, MaxOthers \in Nat, MaxFaults \in Nat
    PROVE  InstallSpec => []InstallTypeOK
  <1> DEFINE Counted == adds \in 0..MaxAdds /\ others \in 0..MaxOthers /\ faults \in 0..MaxFaults
  <1>1. InstallInit => Counted
    BY DEF InstallInit
  <1>2. ASSUME Counted, [InstallNext]_installVars PROVE Counted'
    <2>1. ASSUME NEW w \in Works, Add(w) \/ Enqueue(w) \/ Kick(w) \/ Cancel(w) \/ Forget(w)
                                  \/ RemoveByUser(w)
          PROVE  Counted'
      BY <1>2, <2>1 DEF Add, Enqueue, Kick, Cancel, Forget, RemoveByUser, RemoveRow, Fault, NoFault
    <2>2. CASE TakeNext \/ Prepare \/ Unpack \/ CheckCancelled \/ ReadRow
      BY <1>2, <2>2 DEF TakeNext, Prepare, Unpack, CheckCancelled, ReadRow, EndWith, workRest,
           Fault, NoFault
    <2>3. CASE Confirm \/ ForgetRunning \/ Record \/ Leave \/ LookAgain \/ Retake
      BY <1>2, <2>3 DEF Confirm, ForgetRunning, Record, Leave, LookAgain, Retake, RemoveRow,
           EndWith, workRest, Fault, NoFault
    <2>4. CASE StartOther \/ FinishOther
      BY <1>2, <2>4 DEF StartOther, FinishOther, otherRest
    <2>5. CASE UNCHANGED installVars
      BY <1>2, <2>5 DEF installVars
    <2>6. QED
      BY <1>2, <2>1, <2>2, <2>3, <2>4, <2>5 DEF InstallNext, Worker, Holder
  <1>3. InstallIInv => Len(queue) <= Cardinality(Works)
    <2>1. SUFFICES ASSUME InstallIInv PROVE Len(queue) <= Cardinality(Works)
      OBVIOUS
    <2>2. queue \in [1..Len(queue) -> Works] /\ Len(queue) \in Nat
      BY <2>1, LenProperties DEF InstallIInv, InstallTypes
    <2>3. queue \in Injection(1..Len(queue), Works)
      BY <2>1, <2>2 DEF InstallIInv, QueuedOnce, Injection, IsInjective
    <2>4. Cardinality(1..Len(queue)) <= Cardinality(Works)
      BY <2>3, FS_Injection
    <2>5. Cardinality(1..Len(queue)) = Len(queue)
      <3>1. 1 \in Int /\ Len(queue) \in Int
        BY <2>2
      <3>2. Cardinality(1..Len(queue)) = IF 1 > Len(queue) THEN 0 ELSE Len(queue) - 1 + 1
        BY ONLY <3>1, FS_Interval
      <3>3. QED
        BY <2>2, <3>2
    <2>6. QED
      BY <2>4, <2>5
  <1>4. InstallIInv /\ Counted => InstallTypeOK
    BY <1>3 DEF InstallIInv, InstallTypes, InstallTypeOK, InstallStages
  <1>5. QED
    BY <1>1, <1>2, <1>4, InstallInductive, PTL DEF InstallSpec

-----------------------------------------------------------------------------
(* AndroidPackages: the inductive invariant.                               *)

Broadcasts == {<<>>, <<"pending_user_action">>, <<"success">>, <<"aborted">>, <<"failure">>}
CallSteps == {"idle", "claim", "verify", "merge", "save", "observe", "start", "record"}
Uses == [selections : 0..MaxSelections, operations : 0..MaxOperations, rows : 0..MaxRows,
         outside : 0..MaxOutside, crashes : 0..MaxAppCrashes]
Statuses == [op : 0..MaxOperations, sel : 0..MaxSelections, session : 0..MaxOperations,
             state : {"none", "approval_required", "preparing", "awaiting_user_confirmation",
                      "installed", "cancelled", "failed"}, old : BOOLEAN]
Gates == [step : {"free", "choosing", "copied", "cleared", "renamed", "approving", "asked",
                  "preparing", "created"}, id : 0..MaxSelections, apk : Apks \cup {"none"}]
SystemSessions ==
    [phase : {"none", "open", "committed", "asked", "shown", "ended"},
     sel : 0..MaxSelections, apk : Apks \cup {"none"}]

PackageTypes ==
    /\ approved \in BOOLEAN
    /\ inspection \in [id : 0..MaxSelections, apk : Apks \cup {"none"}]
    /\ staged \subseteq 1..MaxSelections
    /\ installStatus \in Statuses /\ gate \in Gates
    /\ sessions \in [1..MaxOperations -> SystemSessions]
    /\ results \in [1..MaxOperations -> Broadcasts]
    /\ used \in Uses

AssociationTypes ==
    /\ installed \in [AppPackages -> Apks \cup {"none"}]
    /\ appRows \in [AppWorks -> [id : 0..MaxRows, apk : Apks \cup {"none"}]]
    /\ appCall \in [AppCallers ->
          [step : CallSteps, work : AppWorks \cup {"none"}, apk : Apks \cup {"none"},
           id : 0..MaxRows, started : Apks \cup {"none"}]]
    /\ reviewed \subseteq Apks \ BlockedApks

\* What the operation that holds the gate has in hand.
GateHolds ==
    /\ gate.step = "choosing" => used.selections < MaxSelections
    /\ gate.step \in {"copied", "cleared", "renamed"} => gate.id # 0 /\ gate.apk \in Apks
    /\ gate.step \in {"asked", "preparing", "created"} =>
          gate.id # 0 /\ gate.apk \in Apks \ BlockedApks /\ used.operations # 0
    /\ gate.step = "created" => sessions[used.operations].sel # 0

\* Selections are numbered in order, and what was selected is a file.
NumberedInOrder ==
    /\ inspection.id <= used.selections /\ gate.id <= used.selections
    /\ inspection.id # 0 => inspection.apk \in Apks
    /\ \A o \in 1..MaxOperations :
          /\ sessions[o].sel <= used.selections
          /\ sessions[o].sel # 0 => sessions[o].apk \in Apks \ BlockedApks
          /\ sessions[o].phase # "none" => sessions[o].sel # 0
          /\ results[o] # <<>> => sessions[o].phase # "none"

\* A number stands for the same file wherever it is kept.
OneFilePerSelection ==
    /\ inspection.id # 0 /\ gate.id = inspection.id => gate.apk = inspection.apk
    /\ \A o \in 1..MaxOperations : sessions[o].sel # 0 =>
          /\ sessions[o].sel = inspection.id => sessions[o].apk = inspection.apk
          /\ sessions[o].sel = gate.id => sessions[o].apk = gate.apk

\* "installed" is what a broadcast said of the file its session was made for.
InstalledWasReported ==
    installStatus.state = "installed" =>
        /\ installStatus.op # 0 /\ installStatus.sel # 0
        /\ sessions[installStatus.op].sel = installStatus.sel
        /\ sessions[installStatus.op].apk \in reviewed

\* Associations, and the commands about them, are of reviewed files.
AssociatedIsReviewed ==
    /\ \A w \in AppWorks : appRows[w].id # 0 => appRows[w].apk \in reviewed
    /\ \A c \in AppCallers : appCall[c].step # "idle" =>
          appCall[c].work \in AppWorks /\ appCall[c].apk \in reviewed

PackagesAgree ==
    /\ PackageTypes /\ GateHolds /\ NumberedInOrder /\ OneFilePerSelection
    /\ InstalledWasReported

AssociationsAgree == AssociationTypes /\ AssociatedIsReviewed /\ LaunchedIsReviewed

AppIInv == PackagesAgree /\ AssociationsAgree


LEMMA BoundsAreNat ==
    /\ MaxSelections \in Nat /\ MaxOperations \in Nat /\ MaxRows \in Nat
    /\ MaxOutside \in Nat /\ MaxAppCrashes \in Nat
  BY AppBounds

LEMMA AppInitHolds == AppInit => AppIInv
  <1> SUFFICES ASSUME AppInit PROVE AppIInv
    OBVIOUS
  <1> USE BoundsAreNat DEF AppInit, NoInspection, NoStatus, NoSession, FreeGate, NoRow, NoAppCall
  <1>1. PackageTypes
    BY DEF PackageTypes, Broadcasts, Uses, Statuses, Gates, SystemSessions
  <1>2. GateHolds /\ NumberedInOrder /\ OneFilePerSelection /\ InstalledWasReported
    BY DEF GateHolds, NumberedInOrder, OneFilePerSelection, InstalledWasReported
  <1>3. AssociationsAgree
    BY DEF AssociationsAgree, AssociationTypes, CallSteps, AssociatedIsReviewed, LaunchedIsReviewed
  <1>4. QED
    BY <1>1, <1>2, <1>3 DEF AppIInv, PackagesAgree

\* A bounded thing happens once more.
LEMMA CountedOnce ==
    ASSUME used \in Uses, NEW n \in {"selections", "operations", "rows", "outside", "crashes"},
           CountUse(n),
           n = "selections" => used.selections < MaxSelections,
           n = "operations" => used.operations < MaxOperations,
           n = "rows" => used.rows < MaxRows,
           n = "outside" => used.outside < MaxOutside,
           n = "crashes" => used.crashes < MaxAppCrashes
    PROVE  /\ used' \in Uses
           /\ used'.selections = IF n = "selections" THEN used.selections + 1 ELSE used.selections
           /\ used'.operations = IF n = "operations" THEN used.operations + 1 ELSE used.operations
  BY BoundsAreNat DEF CountUse, Uses

LEMMA StatusIsTyped ==
    ASSUME PackageTypes, NEW op \in 0..MaxOperations, NEW sel \in 0..MaxSelections,
           NEW state \in {"none", "approval_required", "preparing", "awaiting_user_confirmation",
                          "installed", "cancelled", "failed"},
           NEW session \in 0..MaxOperations
    PROVE  /\ Status(op, sel, state, session) \in Statuses
           /\ Status(op, sel, state, session).state = state
           /\ Status(op, sel, state, session).op = op
           /\ Status(op, sel, state, session).sel = sel
  BY DEF PackageTypes, Statuses, Status

\* What the associations rest on is what was reviewed, which only grows.
LEMMA AssociationsRest ==
    ASSUME AssociationsAgree, UNCHANGED <<appRows, appCall>>,
           reviewed \subseteq reviewed', reviewed' \subseteq Apks \ BlockedApks,
           installed' \in [AppPackages -> Apks \cup {"none"}]
    PROVE  AssociationsAgree'
  BY DEF AssociationsAgree, AssociationTypes, AssociatedIsReviewed, LaunchedIsReviewed

LEMMA PackagesRest ==
    ASSUME PackagesAgree, used' \in Uses,
           used'.selections = used.selections, used'.operations = used.operations,
           UNCHANGED <<approved, inspection, staged, installStatus, gate, sessions, results>>,
           reviewed \subseteq reviewed'
    PROVE  PackagesAgree'
  BY DEF PackagesAgree, PackageTypes, GateHolds, NumberedInOrder, OneFilePerSelection,
         InstalledWasReported

\* An operation that reads the state first and then holds the gate, with nothing in hand or with
\* the package that is kept.
LEMMA ReadingKeeps ==
    ASSUME PackagesAgree, gate.step = "free", NEW files,
           inspection' = ReadInspection(files), installStatus' = ReadStatus(files),
           staged' \subseteq staged, UNCHANGED <<approved, sessions, results, reviewed>>,
           used' \in Uses, used'.selections = used.selections,
           \/ UNCHANGED gate /\ used'.operations = used.operations
           \/ /\ gate' = [FreeGate EXCEPT !.step = "choosing"]
              /\ used.selections < MaxSelections /\ used'.operations = used.operations
           \/ gate' = [FreeGate EXCEPT !.step = "approving"] /\ used'.operations = used.operations
           \/ /\ gate' = [step |-> "asked", id |-> inspection'.id, apk |-> inspection'.apk]
              /\ inspection'.id # 0 /\ Installable(inspection'.apk)
              /\ used'.operations = used.operations + 1
    PROVE  PackagesAgree'
  <1> USE BoundsAreNat DEF PackagesAgree
  <1>1. inspection' \in {inspection, NoInspection}
    BY DEF ReadInspection
  <1>2. installStatus' \in
           {installStatus, NoStatus, [installStatus EXCEPT !.state = "failed", !.old = FALSE]}
    BY DEF ReadStatus
  <1>3. /\ installStatus' \in Statuses
        /\ installStatus'.state = "installed" => installStatus' = installStatus
    <2>1. CASE installStatus' = NoStatus
      BY <2>1 DEF Statuses, NoStatus
    <2>2. CASE installStatus' = [installStatus EXCEPT !.state = "failed", !.old = FALSE]
      BY <2>2 DEF PackageTypes, Statuses
    <2>3. CASE installStatus' = installStatus
      BY <2>3 DEF PackageTypes
    <2>4. QED
      BY <1>2, <2>1, <2>2, <2>3
  <1>4. inspection' \in [id : 0..MaxSelections, apk : Apks \cup {"none"}]
    BY <1>1 DEF PackageTypes, NoInspection
  <1>5. gate' \in Gates
    BY <1>4 DEF PackageTypes, Gates, FreeGate
  <1>6. PackageTypes'
    BY <1>3, <1>4, <1>5 DEF PackageTypes
  <1>7. GateHolds'
    <2>1. CASE UNCHANGED gate \/ gate'.step \in {"choosing", "approving"}
      BY <2>1 DEF GateHolds, FreeGate
    <2>2. CASE /\ gate' = [step |-> "asked", id |-> inspection'.id, apk |-> inspection'.apk]
               /\ inspection'.id # 0 /\ Installable(inspection'.apk)
               /\ used'.operations = used.operations + 1
      <3>1. inspection'.apk \in Apks \ BlockedApks
        BY <1>1, <2>2 DEF Installable, NumberedInOrder, NoInspection
      <3>2. used'.operations # 0
        BY <2>2 DEF PackageTypes, Uses
      <3>3. QED
        BY <2>2, <3>1, <3>2 DEF GateHolds
    <2>3. QED
      BY <2>1, <2>2 DEF FreeGate
  <1>8. NumberedInOrder'
    <2>1. used.selections \in Nat
      BY DEF PackageTypes, Uses
    <2>2. /\ inspection'.id <= used.selections
          /\ inspection'.id # 0 => inspection'.apk \in Apks
      BY <1>1, <2>1 DEF NumberedInOrder, NoInspection
    <2>3. gate'.id <= used.selections
      BY <2>1, <2>2 DEF NumberedInOrder, FreeGate
    <2>4. QED
      BY <2>2, <2>3 DEF NumberedInOrder
  <1>9. OneFilePerSelection'
    BY <1>1 DEF OneFilePerSelection, NoInspection, FreeGate
  <1>10. InstalledWasReported'
    BY <1>3 DEF InstalledWasReported
  <1>11. QED
    BY <1>6, <1>7, <1>8, <1>9, <1>10


-----------------------------------------------------------------------------
(* The steps of an operation that holds the gate.                          *)

LEMMA PollInstallKeeps == ASSUME AppIInv, PollInstall PROVE AppIInv'
  <1>1. PICK files \in {staged, {}} :
           inspection' = ReadInspection(files) /\ installStatus' = ReadStatus(files) /\ staged' = files
    BY DEF PollInstall
  <1>2. UNCHANGED <<approved, gate, sessions, results, installed, appRows, appCall, reviewed, used>>
        /\ gate.step = "free"
    BY DEF PollInstall
  <1>3. PackagesAgree'
    BY <1>1, <1>2, ReadingKeeps DEF AppIInv, PackagesAgree, PackageTypes
  <1>4. AssociationsAgree'
    BY <1>2, AssociationsRest DEF AppIInv, AssociationsAgree, AssociationTypes
  <1>5. QED
    BY <1>3, <1>4 DEF AppIInv

LEMMA HalfMinuteKeeps == ASSUME AppIInv, HalfMinutePasses PROVE AppIInv'
  <1> USE DEF HalfMinutePasses
  <1>1. installStatus' \in Statuses /\ installStatus'.state = installStatus.state
        /\ installStatus'.state # "installed"
    BY DEF AppIInv, PackagesAgree, PackageTypes, Statuses, Pending
  <1>2. PackagesAgree'
    BY <1>1 DEF AppIInv, PackagesAgree, PackageTypes, GateHolds, NumberedInOrder,
                OneFilePerSelection, InstalledWasReported
  <1>3. AssociationsAgree'
    BY AssociationsRest DEF AppIInv, AssociationsAgree, AssociationTypes
  <1>4. QED
    BY <1>2, <1>3 DEF AppIInv

LEMMA ReadersKeep ==
    ASSUME AppIInv, SelectPackage \/ OpenSourceApproval \/ RequestInstall
    PROVE  AppIInv'
  <1> USE DEF AppIInv, Reads
  <1>1. AssociationsAgree'
    <2>1. UNCHANGED <<installed, appRows, appCall, reviewed>>
      BY DEF SelectPackage, OpenSourceApproval, RequestInstall
    <2>2. QED
      BY <2>1, AssociationsRest DEF AssociationsAgree, AssociationTypes
  <1>2. CASE SelectPackage
    <2>1. used' \in Uses /\ UNCHANGED used
      BY <1>2 DEF SelectPackage, PackagesAgree, PackageTypes
    <2>2. PackagesAgree'
      BY <1>2, <2>1, ReadingKeeps DEF SelectPackage
    <2>3. QED
      BY <1>1, <2>2
  <1>3. CASE OpenSourceApproval
    <2>1. used' \in Uses /\ UNCHANGED used
      BY <1>3 DEF OpenSourceApproval, PackagesAgree, PackageTypes
    <2>2. PackagesAgree'
      BY <1>3, <2>1, ReadingKeeps DEF OpenSourceApproval
    <2>3. QED
      BY <1>1, <2>2
  <1>4. CASE RequestInstall
    <2>1. /\ used' \in Uses /\ used'.selections = used.selections
          /\ used'.operations = used.operations + 1
      BY <1>4, CountedOnce DEF RequestInstall, PackagesAgree, PackageTypes
    <2>2. PackagesAgree'
      BY <1>4, <2>1, ReadingKeeps DEF RequestInstall
    <2>3. QED
      BY <1>1, <2>2
  <1>5. QED
    BY <1>2, <1>3, <1>4

LEMMA PackageSelectedKeeps == ASSUME AppIInv, PackageSelected PROVE AppIInv'
  <1> USE BoundsAreNat DEF AppIInv, PackagesAgree
  <1>1. AssociationsAgree'
    <2>1. UNCHANGED <<installed, appRows, appCall, reviewed>>
      BY DEF PackageSelected
    <2>2. QED
      BY <2>1, AssociationsRest DEF AssociationsAgree, AssociationTypes
  <1>2. ASSUME NEW a \in Apks, gate.step = "choosing", CountUse("selections"),
               gate' = [step |-> "copied", id |-> used.selections + 1, apk |-> a],
               UNCHANGED <<approved, inspection, staged, installStatus, sessions, results, reviewed>>
        PROVE  PackagesAgree'
    <2>1. /\ used' \in Uses /\ used'.selections = used.selections + 1
          /\ used'.operations = used.operations
      BY <1>2, CountedOnce DEF PackageTypes, GateHolds
    <2>2. used.selections \in Nat /\ used.selections + 1 \in 0..MaxSelections
      BY <1>2 DEF PackageTypes, Uses, GateHolds
    <2>3. gate' \in Gates
      BY <1>2, <2>2 DEF Gates
    <2>4. PackageTypes'
      BY <1>2, <2>1, <2>3 DEF PackageTypes
    <2>5. GateHolds'
      BY <1>2, <2>1, <2>2 DEF GateHolds
    <2>6. NumberedInOrder' /\ OneFilePerSelection'
      <3>1. inspection.id \in Nat /\ \A o \in 1..MaxOperations : sessions[o].sel \in Nat
        BY DEF PackageTypes, SystemSessions
      <3>2. NumberedInOrder'
        BY <1>2, <2>1, <2>2, <3>1 DEF NumberedInOrder
      <3>3. OneFilePerSelection'
        BY <1>2, <2>1, <2>2, <3>1 DEF NumberedInOrder, OneFilePerSelection
      <3>4. QED
        BY <3>2, <3>3
    <2>7. InstalledWasReported'
      BY <1>2 DEF InstalledWasReported
    <2>8. QED
      BY <2>4, <2>5, <2>6, <2>7
  <1>3. CASE gate' = FreeGate /\ UNCHANGED used
    <2>1. gate' \in Gates
      BY <1>3 DEF Gates, FreeGate
    <2>2. PackagesAgree'
      BY <1>3, <2>1 DEF PackageSelected, PackageTypes, GateHolds, NumberedInOrder,
             OneFilePerSelection, InstalledWasReported, FreeGate, Uses
    <2>3. QED
      BY <1>1, <2>2
  <1>4. QED
    BY <1>1, <1>2, <1>3 DEF PackageSelected

\* The gate is given back, or its operation goes on with what it has.
LEMMA GateStepsKeep ==
    ASSUME AppIInv, ReplaceSelection \/ KeepCopy \/ SaveInspection \/ SourceApprovalReturned
    PROVE  AppIInv'
  <1> USE BoundsAreNat DEF AppIInv, PackagesAgree
  <1>1. AssociationsAgree'
    <2>1. UNCHANGED <<installed, appRows, appCall, reviewed>>
      BY DEF ReplaceSelection, KeepCopy, SaveInspection, SourceApprovalReturned
    <2>2. QED
      BY <2>1, AssociationsRest DEF AssociationsAgree, AssociationTypes
  <1>2. CASE ReplaceSelection
    <2> USE <1>2 DEF ReplaceSelection, ClearsSelection, NoInspection, NoStatus
    <2>1. /\ gate' \in Gates /\ gate'.step = "cleared" /\ gate'.id = gate.id
          /\ gate'.apk = gate.apk
      BY DEF PackageTypes, Gates
    <2>2. PackageTypes'
      BY <2>1 DEF PackageTypes, Statuses
    <2>3. GateHolds' /\ NumberedInOrder'
      BY <2>1 DEF GateHolds, NumberedInOrder, PackageTypes, Uses
    <2>4. OneFilePerSelection' /\ InstalledWasReported'
      BY <2>1 DEF OneFilePerSelection, InstalledWasReported
    <2>5. QED
      BY <1>1, <2>2, <2>3, <2>4
  <1>3. CASE KeepCopy
    <2> USE <1>3 DEF KeepCopy
    <2>1. /\ gate' \in Gates
          /\ \/ gate'.step = "renamed" /\ gate'.id = gate.id /\ gate'.apk = gate.apk
             \/ gate' = FreeGate
      BY DEF PackageTypes, Gates, FreeGate
    <2>2. staged' \subseteq 1..MaxSelections
      BY DEF PackageTypes, Gates, GateHolds
    <2>3. PackageTypes'
      BY <2>1, <2>2 DEF PackageTypes
    <2>4. GateHolds' /\ NumberedInOrder'
      BY <2>1 DEF GateHolds, NumberedInOrder, PackageTypes, Uses, FreeGate
    <2>5. OneFilePerSelection' /\ InstalledWasReported'
      BY <2>1 DEF OneFilePerSelection, InstalledWasReported, FreeGate
    <2>6. QED
      BY <1>1, <2>3, <2>4, <2>5
  <1>4. CASE SaveInspection
    <2> USE <1>4 DEF SaveInspection, Inspection, NoStatus, FreeGate
    <2>1. PackageTypes'
      BY DEF PackageTypes, Statuses, Gates
    <2>2. GateHolds' /\ NumberedInOrder'
      BY DEF GateHolds, NumberedInOrder, PackageTypes, Uses
    <2>3. OneFilePerSelection' /\ InstalledWasReported'
      BY DEF OneFilePerSelection, InstalledWasReported
    <2>4. QED
      BY <1>1, <2>1, <2>2, <2>3
  <1>5. CASE SourceApprovalReturned
    <2> USE <1>5 DEF SourceApprovalReturned, FreeGate
    <2>1. PackageTypes'
      BY DEF PackageTypes, Gates
    <2>2. GateHolds' /\ NumberedInOrder'
      BY DEF GateHolds, NumberedInOrder, PackageTypes, Uses
    <2>3. OneFilePerSelection' /\ InstalledWasReported'
      BY DEF OneFilePerSelection, InstalledWasReported
    <2>4. QED
      BY <1>1, <2>1, <2>2, <2>3
  <1>6. QED
    BY <1>2, <1>3, <1>4, <1>5

LEMMA ClearSelectionKeeps == ASSUME AppIInv, ClearSelection PROVE AppIInv'
  <1> USE DEF AppIInv, PackagesAgree, ClearSelection, ClearsSelection, NoInspection, NoStatus
  <1>1. AssociationsAgree'
    <2>1. UNCHANGED <<installed, appRows, appCall, reviewed>>
      OBVIOUS
    <2>2. QED
      BY <2>1, AssociationsRest DEF AssociationsAgree, AssociationTypes
  <1>2. PackageTypes'
    <2>1. 0 \in 0..MaxOperations /\ 0 \in 0..MaxSelections
      BY BoundsAreNat
    <2>2. installStatus' \in Statuses
      BY <2>1 DEF Statuses
    <2>3. inspection' \in [id : 0..MaxSelections, apk : Apks \cup {"none"}]
      BY <2>1
    <2>4. QED
      BY <2>2, <2>3 DEF PackageTypes
  <1>3. GateHolds' /\ NumberedInOrder'
    BY DEF GateHolds, NumberedInOrder, PackageTypes, Uses
  <1>4. OneFilePerSelection' /\ InstalledWasReported'
    BY DEF OneFilePerSelection, InstalledWasReported
  <1>5. QED
    BY <1>1, <1>2, <1>3, <1>4


-----------------------------------------------------------------------------
(* An installation: its status and its session of the system installer.    *)

LEMMA CheckCopyKeeps == ASSUME AppIInv, CheckCopy PROVE AppIInv'
  <1> USE BoundsAreNat DEF AppIInv, PackagesAgree
  <1>1. AssociationsAgree'
    <2>1. UNCHANGED <<installed, appRows, appCall, reviewed>>
      BY DEF CheckCopy
    <2>2. QED
      BY <2>1, AssociationsRest DEF AssociationsAgree, AssociationTypes
  <1>2. /\ UNCHANGED <<approved, inspection, staged, sessions, results, reviewed, used>>
        /\ gate.step = "asked"
    BY DEF CheckCopy
  <1>3. PICK state \in {"preparing", "approval_required", "failed"} :
           installStatus' = Status(used.operations, gate.id, state, 0)
    BY DEF CheckCopy
  <1>4. /\ gate' \in Gates
        /\ \/ gate'.step = "preparing" /\ gate'.id = gate.id /\ gate'.apk = gate.apk
           \/ gate' = FreeGate
    BY DEF CheckCopy, PackageTypes, Gates, FreeGate
  <1>5. used.operations \in 0..MaxOperations /\ gate.id \in 0..MaxSelections
    BY DEF PackageTypes, Uses, Gates
  <1>6. installStatus' \in Statuses /\ installStatus'.state # "installed"
    BY <1>3, <1>5, StatusIsTyped
  <1>7. PackageTypes'
    BY <1>2, <1>4, <1>6 DEF PackageTypes
  <1>8. GateHolds' /\ NumberedInOrder'
    BY <1>2, <1>4 DEF GateHolds, NumberedInOrder, PackageTypes, Uses, FreeGate
  <1>9. OneFilePerSelection' /\ InstalledWasReported'
    BY <1>2, <1>4, <1>6 DEF OneFilePerSelection, InstalledWasReported, FreeGate
  <1>10. QED
    BY <1>1, <1>7, <1>8, <1>9

LEMMA CreateSessionKeeps == ASSUME AppIInv, CreateSession PROVE AppIInv'
  <1> USE BoundsAreNat DEF AppIInv, PackagesAgree
  <1>1. AssociationsAgree'
    <2>1. UNCHANGED <<installed, appRows, appCall, reviewed>>
      BY DEF CreateSession
    <2>2. QED
      BY <2>1, AssociationsRest DEF AssociationsAgree, AssociationTypes
  <1>2. /\ UNCHANGED <<approved, inspection, staged, results, reviewed, used>>
        /\ gate.step = "preparing"
    BY DEF CreateSession
  <1> DEFINE o == used.operations
  <1>3. o \in 1..MaxOperations /\ gate.id \in 1..MaxSelections /\ gate.apk \in Apks \ BlockedApks
    BY <1>2 DEF PackageTypes, Uses, Gates, GateHolds
  <1>4. installStatus' \in Statuses /\ installStatus'.state # "installed"
    <2>1. installStatus' = Status(o, gate.id, "preparing", o)
          \/ installStatus' = Status(o, gate.id, "failed", 0)
      BY DEF CreateSession
    <2>2. o \in 0..MaxOperations /\ gate.id \in 0..MaxSelections /\ 0 \in 0..MaxOperations
      BY <1>3
    <2> HIDE DEF o
    <2>3. QED
      BY <2>1, <2>2, StatusIsTyped
  <1>5. CASE /\ sessions' = [sessions EXCEPT ![o] = [phase |-> "open", sel |-> gate.id, apk |-> gate.apk]]
             /\ gate' = [gate EXCEPT !.step = "created"]
    <2>1. /\ gate' \in Gates /\ gate'.step = "created" /\ gate'.id = gate.id /\ gate'.apk = gate.apk
      BY <1>5 DEF PackageTypes, Gates
    <2>2. sessions' \in [1..MaxOperations -> SystemSessions]
      BY <1>3, <1>5 DEF PackageTypes, SystemSessions
    <2>3. /\ sessions'[o].sel = gate.id /\ sessions'[o].apk = gate.apk /\ sessions'[o].phase = "open"
          /\ \A p \in 1..MaxOperations : p # o => sessions'[p] = sessions[p]
      BY <1>3, <1>5 DEF PackageTypes
    <2> HIDE DEF o
    <2>4. PackageTypes'
      BY <1>2, <1>4, <2>1, <2>2 DEF PackageTypes
    <2>5. GateHolds'
      BY <1>2, <1>3, <2>1, <2>3 DEF GateHolds, o
    <2>6. NumberedInOrder'
      BY <1>2, <1>3, <2>1, <2>3 DEF NumberedInOrder
    <2>7. OneFilePerSelection'
      BY <1>2, <1>3, <2>1, <2>3 DEF OneFilePerSelection
    <2>8. InstalledWasReported'
      BY <1>4 DEF InstalledWasReported
    <2>9. QED
      BY <1>1, <2>4, <2>5, <2>6, <2>7, <2>8
  <1>6. CASE gate' = FreeGate /\ UNCHANGED sessions
    <2>1. gate' \in Gates
      BY <1>6 DEF Gates, FreeGate
    <2>2. PackageTypes' /\ InstalledWasReported'
      BY <1>2, <1>4, <1>6, <2>1 DEF PackageTypes, InstalledWasReported
    <2>3. GateHolds' /\ NumberedInOrder' /\ OneFilePerSelection'
      BY <1>2, <1>6 DEF GateHolds, NumberedInOrder, OneFilePerSelection, FreeGate, PackageTypes, Uses
    <2>4. QED
      BY <1>1, <2>2, <2>3
  <1>7. QED
    BY <1>5, <1>6 DEF CreateSession

\* A session goes on: it keeps its selection and its file.
GoesOn(o, phase) == sessions' = [sessions EXCEPT ![o].phase = phase]

LEMMA SessionGoesOn ==
    ASSUME PackageTypes, NEW o \in 1..MaxOperations, NEW phase \in {"committed", "asked", "shown", "ended"},
           GoesOn(o, phase)
    PROVE  /\ sessions' \in [1..MaxOperations -> SystemSessions]
           /\ sessions'[o].phase = phase
           /\ \A p \in 1..MaxOperations :
                 /\ sessions'[p].sel = sessions[p].sel /\ sessions'[p].apk = sessions[p].apk
                 /\ p # o => sessions'[p].phase = sessions[p].phase
  <1>1. sessions' \in [1..MaxOperations -> SystemSessions]
    BY DEF PackageTypes, SystemSessions, GoesOn
  <1>2. sessions'[o].phase = phase /\ sessions'[o].sel = sessions[o].sel /\ sessions'[o].apk = sessions[o].apk
    BY DEF PackageTypes, SystemSessions, GoesOn
  <1>3. \A p \in 1..MaxOperations : p # o => sessions'[p] = sessions[p]
    BY DEF PackageTypes, GoesOn
  <1>4. QED
    BY <1>1, <1>2, <1>3

\* The rest of the state when sessions go on, broadcasts come and the status may follow.
LEMMA SessionsKeep ==
    ASSUME AppIInv, UNCHANGED <<approved, inspection, appRows, appCall>>,
           staged' \subseteq staged, reviewed \subseteq reviewed',
           reviewed' \subseteq Apks \ BlockedApks,
           installed' \in [AppPackages -> Apks \cup {"none"}],
           gate' = gate \/ gate' = FreeGate,
           used' \in Uses, used'.selections = used.selections, used'.operations = used.operations,
           sessions' \in [1..MaxOperations -> SystemSessions],
           results' \in [1..MaxOperations -> Broadcasts],
           \A p \in 1..MaxOperations :
              /\ sessions'[p].sel = sessions[p].sel /\ sessions'[p].apk = sessions[p].apk
              /\ sessions'[p].phase # "none" => sessions[p].sel # 0
              /\ results'[p] # <<>> => sessions'[p].phase # "none",
           installStatus' \in Statuses,
           \/ installStatus'.state # "installed" \/ installStatus' = installStatus
           \/ /\ installStatus'.op \in 1..MaxOperations /\ installStatus'.sel # 0
              /\ sessions[installStatus'.op].sel = installStatus'.sel
              /\ sessions[installStatus'.op].apk \in reviewed'
    PROVE  AppIInv'
  <1> USE BoundsAreNat DEF AppIInv, PackagesAgree
  <1>1. AssociationsAgree'
    BY AssociationsRest
  <1>2. gate' \in Gates
    BY DEF PackageTypes, Gates, FreeGate
  <1>3. PackageTypes'
    BY <1>2 DEF PackageTypes
  <1>4. GateHolds'
    <2>1. CASE gate' = gate
      BY <2>1 DEF GateHolds, PackageTypes, Uses
    <2>2. CASE gate' = FreeGate
      BY <2>2 DEF GateHolds, FreeGate
    <2>3. QED
      BY <2>1, <2>2
  <1>5. NumberedInOrder'
    <2>1. gate'.id <= used'.selections
      BY DEF NumberedInOrder, PackageTypes, Uses, FreeGate
    <2>2. inspection'.id <= used'.selections /\ (inspection'.id # 0 => inspection'.apk \in Apks)
      BY DEF NumberedInOrder
    <2>3. \A p \in 1..MaxOperations :
             /\ sessions'[p].sel <= used'.selections
             /\ sessions'[p].sel # 0 => sessions'[p].apk \in Apks \ BlockedApks
             /\ sessions'[p].phase # "none" => sessions'[p].sel # 0
             /\ results'[p] # <<>> => sessions'[p].phase # "none"
      BY DEF NumberedInOrder
    <2>4. QED
      BY <2>1, <2>2, <2>3 DEF NumberedInOrder
  <1>6. OneFilePerSelection'
    BY DEF OneFilePerSelection, FreeGate
  <1>7. InstalledWasReported'
    <2>1. CASE installStatus' = installStatus
      BY <2>1 DEF InstalledWasReported, PackageTypes, Statuses
    <2>2. CASE installStatus'.state # "installed"
      BY <2>2 DEF InstalledWasReported
    <2>3. CASE /\ installStatus'.op \in 1..MaxOperations /\ installStatus'.sel # 0
               /\ sessions[installStatus'.op].sel = installStatus'.sel
               /\ sessions[installStatus'.op].apk \in reviewed'
      BY <2>3 DEF InstalledWasReported
    <2>4. QED
      BY <2>1, <2>2, <2>3
  <1>8. QED
    BY <1>1, <1>3, <1>4, <1>5, <1>6, <1>7

LEMMA CommitSessionKeeps == ASSUME AppIInv, CommitSession PROVE AppIInv'
  <1> USE BoundsAreNat DEF AppIInv, PackagesAgree
  <1> DEFINE o == used.operations
  <1>1. /\ UNCHANGED <<approved, inspection, staged, results, installed, appRows, appCall, reviewed, used>>
        /\ gate.step = "created" /\ gate' = FreeGate
    BY DEF CommitSession
  <1>2. o \in 1..MaxOperations /\ gate.id \in 0..MaxSelections /\ sessions[o].sel # 0
    BY <1>1 DEF PackageTypes, Uses, Gates, GateHolds
  <1>3. PICK phase \in {"committed", "ended"} : GoesOn(o, phase)
    BY DEF CommitSession, GoesOn
  <1>4. /\ installStatus' \in Statuses
        /\ installStatus' = installStatus \/ installStatus'.state # "installed"
    <2>1. installStatus' = installStatus \/ installStatus' = Status(o, gate.id, "failed", 0)
      BY DEF CommitSession
    <2>2. o \in 0..MaxOperations /\ 0 \in 0..MaxOperations
      BY <1>2
    <2> HIDE DEF o
    <2>3. CASE installStatus' = Status(o, gate.id, "failed", 0)
      BY <1>2, <2>2, <2>3, StatusIsTyped
    <2>4. QED
      BY <2>1, <2>3 DEF PackageTypes
  <1>5. /\ sessions' \in [1..MaxOperations -> SystemSessions]
        /\ sessions'[o].phase = phase
        /\ \A p \in 1..MaxOperations :
              /\ sessions'[p].sel = sessions[p].sel /\ sessions'[p].apk = sessions[p].apk
              /\ p # o => sessions'[p].phase = sessions[p].phase
    BY <1>2, <1>3, SessionGoesOn
  <1> HIDE DEF o
  <1>6. \A p \in 1..MaxOperations :
           /\ sessions'[p].phase # "none" => sessions[p].sel # 0
           /\ results'[p] # <<>> => sessions'[p].phase # "none"
    BY <1>1, <1>2, <1>5 DEF NumberedInOrder
  <1>7. /\ used' \in Uses /\ used'.selections = used.selections /\ used'.operations = used.operations
        /\ results' \in [1..MaxOperations -> Broadcasts]
        /\ installed' \in [AppPackages -> Apks \cup {"none"}]
        /\ reviewed' \subseteq Apks \ BlockedApks
    BY <1>1 DEF PackageTypes, AssociationsAgree, AssociationTypes
  <1>8. QED
    BY <1>1, <1>4, <1>5, <1>6, <1>7, SessionsKeep


LEMMA InstallerAnswersKeeps ==
    ASSUME AppIInv, NEW o \in 1..MaxOperations, InstallerAnswers(o)
    PROVE  AppIInv'
  <1> USE BoundsAreNat DEF AppIInv, PackagesAgree
  <1>1. UNCHANGED <<approved, inspection, staged, installStatus, gate, appRows, appCall, reviewed, used>>
    BY DEF InstallerAnswers
  <1>2. PICK phase \in {"asked", "ended"} : GoesOn(o, phase)
    BY DEF InstallerAnswers, GoesOn
  <1>3. PICK r \in Broadcasts : results' = [results EXCEPT ![o] = r]
    BY DEF InstallerAnswers, Broadcasts
  <1>4. sessions[o].phase # "none" /\ sessions[o].sel # 0
    BY DEF InstallerAnswers, NumberedInOrder
  <1>5. installed' \in [AppPackages -> Apks \cup {"none"}]
    <2>1. sessions[o].apk \in Apks \ BlockedApks
      BY <1>4 DEF NumberedInOrder
    <2>2. installed' = installed
          \/ installed' = [installed EXCEPT ![PackageOf[sessions[o].apk]] = sessions[o].apk]
      BY DEF InstallerAnswers
    <2>3. QED
      BY <2>1, <2>2 DEF AssociationsAgree, AssociationTypes, AppPackages
  <1>6. /\ sessions' \in [1..MaxOperations -> SystemSessions]
        /\ sessions'[o].phase = phase
        /\ \A p \in 1..MaxOperations :
              /\ sessions'[p].sel = sessions[p].sel /\ sessions'[p].apk = sessions[p].apk
              /\ p # o => sessions'[p].phase = sessions[p].phase
    BY <1>2, SessionGoesOn
  <1>7. /\ results' \in [1..MaxOperations -> Broadcasts]
        /\ \A p \in 1..MaxOperations : p # o => results'[p] = results[p]
    BY <1>3 DEF PackageTypes
  <1>8. \A p \in 1..MaxOperations :
           /\ sessions'[p].phase # "none" => sessions[p].sel # 0
           /\ results'[p] # <<>> => sessions'[p].phase # "none"
    BY <1>4, <1>6, <1>7 DEF NumberedInOrder
  <1>9. /\ used' \in Uses /\ used'.selections = used.selections /\ used'.operations = used.operations
        /\ installStatus' \in Statuses
        /\ reviewed' \subseteq Apks \ BlockedApks
    BY <1>1 DEF PackageTypes, AssociationsAgree, AssociationTypes
  <1>10. QED
    BY <1>1, <1>5, <1>6, <1>7, <1>8, <1>9, SessionsKeep

LEMMA InstallerForgetsKeeps ==
    ASSUME AppIInv, NEW o \in 1..MaxOperations, InstallerForgets(o)
    PROVE  AppIInv'
  <1> USE BoundsAreNat DEF AppIInv, PackagesAgree
  <1>1. /\ UNCHANGED <<approved, inspection, staged, installStatus, gate, results, installed, appRows,
                       appCall, reviewed, used>>
        /\ GoesOn(o, "ended")
    BY DEF InstallerForgets, GoesOn
  <1>2. sessions[o].sel # 0
    BY DEF InstallerForgets, NumberedInOrder
  <1>3. /\ sessions' \in [1..MaxOperations -> SystemSessions]
        /\ sessions'[o].phase = "ended"
        /\ \A p \in 1..MaxOperations :
              /\ sessions'[p].sel = sessions[p].sel /\ sessions'[p].apk = sessions[p].apk
              /\ p # o => sessions'[p].phase = sessions[p].phase
    BY <1>1, SessionGoesOn
  <1>4. \A p \in 1..MaxOperations :
           /\ sessions'[p].phase # "none" => sessions[p].sel # 0
           /\ results'[p] # <<>> => sessions'[p].phase # "none"
    BY <1>1, <1>2, <1>3 DEF NumberedInOrder
  <1>5. /\ used' \in Uses /\ used'.selections = used.selections /\ used'.operations = used.operations
        /\ installStatus' \in Statuses
        /\ results' \in [1..MaxOperations -> Broadcasts]
        /\ installed' \in [AppPackages -> Apks \cup {"none"}]
        /\ reviewed' \subseteq Apks \ BlockedApks
    BY <1>1 DEF PackageTypes, AssociationsAgree, AssociationTypes
  <1>6. QED
    BY <1>1, <1>3, <1>4, <1>5, SessionsKeep

\* A broadcast is stored for the operation and the selection it is about.
LEMMA ReceiveKeeps ==
    ASSUME AppIInv, NEW o \in 1..MaxOperations, Receive(o)
    PROVE  AppIInv'
  <1> USE BoundsAreNat DEF AppIInv, PackagesAgree
  <1> DEFINE sel == sessions[o].sel
  <1>1. /\ UNCHANGED <<approved, inspection, gate, installed, appRows, appCall, used>>
        /\ results[o] # <<>> /\ results' = [results EXCEPT ![o] = <<>>]
    BY DEF Receive
  <1>2. sessions[o].phase # "none" /\ sel # 0 /\ sessions[o].apk \in Apks \ BlockedApks
    BY <1>1 DEF NumberedInOrder
  <1>3. sel \in 0..MaxSelections /\ o \in 0..MaxOperations
    BY DEF PackageTypes, SystemSessions
  <1>4. \/ /\ installStatus' = Status(o, sel, "awaiting_user_confirmation", o) /\ GoesOn(o, "shown")
           /\ UNCHANGED <<staged, reviewed>>
        \/ /\ \/ installStatus' = Status(o, sel, "failed", o)
              \/ installStatus' = Status(o, sel, "cancelled", o)
           /\ UNCHANGED <<staged, reviewed, sessions>>
        \/ /\ installStatus' = Status(o, sel, "installed", o) /\ staged' = staged \ {sel}
           /\ reviewed' = reviewed \cup {sessions[o].apk} /\ UNCHANGED sessions
    BY DEF Receive, GoesOn
  <1>5. /\ staged' \subseteq staged /\ reviewed \subseteq reviewed'
        /\ reviewed' \subseteq Apks \ BlockedApks
    BY <1>2, <1>4 DEF AssociationsAgree, AssociationTypes
  <1>6. /\ sessions' \in [1..MaxOperations -> SystemSessions]
        /\ \A p \in 1..MaxOperations :
              /\ sessions'[p].sel = sessions[p].sel /\ sessions'[p].apk = sessions[p].apk
              /\ p # o => sessions'[p].phase = sessions[p].phase
    <2>1. CASE GoesOn(o, "shown")
      BY <2>1, SessionGoesOn
    <2>2. CASE UNCHANGED sessions
      BY <2>2 DEF PackageTypes
    <2>3. QED
      BY <1>4, <2>1, <2>2
  <1>7. /\ results' \in [1..MaxOperations -> Broadcasts] /\ results'[o] = <<>>
        /\ \A p \in 1..MaxOperations : p # o => results'[p] = results[p]
    BY <1>1 DEF PackageTypes, Broadcasts
  <1>8. \A p \in 1..MaxOperations :
           /\ sessions'[p].phase # "none" => sessions[p].sel # 0
           /\ results'[p] # <<>> => sessions'[p].phase # "none"
    BY <1>2, <1>6, <1>7 DEF NumberedInOrder
  <1>9. /\ installStatus' \in Statuses
        /\ installStatus'.op = o /\ installStatus'.sel = sel
        /\ installStatus'.state = "installed" => sessions[o].apk \in reviewed'
    <2> HIDE DEF sel
    <2>1. CASE installStatus' = Status(o, sel, "awaiting_user_confirmation", o)
      BY <1>3, <2>1, StatusIsTyped
    <2>2. CASE installStatus' = Status(o, sel, "failed", o)
      BY <1>3, <2>2, StatusIsTyped
    <2>3. CASE installStatus' = Status(o, sel, "cancelled", o)
      BY <1>3, <2>3, StatusIsTyped
    <2>4. CASE installStatus' = Status(o, sel, "installed", o) /\ reviewed' = reviewed \cup {sessions[o].apk}
      BY <1>3, <2>4, StatusIsTyped
    <2>5. QED
      BY <1>4, <2>1, <2>2, <2>3, <2>4
  <1>10. /\ used' \in Uses /\ used'.selections = used.selections /\ used'.operations = used.operations
         /\ installed' \in [AppPackages -> Apks \cup {"none"}]
    BY <1>1 DEF PackageTypes, AssociationsAgree, AssociationTypes
  <1>11. \/ installStatus'.state # "installed"
         \/ /\ installStatus'.op \in 1..MaxOperations /\ installStatus'.sel # 0
            /\ sessions[installStatus'.op].sel = installStatus'.sel
            /\ sessions[installStatus'.op].apk \in reviewed'
    BY <1>2, <1>9
  <1> HIDE DEF sel
  <1>12. QED
    BY <1>1, <1>5, <1>6, <1>7, <1>8, <1>9, <1>10, <1>11, SessionsKeep

\* The launcher or the device ends: commands and the gate's operation go, the rest stays.
LEMMA EndsKeep ==
    ASSUME AppIInv, gate' = FreeGate, appCall' = [c \in AppCallers |-> NoAppCall],
           UNCHANGED <<approved, inspection, staged, installStatus, sessions, installed, appRows, reviewed>>,
           results' \in [1..MaxOperations -> Broadcasts],
           \A p \in 1..MaxOperations : results'[p] # <<>> => results[p] # <<>>,
           used' \in Uses, used'.selections = used.selections, used'.operations = used.operations
    PROVE  AppIInv'
  <1> USE BoundsAreNat DEF AppIInv, PackagesAgree
  <1>1. PackageTypes'
    BY DEF PackageTypes, Gates, FreeGate
  <1>2. GateHolds' /\ OneFilePerSelection' /\ InstalledWasReported'
    BY DEF GateHolds, OneFilePerSelection, InstalledWasReported, FreeGate
  <1>3. NumberedInOrder'
    BY DEF NumberedInOrder, FreeGate, PackageTypes, Uses
  <1>4. AssociationsAgree'
    BY DEF AssociationsAgree, AssociationTypes, AssociatedIsReviewed, LaunchedIsReviewed, NoAppCall,
           CallSteps
  <1>5. QED
    BY <1>1, <1>2, <1>3, <1>4

LEMMA ResultLostKeeps ==
    ASSUME AppIInv, NEW o \in 1..MaxOperations, ResultLost(o)
    PROVE  AppIInv'
  <1> USE BoundsAreNat DEF AppIInv, PackagesAgree
  <1>1. /\ UNCHANGED <<approved, inspection, staged, installStatus, sessions, installed, appRows, reviewed>>
        /\ results' = [results EXCEPT ![o] = <<>>] /\ gate' = FreeGate
        /\ appCall' = [c \in AppCallers |-> NoAppCall]
        /\ CountUse("crashes") /\ used.crashes < MaxAppCrashes
    BY DEF ResultLost
  <1>2. /\ used' \in Uses /\ used'.selections = used.selections /\ used'.operations = used.operations
    BY <1>1, CountedOnce DEF PackageTypes
  <1>3. results' \in [1..MaxOperations -> Broadcasts] /\ \A p \in 1..MaxOperations :
           results'[p] # <<>> => results[p] # <<>>
    BY <1>1 DEF PackageTypes, Broadcasts
  <1>4. QED
    BY <1>1, <1>2, <1>3, EndsKeep

LEMMA CrashKeeps == ASSUME AppIInv, AppCrash PROVE AppIInv'
  <1> USE BoundsAreNat DEF AppIInv, PackagesAgree
  <1>1. /\ UNCHANGED <<approved, inspection, staged, installStatus, sessions, results, installed, appRows,
                       reviewed>>
        /\ gate' = FreeGate /\ appCall' = [c \in AppCallers |-> NoAppCall]
        /\ CountUse("crashes") /\ used.crashes < MaxAppCrashes
    BY DEF AppCrash
  <1>2. /\ used' \in Uses /\ used'.selections = used.selections /\ used'.operations = used.operations
    BY <1>1, CountedOnce DEF PackageTypes
  <1>3. QED
    BY <1>1, <1>2, EndsKeep DEF PackageTypes

LEMMA ChangedOutsideKeeps == ASSUME AppIInv, ChangedOutside PROVE AppIInv'
  <1> USE BoundsAreNat DEF AppIInv
  <1>1. UNCHANGED <<approved, inspection, staged, installStatus, gate, sessions, results, appRows, appCall,
                    reviewed>>
    BY DEF ChangedOutside
  <1>2. /\ used' \in Uses /\ used'.selections = used.selections /\ used'.operations = used.operations
    BY CountedOnce DEF PackagesAgree, PackageTypes, ChangedOutside
  <1>3. installed' \in [AppPackages -> Apks \cup {"none"}]
    BY DEF ChangedOutside, AssociationsAgree, AssociationTypes
  <1>4. QED
    BY <1>1, <1>2, <1>3, PackagesRest, AssociationsRest DEF AssociationsAgree, AssociationTypes


-----------------------------------------------------------------------------
(* Associations and launches.                                              *)

\* A command that goes on, with a file that was reviewed.
LEMMA CommandKeeps ==
    ASSUME AppIInv, NEW c \in AppCallers, NEW v, appCall' = [appCall EXCEPT ![c] = v],
           v \in [step : CallSteps, work : AppWorks \cup {"none"}, apk : Apks \cup {"none"},
                  id : 0..MaxRows, started : Apks \cup {"none"}],
           v.step # "idle" => v.work \in AppWorks /\ v.apk \in reviewed,
           v.step = "record" => /\ v.started # "none"
                                /\ SignersOf[v.apk] \cap HistoryOf[v.started] # {},
           UNCHANGED <<installed, appRows, reviewed>>
    PROVE  AssociationsAgree'
  <1> USE DEF AppIInv, AssociationsAgree
  <1>1. AssociationTypes'
    BY DEF AssociationTypes
  <1>2. AssociatedIsReviewed'
    BY DEF AssociatedIsReviewed, AssociationTypes
  <1>3. LaunchedIsReviewed'
    BY DEF LaunchedIsReviewed, AssociationTypes
  <1>4. QED
    BY <1>1, <1>2, <1>3

LEMMA CommandEnds ==
    ASSUME AppIInv, NEW c \in AppCallers, Refuses(c), UNCHANGED <<installed, appRows, reviewed>>
    PROVE  AssociationsAgree'
  <1>1. NoAppCall \in [step : CallSteps, work : AppWorks \cup {"none"}, apk : Apks \cup {"none"},
                       id : 0..MaxRows, started : Apks \cup {"none"}]
    BY BoundsAreNat DEF NoAppCall, CallSteps
  <1>2. NoAppCall.step = "idle"
    BY DEF NoAppCall
  <1> HIDE DEF NoAppCall
  <1>3. QED
    BY <1>1, <1>2, CommandKeeps DEF Refuses

\* A command that goes on to a step before the launch.
LEMMA CommandMoves ==
    ASSUME AppIInv, NEW c \in AppCallers, NEW step \in CallSteps \ {"idle", "record"},
           Moves(c, step), appCall[c].step # "idle", UNCHANGED <<installed, appRows, reviewed>>
    PROVE  AssociationsAgree'
  <1> DEFINE v == [appCall[c] EXCEPT !.step = step]
  <1>1. appCall[c] \in [step : CallSteps, work : AppWorks \cup {"none"}, apk : Apks \cup {"none"},
                        id : 0..MaxRows, started : Apks \cup {"none"}]
    BY DEF AppIInv, AssociationsAgree, AssociationTypes
  <1>2. /\ v \in [step : CallSteps, work : AppWorks \cup {"none"}, apk : Apks \cup {"none"},
                  id : 0..MaxRows, started : Apks \cup {"none"}]
        /\ v.step = step /\ v.work = appCall[c].work /\ v.apk = appCall[c].apk
    BY <1>1
  <1>3. appCall' = [appCall EXCEPT ![c] = v]
    BY DEF Moves
  <1>4. appCall[c].work \in AppWorks /\ appCall[c].apk \in reviewed
    BY DEF AppIInv, AssociationsAgree, AssociatedIsReviewed
  <1> HIDE DEF v
  <1>5. QED
    BY <1>2, <1>3, <1>4, CommandKeeps

\* Reading the state leaves the packages as they were.
LEMMA PackagesSame ==
    ASSUME AppIInv, UNCHANGED used, UnchangedPackages, UNCHANGED reviewed
    PROVE  PackagesAgree'
  BY PackagesRest DEF AppIInv, PackagesAgree, PackageTypes, UnchangedPackages

LEMMA AssociateKeeps ==
    ASSUME AppIInv, NEW c \in AppCallers, NEW w \in AppWorks, Associate(c, w)
    PROVE  AppIInv'
  <1> DEFINE v == [NoAppCall EXCEPT !.step = "claim", !.work = w, !.apk = inspection'.apk]
  <1>1. /\ UNCHANGED <<approved, staged, gate, sessions, results, installed, appRows, reviewed, used>>
        /\ gate.step = "free" /\ appCall' = [appCall EXCEPT ![c] = v]
        /\ inspection' = ReadInspection(staged) /\ installStatus' = ReadStatus(staged)
    BY DEF Associate, Reads
  <1>2. PackagesAgree'
    <2>1. used' \in Uses
      BY <1>1 DEF AppIInv, PackagesAgree, PackageTypes
    <2>2. QED
      BY <1>1, <2>1, ReadingKeeps DEF AppIInv
  <1>3. inspection'.apk \in reviewed
    <2>1. /\ installStatus'.state = "installed" /\ inspection'.id = installStatus'.sel
          /\ Installable(inspection'.apk)
      BY DEF Associate, IsInstalled
    <2>2. /\ installStatus'.op # 0 /\ installStatus'.sel # 0
          /\ sessions[installStatus'.op].sel = installStatus'.sel
          /\ sessions[installStatus'.op].apk \in reviewed
      BY <1>1, <1>2, <2>1 DEF PackagesAgree, InstalledWasReported
    <2>3. installStatus'.op \in 1..MaxOperations
      BY <1>2, <2>2, BoundsAreNat DEF PackagesAgree, PackageTypes, Statuses
    <2>4. sessions[installStatus'.op].apk = inspection'.apk
      BY <1>1, <1>2, <2>1, <2>2, <2>3 DEF PackagesAgree, OneFilePerSelection
    <2>5. QED
      BY <2>2, <2>4
  <1>4. /\ v \in [step : CallSteps, work : AppWorks \cup {"none"}, apk : Apks \cup {"none"},
                  id : 0..MaxRows, started : Apks \cup {"none"}]
        /\ v.step = "claim" /\ v.work = w /\ v.apk = inspection'.apk
    <2>1. 0 \in 0..MaxRows
      BY BoundsAreNat
    <2>2. inspection'.apk \in Apks
      BY <1>3 DEF AppIInv, AssociationsAgree, AssociationTypes
    <2>3. PICK a \in Apks : a = inspection'.apk
      BY <2>2
    <2> DEFINE u == [NoAppCall EXCEPT !.step = "claim", !.work = w, !.apk = a]
    <2>4. /\ u \in [step : CallSteps, work : AppWorks \cup {"none"}, apk : Apks \cup {"none"},
                    id : 0..MaxRows, started : Apks \cup {"none"}]
          /\ u.step = "claim" /\ u.work = w /\ u.apk = a
      BY <2>1 DEF NoAppCall, CallSteps
    <2>5. v = u
      BY <2>3
    <2> HIDE DEF u, v
    <2>6. QED
      BY <2>3, <2>4, <2>5
  <1> HIDE DEF v
  <1>5. AssociationsAgree'
    BY <1>1, <1>3, <1>4, CommandKeeps
  <1>6. QED
    BY <1>2, <1>5 DEF AppIInv

LEMMA ClaimAndVerifyKeep ==
    ASSUME AppIInv, NEW c \in AppCallers, CheckClaim(c) \/ VerifyInstalled(c) \/ ObserveLaunch(c)
    PROVE  AppIInv'
  <1>1. /\ UnchangedPackages /\ UNCHANGED <<installed, appRows, reviewed, used>>
        /\ appCall[c].step # "idle"
        /\ Refuses(c) \/ Moves(c, "verify") \/ Moves(c, "merge") \/ Moves(c, "start")
    BY DEF CheckClaim, VerifyInstalled, ObserveLaunch
  <1>2. PackagesAgree'
    BY <1>1, PackagesSame
  <1>3. "verify" \in CallSteps \ {"idle", "record"} /\ "merge" \in CallSteps \ {"idle", "record"}
        /\ "start" \in CallSteps \ {"idle", "record"}
    BY DEF CallSteps
  <1>4. AssociationsAgree'
    BY <1>1, <1>3, CommandEnds, CommandMoves
  <1>5. QED
    BY <1>2, <1>4 DEF AppIInv

LEMMA ReadExistingKeeps ==
    ASSUME AppIInv, NEW c \in AppCallers, ReadExisting(c)
    PROVE  AppIInv'
  <1> DEFINE v == [appCall[c] EXCEPT !.step = "save", !.id = appRows[appCall[c].work].id]
  <1>1. /\ UnchangedPackages /\ UNCHANGED <<installed, appRows, reviewed, used>>
        /\ appCall[c].step = "merge"
    BY DEF ReadExisting
  <1>2. appCall[c] \in [step : CallSteps, work : AppWorks \cup {"none"}, apk : Apks \cup {"none"},
                        id : 0..MaxRows, started : Apks \cup {"none"}]
    BY DEF AppIInv, AssociationsAgree, AssociationTypes
  <1>3. appCall[c].work \in AppWorks /\ appCall[c].apk \in reviewed
    BY <1>1 DEF AppIInv, AssociationsAgree, AssociatedIsReviewed
  <1>4. appRows[appCall[c].work].id \in 0..MaxRows
    BY <1>3 DEF AppIInv, AssociationsAgree, AssociationTypes
  <1>5. /\ v \in [step : CallSteps, work : AppWorks \cup {"none"}, apk : Apks \cup {"none"},
                  id : 0..MaxRows, started : Apks \cup {"none"}]
        /\ v.step = "save" /\ v.work = appCall[c].work /\ v.apk = appCall[c].apk
    BY <1>2, <1>4 DEF CallSteps
  <1>6. appCall' = [appCall EXCEPT ![c] = v]
    <2>1. appCall' = [appCall EXCEPT ![c].step = "save", ![c].id = appRows[appCall[c].work].id]
      BY DEF ReadExisting
    <2>2. QED
      BY <2>1, <1>2 DEF AppIInv, AssociationsAgree, AssociationTypes
  <1> HIDE DEF v
  <1>7. AssociationsAgree'
    BY <1>1, <1>3, <1>5, <1>6, CommandKeeps
  <1>8. QED
    BY <1>1, <1>7, PackagesSame DEF AppIInv

LEMMA SaveAssociationKeeps ==
    ASSUME AppIInv, NEW c \in AppCallers, SaveAssociation(c)
    PROVE  AppIInv'
  <1> DEFINE w == appCall[c].work
             id == IF appCall[c].id = 0 THEN used.rows + 1 ELSE appCall[c].id
  <1>1. /\ UnchangedPackages /\ UNCHANGED <<installed, reviewed>> /\ Refuses(c)
        /\ appCall[c].step = "save" /\ id <= MaxRows
        /\ \/ UNCHANGED <<appRows, used>>
           \/ /\ appRows' = [appRows EXCEPT ![w] = [id |-> id, apk |-> appCall[c].apk]]
              /\ \/ appCall[c].id = 0 /\ CountUse("rows")
                 \/ UNCHANGED used
    BY DEF SaveAssociation
  <1>2. w \in AppWorks /\ appCall[c].apk \in reviewed
    BY <1>1 DEF AppIInv, AssociationsAgree, AssociatedIsReviewed
  <1>3. id \in 0..MaxRows
    BY <1>1, BoundsAreNat
       DEF AppIInv, AssociationsAgree, AssociationTypes, PackagesAgree, PackageTypes, Uses
  <1>4. PackagesAgree'
    <2>1. CASE UNCHANGED used
      BY <1>1, <2>1, PackagesSame
    <2>2. CASE appCall[c].id = 0 /\ CountUse("rows")
      <3>1. used.rows < MaxRows
        BY <1>1, <2>2, BoundsAreNat DEF AppIInv, PackagesAgree, PackageTypes, Uses
      <3>2. /\ used' \in Uses /\ used'.selections = used.selections
            /\ used'.operations = used.operations
        BY <2>2, <3>1, CountedOnce DEF AppIInv, PackagesAgree, PackageTypes
      <3>3. QED
        BY <1>1, <3>2, PackagesRest DEF AppIInv, UnchangedPackages
    <2>3. QED
      BY <1>1, <2>1, <2>2
  <1>5. AssociationsAgree'
    <2>1. appCall' = [appCall EXCEPT ![c] = NoAppCall]
      BY <1>1 DEF Refuses
    <2>2. CASE UNCHANGED appRows
      BY <1>1, <2>2, CommandEnds
    <2>3. CASE appRows' = [appRows EXCEPT ![w] = [id |-> id, apk |-> appCall[c].apk]]
      <3> HIDE DEF id, w
      <3>1. AssociationTypes'
        BY <1>1, <1>2, <1>3, <2>1, <2>3, BoundsAreNat
           DEF AppIInv, AssociationsAgree, AssociationTypes, NoAppCall, CallSteps
      <3>2. AssociatedIsReviewed' /\ LaunchedIsReviewed'
        BY <1>1, <1>2, <2>1, <2>3
           DEF AppIInv, AssociationsAgree, AssociationTypes, AssociatedIsReviewed, LaunchedIsReviewed,
               NoAppCall
      <3>3. QED
        BY <3>1, <3>2 DEF AssociationsAgree
    <2>4. QED
      BY <1>1, <2>2, <2>3
  <1>6. QED
    BY <1>4, <1>5 DEF AppIInv

LEMMA RemoveAssociationKeeps ==
    ASSUME AppIInv, NEW c \in AppCallers, NEW w \in AppWorks, RemoveAssociation(c, w)
    PROVE  AppIInv'
  <1>1. /\ UnchangedPackages /\ UNCHANGED <<installed, appCall, reviewed, used>>
        /\ appRows' = [appRows EXCEPT ![w] = NoRow]
    BY DEF RemoveAssociation
  <1>2. AssociationTypes'
    BY <1>1, BoundsAreNat DEF AppIInv, AssociationsAgree, AssociationTypes, NoRow
  <1>3. AssociatedIsReviewed' /\ LaunchedIsReviewed'
    BY <1>1 DEF AppIInv, AssociationsAgree, AssociationTypes, AssociatedIsReviewed, LaunchedIsReviewed,
           NoRow
  <1>4. QED
    BY <1>1, <1>2, <1>3, PackagesSame DEF AppIInv, AssociationsAgree

LEMMA LaunchAppKeeps ==
    ASSUME AppIInv, NEW c \in AppCallers, NEW w \in AppWorks, LaunchApp(c, w)
    PROVE  AppIInv'
  <1> DEFINE v == [NoAppCall EXCEPT !.step = "observe", !.work = w, !.apk = appRows[w].apk,
                                    !.id = appRows[w].id]
  <1>1. /\ UnchangedPackages /\ UNCHANGED <<installed, appRows, reviewed, used>>
        /\ appRows[w].id # 0 /\ appCall' = [appCall EXCEPT ![c] = v]
    BY DEF LaunchApp
  <1>2. appRows[w].apk \in reviewed /\ appRows[w].id \in 0..MaxRows
    BY <1>1 DEF AppIInv, AssociationsAgree, AssociationTypes, AssociatedIsReviewed
  <1>3. /\ v \in [step : CallSteps, work : AppWorks \cup {"none"}, apk : Apks \cup {"none"},
                  id : 0..MaxRows, started : Apks \cup {"none"}]
        /\ v.step = "observe" /\ v.work = w /\ v.apk = appRows[w].apk
    BY <1>2 DEF NoAppCall, CallSteps, AppIInv, AssociationsAgree, AssociationTypes
  <1> HIDE DEF v
  <1>4. AssociationsAgree'
    BY <1>1, <1>2, <1>3, CommandKeeps
  <1>5. QED
    BY <1>1, <1>4, PackagesSame DEF AppIInv

\* The start looks at the certificates of what is installed.
LEMMA StartAppKeeps ==
    ASSUME AppIInv, NEW c \in AppCallers, StartApp(c)
    PROVE  AppIInv'
  <1> DEFINE a == appCall[c].apk
             b == installed[PackageOf[a]]
             v == [appCall[c] EXCEPT !.step = "record", !.started = b]
  <1>1. /\ UnchangedPackages /\ UNCHANGED <<installed, appRows, reviewed, used>>
        /\ appCall[c].step = "start"
        /\ Refuses(c) \/ (SignerMatches(a) /\ AppStarts(c))
    BY DEF StartApp
  <1>2. appCall[c] \in [step : CallSteps, work : AppWorks \cup {"none"}, apk : Apks \cup {"none"},
                        id : 0..MaxRows, started : Apks \cup {"none"}]
    BY DEF AppIInv, AssociationsAgree, AssociationTypes
  <1>3. appCall[c].work \in AppWorks /\ a \in reviewed
    BY <1>1 DEF AppIInv, AssociationsAgree, AssociatedIsReviewed
  <1>4. b \in Apks \cup {"none"}
    BY <1>3 DEF AppIInv, AssociationsAgree, AssociationTypes, AppPackages
  <1>5. /\ v \in [step : CallSteps, work : AppWorks \cup {"none"}, apk : Apks \cup {"none"},
                  id : 0..MaxRows, started : Apks \cup {"none"}]
        /\ v.step = "record" /\ v.work = appCall[c].work /\ v.apk = a /\ v.started = b
    BY <1>2, <1>4 DEF CallSteps
  <1>6. CASE SignerMatches(a) /\ AppStarts(c)
    <2>1. appCall' = [appCall EXCEPT ![c] = v]
      <3>1. appCall' = [appCall EXCEPT ![c].step = "record", ![c].started = b]
        BY <1>6 DEF AppStarts
      <3>2. QED
        BY <3>1, <1>2 DEF AppIInv, AssociationsAgree, AssociationTypes
    <2>2. b # "none" /\ SignersOf[a] \cap HistoryOf[b] # {}
      BY <1>6 DEF SignerMatches, Observed
    <2> HIDE DEF v, b
    <2>3. AssociationsAgree'
      BY <1>1, <1>3, <1>5, <2>1, <2>2, CommandKeeps
    <2>4. QED
      BY <1>1, <2>3, PackagesSame DEF AppIInv
  <1>7. CASE Refuses(c)
    BY <1>1, <1>7, CommandEnds, PackagesSame DEF AppIInv
  <1>8. QED
    BY <1>1, <1>6, <1>7

LEMMA RecordLaunchKeeps ==
    ASSUME AppIInv, NEW c \in AppCallers, RecordLaunch(c)
    PROVE  AppIInv'
  BY CommandEnds, PackagesSame DEF RecordLaunch, AppIInv

-----------------------------------------------------------------------------

LEMMA AppNextKeeps == AppIInv /\ [AppNext]_appVars => AppIInv'
  <1> SUFFICES ASSUME AppIInv, [AppNext]_appVars PROVE AppIInv'
    OBVIOUS
  <1>1. CASE PollInstall \/ HalfMinutePasses
    BY <1>1, PollInstallKeeps, HalfMinuteKeeps
  <1>2. CASE SelectPackage \/ ClearSelection \/ OpenSourceApproval \/ RequestInstall
    BY <1>2, ReadersKeep, ClearSelectionKeeps
  <1>3. CASE GateStep
    BY <1>3, PackageSelectedKeeps, GateStepsKeep, CheckCopyKeeps, CreateSessionKeeps,
       CommitSessionKeeps DEF GateStep
  <1>4. ASSUME NEW o \in 1..MaxOperations, Installer(o) \/ Receive(o) \/ ResultLost(o)
        PROVE  AppIInv'
    BY <1>4, InstallerAnswersKeeps, InstallerForgetsKeeps, ReceiveKeeps, ResultLostKeeps DEF Installer
  <1>5. ASSUME NEW c \in AppCallers, NEW w \in AppWorks,
               Associate(c, w) \/ RemoveAssociation(c, w) \/ LaunchApp(c, w)
        PROVE  AppIInv'
    BY <1>5, AssociateKeeps, RemoveAssociationKeeps, LaunchAppKeeps
  <1>6. ASSUME NEW c \in AppCallers, AppStep(c)
        PROVE  AppIInv'
    BY <1>6, ClaimAndVerifyKeep, ReadExistingKeeps, SaveAssociationKeeps, StartAppKeeps,
       RecordLaunchKeeps DEF AppStep
  <1>7. CASE ChangedOutside \/ AppCrash
    BY <1>7, ChangedOutsideKeeps, CrashKeeps
  <1>8. CASE UNCHANGED appVars
    <2>1. /\ UnchangedPackages /\ UNCHANGED <<installed, appRows, appCall, reviewed, used>>
      BY <1>8 DEF appVars, UnchangedPackages
    <2>2. QED
      BY <2>1, PackagesSame, AssociationsRest DEF AppIInv, AssociationsAgree, AssociationTypes
  <1>9. QED
    BY <1>1, <1>2, <1>3, <1>4, <1>5, <1>6, <1>7, <1>8 DEF AppNext

\* AndroidPackages keeps its inductive invariant.
THEOREM AppInductive == AppSpec => []AppIInv
  <1>1. QED
    BY AppInitHolds, AppNextKeeps, PTL DEF AppSpec

\* What is started for a work is signed by the signer of a package that was reviewed and seen
\* installed, for any files, signers, works, callers and any number of selections and operations.
THEOREM LaunchedStaysReviewed == AppSpec => []LaunchedIsReviewed
  <1>1. AppIInv => LaunchedIsReviewed
    BY DEF AppIInv, AssociationsAgree
  <1>2. QED
    BY <1>1, AppInductive, PTL

\* Selections, the gate, sessions and associations stay what they may be.
THEOREM AppTypeCorrect == AppSpec => []AppTypeOK
  <1>1. AppIInv => AppTypeOK
    <2> SUFFICES ASSUME AppIInv PROVE AppTypeOK
      OBVIOUS
    <2>1. \A c \in AppCallers :
             /\ appCall[c].work \in AppWorks \cup {"none"} /\ appCall[c].id \in 0..MaxRows
             /\ appCall[c].apk \in Apks \cup {"none"} /\ appCall[c].started \in Apks \cup {"none"}
      BY DEF AppIInv, AssociationsAgree, AssociationTypes
    <2>2. /\ installed \in [AppPackages -> Apks \cup {"none"}] /\ reviewed \subseteq Apks
          /\ \A w \in AppWorks : appRows[w].id \in 0..MaxRows /\ appRows[w].apk \in Apks \cup {"none"}
      BY DEF AppIInv, AssociationsAgree, AssociationTypes
    <2>3. QED
      BY <2>1, <2>2 DEF AppIInv, PackagesAgree, PackageTypes, AppTypeOK, Statuses, Gates,
                        SystemSessions, Broadcasts, Uses
  <1>2. QED
    BY <1>1, AppInductive, PTL

===============================================================================
