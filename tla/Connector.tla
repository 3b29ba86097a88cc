------------------------------ MODULE Connector ------------------------------
(***************************************************************************)
(* The private connector: one cloudflared process on a loopback port, kept *)
(* alive by a supervisor thread with a growing pause between restarts.     *)
(*                                                                         *)
(* Source: dla-connector/src/lib.rs.  Two threads: the supervisor          *)
(* (supervise, run_once, wait_listening) and the one that calls `stop` (or *)
(* drops the Connector).  They share the stop flag, the slot `child` behind *)
(* a lock, the published port and the state.  A process lives in the local *)
(* variable of run_once before it is in the slot, which is what makes the  *)
(* stop delicate: the flag may be raised and the slot emptied in between.  *)
(***************************************************************************)
EXTENDS Naturals

CONSTANTS
    BackoffSteps,   \* entries of BACKOFF_SECONDS, 5 in the code
    MaxAttempts,    \* bound: restarts counted before the environment behaves
    MaxFaults       \* bound: try_wait calls that fail

VARIABLES
    pc,         \* where the supervisor thread stands
    stopFlag,   \* the stop request
    local,      \* the process in run_once's variable: "none", "alive", "exited"
    slot,       \* the process in the shared slot
    heard,      \* the start-up line of the process was read
    port,       \* the published port: the process it belongs to, or none
    state,      \* ConnectorState
    pause,      \* the entry of BACKOFF_SECONDS a restarting state announces
    attempt,    \* restarts since the connector last listened
    caller,     \* where the thread that stops the connector stands
    faults,     \* faults spent
    orphan      \* history: a process that try_wait failed on is running unwatched

vars == <<pc, stopFlag, local, slot, heard, port, state, pause, attempt, caller, faults, orphan>>

Process == {"none", "alive", "exited"}

TypeOK ==
    /\ pc \in {"top", "spawn", "release", "store", "check", "listen", "watch", "after",
               "pause", "end", "done"}
    /\ stopFlag \in BOOLEAN /\ heard \in BOOLEAN /\ port \in BOOLEAN /\ orphan \in BOOLEAN
    /\ local \in Process /\ slot \in Process
    /\ state \in {"starting", "listening", "restarting", "stopped"}
    /\ pause \in 0..BackoffSteps
    /\ attempt \in 0..MaxAttempts
    /\ caller \in {"idle", "kill", "join", "returned"}
    /\ faults \in 0..MaxFaults

Init ==
    /\ pc = "top" /\ stopFlag = FALSE /\ local = "none" /\ slot = "none"
    /\ heard = FALSE /\ port = FALSE /\ state = "starting" /\ pause = 0 /\ attempt = 0
    /\ caller = "idle" /\ faults = 0 /\ orphan = FALSE

-----------------------------------------------------------------------------
(* The supervisor.                                                         *)

Top ==
    /\ pc = "top"
    /\ pc' = IF stopFlag THEN "end" ELSE "spawn"
    /\ UNCHANGED <<stopFlag, local, slot, heard, port, state, pause, attempt, caller, faults, orphan>>

\* No free port or no program: the run is over before it began.
Spawn ==
    /\ pc = "spawn"
    /\ heard' = FALSE
    /\ \/ pc' = "release" /\ local' = "alive"
       \/ pc' = "after" /\ UNCHANGED local
    /\ UNCHANGED <<stopFlag, slot, port, state, pause, attempt, caller, faults, orphan>>

\* Windows: the suspended process joins the job and is resumed, or is killed.
Release ==
    /\ pc = "release"
    /\ \/ pc' = "store" /\ UNCHANGED local
       \/ pc' = "after" /\ local' = "none"
    /\ UNCHANGED <<stopFlag, slot, heard, port, state, pause, attempt, caller, faults, orphan>>

\* What the slot still held, a process try_wait failed on, is dropped without
\* being killed.
Store ==
    /\ pc = "store"
    /\ pc' = "check"
    /\ slot' = local /\ local' = "none"
    /\ orphan' = (orphan \/ slot = "alive")
    /\ UNCHANGED <<stopFlag, heard, port, state, pause, attempt, caller, faults>>

\* (Wrong form.) The stop is looked for before the process is in the slot only.
NoCheckStop ==
    /\ pc = "check" /\ pc' = "listen"
    /\ UNCHANGED <<stopFlag, local, slot, heard, port, state, pause, attempt, caller, faults, orphan>>

CheckStop ==
    /\ pc = "check"
    /\ IF stopFlag
       THEN pc' = "after" /\ slot' = "none"
       ELSE pc' = "listen" /\ UNCHANGED slot
    /\ UNCHANGED <<stopFlag, local, heard, port, state, pause, attempt, caller, faults, orphan>>

\* wait_listening: the start-up line, the process gone, a stop, or fifteen
\* seconds and then a connection tried on the port.
Listen ==
    /\ pc = "listen"
    /\ \E answered \in BOOLEAN :
         /\ answered => heard \/ slot = "alive"
         /\ ~answered => slot # "alive" \/ stopFlag \/ ~heard
         /\ pc' = "watch"
         /\ IF answered
            THEN attempt' = 0 /\ port' = TRUE /\ state' = "listening"
            ELSE UNCHANGED <<attempt, port, state>>
    /\ UNCHANGED <<stopFlag, local, slot, heard, pause, caller, faults, orphan>>

\* One turn of the polling loop; the lock is held across the turn.
Watch ==
    /\ pc = "watch"
    /\ \/ slot = "none" /\ pc' = "after" /\ UNCHANGED <<slot, faults>>
       \/ slot = "exited" /\ pc' = "after" /\ slot' = "none" /\ UNCHANGED faults
       \/ /\ slot # "none" /\ faults < MaxFaults
          /\ faults' = faults + 1 /\ pc' = "after" /\ UNCHANGED slot
    /\ UNCHANGED <<stopFlag, local, heard, port, state, pause, attempt, caller, orphan>>

\* The entry of BACKOFF_SECONDS after n restarts.
Backoff(n) == IF n < BackoffSteps THEN n + 1 ELSE BackoffSteps

\* The port is withdrawn before the stop is looked at.
AfterRun ==
    /\ pc = "after"
    /\ port' = FALSE
    /\ IF stopFlag
       THEN pc' = "end" /\ UNCHANGED <<attempt, state, pause>>
       ELSE /\ pc' = "pause"
            /\ state' = "restarting" /\ pause' = Backoff(attempt)
            /\ attempt' = IF attempt < MaxAttempts THEN attempt + 1 ELSE attempt
    /\ UNCHANGED <<stopFlag, local, slot, heard, caller, faults, orphan>>

\* The pause ends by the clock or by the stop, looked at every 100 ms.
Pause ==
    /\ pc = "pause" /\ pc' = "top"
    /\ UNCHANGED <<stopFlag, local, slot, heard, port, state, pause, attempt, caller, faults, orphan>>

End ==
    /\ pc = "end" /\ pc' = "done"
    /\ state' = "stopped"
    /\ UNCHANGED <<stopFlag, local, slot, heard, port, pause, attempt, caller, faults, orphan>>

-----------------------------------------------------------------------------
(* The process, and the thread that stops the connector.                   *)

Mark ==
    /\ "alive" \in {local, slot} /\ ~heard
    /\ heard' = TRUE
    /\ UNCHANGED <<pc, stopFlag, local, slot, port, state, pause, attempt, caller, faults, orphan>>

Exit ==
    /\ \/ local = "alive" /\ local' = "exited" /\ UNCHANGED slot
       \/ slot = "alive" /\ slot' = "exited" /\ UNCHANGED local
    /\ UNCHANGED <<pc, stopFlag, heard, port, state, pause, attempt, caller, faults, orphan>>

RequestStop ==
    /\ caller = "idle" /\ caller' = "kill"
    /\ stopFlag' = TRUE
    /\ UNCHANGED <<pc, local, slot, heard, port, state, pause, attempt, faults, orphan>>

\* kill: takes the process out of the slot, if there is one, and reaps it.
Kill ==
    /\ caller = "kill" /\ caller' = "join"
    /\ slot' = "none"
    /\ UNCHANGED <<pc, stopFlag, local, heard, port, state, pause, attempt, faults, orphan>>

Join ==
    /\ caller = "join" /\ pc = "done" /\ caller' = "returned"
    /\ UNCHANGED <<pc, stopFlag, local, slot, heard, port, state, pause, attempt, faults, orphan>>

Supervise ==
    \/ Top \/ Spawn \/ Release \/ Store \/ CheckStop \/ Listen \/ Watch
    \/ AfterRun \/ Pause \/ End

Next == Supervise \/ Mark \/ Exit \/ RequestStop \/ Kill \/ Join

\* Both threads run; nothing makes the process speak, exit or be stopped.
Spec == Init /\ [][Next]_vars /\ WF_vars(Supervise) /\ WF_vars(Kill) /\ WF_vars(Join)

-----------------------------------------------------------------------------
(* Properties.                                                             *)

\* When `stop` has returned nothing of the connector is left: no process in the
\* slot or on its way there, no port published, and the state says so.  Only a
\* process that try_wait failed on can have escaped.
StopLeavesNothing ==
    /\ caller = "returned" => /\ slot = "none" /\ local # "alive"
                              /\ ~port /\ state = "stopped"
    /\ orphan => faults > 0

\* `stop` returns for good, wherever the supervisor was between two restarts: it joins
\* a thread that could be waiting for a process nobody kills, or start another one.
StopIsForGood == stopFlag ~> [](caller = "returned" /\ StopLeavesNothing)
=============================================================================
