----------------------------- MODULE MCActivities -----------------------------
(*****************************************************************************)
(* The parts of the launcher a user works with, each checked on a small      *)
(* instance. They share no state, so a behaviour is about one of them,       *)
(* chosen in the initial state, and the others keep theirs: the run          *)
(* explores the sum of their state spaces. The configuration gives their     *)
(* values to the constants of the components that are extended; those of     *)
(* the others get theirs where they are instantiated.                        *)
(*****************************************************************************)
EXTENDS Naturals, Sequences, FiniteSets, TLC, Launch, ScanInstalls,
        AndroidPackages, ArchiveTransfer

\* The package files of AndroidPackages: two signed alike, one of them of a package that is
\* never launched, and a fork of the first under the same name.
PackageOfApk == [a \in {"good", "fork", "own"} |-> "p"]
SignersOfApk == [a \in {"good", "fork", "own"} |-> {IF a = "fork" THEN "s2" ELSE "s1"}]
\* What the catalog lists and the service holds for ReleaseDelivery: two manifests of one
\* size, and one that does not parse; a work whose newest release has two volumes, and one
\* with two releases of one day.
ReleaseFile(name, digest, size) == [name |-> name, digest |-> digest, size |-> size]
ReleaseManifest(size, valid, list) == [size |-> size, valid |-> valid, files |-> list]
ReleaseManifests ==
    <<ReleaseManifest(1, TRUE, {ReleaseFile(1, 1, 1), ReleaseFile(2, 2, 0)}),
      ReleaseManifest(1, TRUE, {ReleaseFile(3, 1, 1), ReleaseFile(4, 1, 2), ReleaseFile(2, 2, 1)}),
      ReleaseManifest(2, FALSE, {})>>
Rom(date, version, digest) ==
    [date |-> date, version |-> version, digest |-> digest, size |-> 1]
ReleaseRoms == <<Rom(2, 1, 1), Rom(1, 1, 2), Rom(2, 1, 2)>>
ReleaseOf(roms, hints, server) == [roms |-> roms, hints |-> hints, server |-> server]
ReleaseStarts ==
    {ReleaseOf(ReleaseRoms, <<>>, <<1, 2>>), ReleaseOf(ReleaseRoms, <<2, 1>>, <<2, 1>>),
     ReleaseOf(ReleaseRoms, <<1>>, <<3, 1>>),
     ReleaseOf(<<Rom(1, 1, 3), Rom(2, 1, 1), Rom(2, 2, 2)>>, <<3, 1>>, <<1, 0>>)}

VARIABLE focus   \* the component this behaviour is about

VARIABLES connector_pc, connector_stopFlag, connector_local,
          connector_slot, connector_heard, connector_port, connector_state,
          connector_pause, connector_attempt, connector_caller,
          connector_faults, connector_orphan
VARIABLES queue_store, queue_created, queue_files, queue_signedIn,
          queue_workerFlag, queue_running, queue_control, queue_pc,
          queue_held, queue_caller, queue_stopAsked, queue_unsaved,
          queue_halted, queue_commands, queue_crashes, queue_failedSaves
VARIABLES release_server, release_saved, release_roms, release_hints,
          release_job, release_at, release_search, release_staged,
          release_known, release_runs, release_events, release_named,
          release_through, release_early

C == INSTANCE Connector WITH
    BackoffSteps <- 2, MaxAttempts <- 3, MaxFaults <- 1,
    pc <- connector_pc, stopFlag <- connector_stopFlag,
    local <- connector_local, slot <- connector_slot,
    heard <- connector_heard, port <- connector_port,
    state <- connector_state, pause <- connector_pause,
    attempt <- connector_attempt, caller <- connector_caller,
    faults <- connector_faults, orphan <- connector_orphan

Q == INSTANCE DeliveryQueue WITH
    Works <- {"w1"}, NoWork <- "none", Workers <- {"t1", "t2"},
    Callers <- {"c1"}, Archives <- 1, MaxJobs <- 2, MaxCommands <- 3,
    MaxCrashes <- 0, MaxFailedSaves <- 0, store <- queue_store,
    created <- queue_created, files <- queue_files,
    signedIn <- queue_signedIn, workerFlag <- queue_workerFlag,
    running <- queue_running, control <- queue_control, pc <- queue_pc,
    held <- queue_held, caller <- queue_caller,
    stopAsked <- queue_stopAsked, unsaved <- queue_unsaved,
    halted <- queue_halted, commands <- queue_commands,
    crashes <- queue_crashes, failedSaves <- queue_failedSaves

R == INSTANCE ReleaseDelivery WITH
    Manifests <- ReleaseManifests, Starts <- ReleaseStarts, MaxRuns <- 2,
    MaxEvents <- 2, server <- release_server, saved <- release_saved,
    roms <- release_roms, hints <- release_hints, job <- release_job,
    at <- release_at, search <- release_search, staged <- release_staged,
    known <- release_known, runs <- release_runs, events <- release_events,
    named <- release_named, through <- release_through,
    early <- release_early

connector_vars == <<connector_pc, connector_stopFlag, connector_local,
                    connector_slot, connector_heard, connector_port,
                    connector_state, connector_pause, connector_attempt,
                    connector_caller, connector_faults, connector_orphan>>
queue_vars == <<queue_store, queue_created, queue_files, queue_signedIn,
                queue_workerFlag, queue_running, queue_control, queue_pc,
                queue_held, queue_caller, queue_stopAsked, queue_unsaved,
                queue_halted, queue_commands, queue_crashes,
                queue_failedSaves>>
release_vars == <<release_server, release_saved, release_roms,
                  release_hints, release_job, release_at, release_search,
                  release_staged, release_known, release_runs,
                  release_events, release_named, release_through,
                  release_early>>

all_vars == <<focus, launchVars, connector_vars, installVars, queue_vars,
              appVars, release_vars, vars>>

Components == {"launch", "connector", "installs", "queue", "android", "release", "transfer"}

AllInit ==
    /\ focus \in Components
    /\ LaunchInit
    /\ C!Init
    /\ InstallInit
    /\ Q!Init
    /\ AppInit
    /\ R!Init
    /\ focus # "release" => release_roms = ReleaseRoms /\ release_hints = <<>>
    /\ Init
    /\ focus # "transfer" => remote = "wanted" /\ part = <<>> /\ target = NoFile

LaunchStep ==
    /\ focus = "launch" /\ LaunchNext
    /\ UNCHANGED <<focus, connector_vars, installVars, queue_vars, appVars,
                   release_vars, vars>>

ConnectorStep ==
    /\ focus = "connector" /\ C!Next
    /\ UNCHANGED <<focus, launchVars, installVars, queue_vars, appVars,
                   release_vars, vars>>

InstallsStep ==
    /\ focus = "installs" /\ InstallNext
    /\ UNCHANGED <<focus, launchVars, connector_vars, queue_vars, appVars,
                   release_vars, vars>>

QueueStep ==
    /\ focus = "queue" /\ Q!Next
    /\ UNCHANGED <<focus, launchVars, connector_vars, installVars, appVars,
                   release_vars, vars>>

AndroidStep ==
    /\ focus = "android" /\ AppNext
    /\ UNCHANGED <<focus, launchVars, connector_vars, installVars,
                   queue_vars, release_vars, vars>>

ReleaseStep ==
    /\ focus = "release" /\ R!Next
    /\ UNCHANGED <<focus, launchVars, connector_vars, installVars,
                   queue_vars, appVars, vars>>

TransferStep ==
    /\ focus = "transfer" /\ Next
    /\ UNCHANGED <<focus, launchVars, connector_vars, installVars,
                   queue_vars, appVars, release_vars>>

AllNext ==
    \/ LaunchStep
    \/ ConnectorStep
    \/ InstallsStep
    \/ QueueStep
    \/ AndroidStep
    \/ ReleaseStep
    \/ TransferStep

\* The fairness of each component's own specification.
Fairness ==
    /\ \A a \in Attempts : WF_launchVars(focus = "launch" /\ CallStep(a))
    /\ \A a \in Attempts : WF_launchVars(focus = "launch" /\ MonitorStep(a))
    /\ \A a \in Attempts : WF_launchVars(focus = "launch" /\ proc[a] = "dying" /\ Exit(a))
    /\ WF_connector_vars(focus = "connector" /\ C!Supervise)
    /\ WF_connector_vars(focus = "connector" /\ C!Kill)
    /\ WF_connector_vars(focus = "connector" /\ C!Join)
    /\ WF_installVars(focus = "installs" /\ Holder)
    /\ WF_installVars(focus = "installs" /\ LookAgain)
    /\ WF_installVars(focus = "installs" /\ Retake)
    /\ WF_installVars(focus = "installs" /\ FinishOther)
    /\ \A w \in Works : WF_installVars(focus = "installs" /\ (Enqueue(w) \/ Kick(w)))
    /\ \A w \in Works : WF_installVars(focus = "installs" /\ Forget(w))
    /\ \A t \in {"t1", "t2"} : WF_queue_vars(focus = "queue" /\ Q!WorkerStep(t))
    /\ \A c \in {"c1"} : WF_queue_vars(focus = "queue" /\ Q!CommandStep(c))
    /\ WF_appVars(focus = "android" /\ PollInstall)
    /\ WF_appVars(focus = "android" /\ HalfMinutePasses)
    /\ WF_appVars(focus = "android" /\ GateStep)
    /\ WF_appVars(focus = "android" /\ Installer(1))
    /\ WF_appVars(focus = "android" /\ Receive(1))
    /\ WF_vars(focus = "transfer" /\ Step)

AllSpec == AllInit /\ [][AllNext]_all_vars /\ Fairness

-----------------------------------------------------------------------------
(* The properties of the components, stated and explained in their modules.  A component *)
(* that is not the focus keeps an initial state, where its invariants need no look.       *)

\* What is delivered is what was asked for; the type invariants of the components.
DeliveredIsAsked ==
    /\ focus = "launch" => LaunchTypeOK
    /\ focus = "connector" => C!TypeOK
    /\ focus = "installs" => InstallTypeOK
    /\ focus = "queue" => Q!TypeOK
    /\ focus = "android" => AppTypeOK
    /\ focus = "release" => R!DeliveredIsAsked
    /\ focus = "transfer" => TypeOK

\* A stop of the connector returns and leaves nothing of it.
StopIsForGood == C!StopIsForGood

\* A queued job is taken up or the session ends.
QueuedIsServed == Q!QueuedIsServed

=============================================================================
