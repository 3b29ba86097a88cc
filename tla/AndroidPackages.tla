--------------------------- MODULE AndroidPackages ---------------------------
(***************************************************************************)
(* Applications on Android: a package the user chooses is copied, inspected *)
(* and handed to the system installer, and the installed application is    *)
(* associated with a work and started from the library.                    *)
(*                                                                         *)
(*   dla-android-package-tauri  AndroidPackagePlugin.kt (threads that       *)
(*       select and install), AndroidPackageStateStore.kt (what is kept     *)
(*       about them), PackageInstallResultReceiver.kt (the installer's      *)
(*       broadcasts), AndroidPackagePolicy.kt, AndroidAppPolicy.kt          *)
(*   dla-application  android_package.rs (one operation at a time),         *)
(*       android_app.rs (associations and launches)                         *)
(*   dla-sqlite  android_app.rs (the table of associations)                 *)
(*                                                                         *)
(* A session of the system installer is named by the operation that made    *)
(* it.  Android itself (its installer, the packages the user changes        *)
(* outside, the permission to install) is the environment.                  *)
(***************************************************************************)
EXTENDS Naturals, Sequences, FiniteSets

CONSTANTS
    Apks,         \* the files the user may choose
    PackageOf,    \* [Apks -> package name]
    SignersOf,    \* [Apks -> the certificates the file is signed with]
    HistoryOf,    \* [Apks -> the certificates Android reports once it is installed]
    BlockedApks,  \* the ones the policy refuses (the launcher itself, split, too new, unsigned)
    AppWorks, AppCallers,
    MaxSelections, MaxOperations, MaxRows, MaxOutside, MaxAppCrashes

ASSUME AppBounds ==
    {MaxSelections, MaxOperations, MaxRows, MaxOutside, MaxAppCrashes} \subseteq Nat

VARIABLES
    approved,       \* the user allows the launcher to install packages
    inspection,     \* the kept inspection: [id, apk], id = 0 when there is none
    staged,         \* the selections whose private copy is on disk
    installStatus,  \* the kept install status
    gate,           \* the operation that holds the service's gate
    sessions,       \* [operation -> its session of the system installer]
    results,        \* [operation -> broadcasts not yet received]
    installed,      \* [package -> the file Android has installed, or "none"]
    appRows,        \* [work -> its association]
    appCall,        \* [caller -> the association command it runs]
    reviewed,       \* history: files whose installation the launcher saw succeed
    used            \* how often each bounded thing happened

appVars == <<approved, inspection, staged, installStatus, gate, sessions, results, installed,
             appRows, appCall, reviewed, used>>

AppPackages == {PackageOf[a] : a \in Apks \ BlockedApks}
NoInspection == [id |-> 0, apk |-> "none"]
NoStatus == [op |-> 0, sel |-> 0, state |-> "none", session |-> 0, old |-> FALSE]
NoSession == [phase |-> "none", sel |-> 0, apk |-> "none"]
FreeGate == [step |-> "free", id |-> 0, apk |-> "none"]
NoRow == [id |-> 0, apk |-> "none"]
NoAppCall == [step |-> "idle", work |-> "none", apk |-> "none", id |-> 0, started |-> "none"]

AppTypeOK ==
    /\ approved \in BOOLEAN
    /\ inspection \in [id : 0..MaxSelections, apk : Apks \cup {"none"}]
    /\ staged \subseteq 1..MaxSelections
    /\ installStatus \in [op : 0..MaxOperations, sel : 0..MaxSelections, session : 0..MaxOperations,
                   state : {"none", "approval_required", "preparing", "awaiting_user_confirmation",
                            "installed", "cancelled", "failed"}, old : BOOLEAN]
    /\ gate \in [step : {"free", "choosing", "copied", "cleared", "renamed", "approving", "asked",
                         "preparing", "created"}, id : 0..MaxSelections, apk : Apks \cup {"none"}]
    /\ sessions \in [1..MaxOperations ->
                       [phase : {"none", "open", "committed", "asked", "shown", "ended"},
                        sel : 0..MaxSelections, apk : Apks \cup {"none"}]]
    /\ \A o \in 1..MaxOperations :
          results[o] \in
            {<<>>, <<"pending_user_action">>, <<"success">>, <<"aborted">>, <<"failure">>}
    /\ installed \in [AppPackages -> Apks \cup {"none"}]
    /\ \A w \in AppWorks : appRows[w].id \in 0..MaxRows /\ appRows[w].apk \in Apks \cup {"none"}
    /\ \A c \in AppCallers :
          /\ appCall[c].work \in AppWorks \cup {"none"} /\ appCall[c].id \in 0..MaxRows
          /\ {appCall[c].apk, appCall[c].started} \subseteq Apks \cup {"none"}
    /\ reviewed \subseteq Apks
    /\ used \in [selections : 0..MaxSelections, operations : 0..MaxOperations, rows : 0..MaxRows,
                 outside : 0..MaxOutside, crashes : 0..MaxAppCrashes]

AppInit ==
    /\ approved = TRUE
    /\ inspection = NoInspection /\ staged = {} /\ installStatus = NoStatus /\ gate = FreeGate
    /\ sessions = [o \in 1..MaxOperations |-> NoSession]
    /\ results = [o \in 1..MaxOperations |-> <<>>]
    /\ installed = [p \in AppPackages |-> "none"]
    /\ appRows = [w \in AppWorks |-> NoRow] /\ appCall = [c \in AppCallers |-> NoAppCall]
    /\ reviewed = {}
    /\ used = [selections |-> 0, operations |-> 0, rows |-> 0, outside |-> 0, crashes |-> 0]

CountUse(thing) == used' = [used EXCEPT ![thing] = @ + 1]

-----------------------------------------------------------------------------
(* What is kept, and what a read of it answers.                            *)

Installable(apk) == apk \notin BlockedApks
Inspection(id, apk) == [id |-> id, apk |-> apk]
Pending(s) == s.state \in {"preparing", "awaiting_user_confirmation"}

\* saveInstallStatus: a status keeps the session its operation had.
Status(op, sel, state, session) ==
    [op |-> op, sel |-> sel, state |-> state, old |-> FALSE,
     session |-> IF session = 0 /\ installStatus.op = op /\ installStatus.sel = sel
                 THEN installStatus.session ELSE session]

\* cleanupExpired: a copy that is gone (a day old, deleted) takes its inspection along, unless an
\* installation was started from it.
Outlived(files) ==
    /\ inspection.id # 0 /\ Installable(inspection.apk)
    /\ ~(/\ installStatus.sel = inspection.id
         /\ installStatus.state \in {"preparing", "awaiting_user_confirmation", "installed"})
    /\ inspection.id \notin files

\* (Wrong form.) Only a session that was recorded can be missed.
MissesKnown(s) ==
    /\ Pending(s) /\ s.old /\ s.session # 0
    /\ sessions[s.session].phase \notin {"open", "committed", "asked", "shown"}

\* reconcileInstallSession: thirty seconds without news of a session Android no longer has.
SessionIsGone(s) ==
    /\ Pending(s) /\ s.old
    /\ s.session = 0 \/ sessions[s.session].phase \notin {"open", "committed", "asked", "shown"}

\* readState, with the files that are still there.
ReadInspection(files) == IF Outlived(files) THEN NoInspection ELSE inspection
ReadStatus(files) ==
    CASE Outlived(files) -> NoStatus
      [] ~Outlived(files) /\ SessionIsGone(installStatus) ->
            [installStatus EXCEPT !.state = "failed", !.old = FALSE]
      [] OTHER -> installStatus

\* validate_state: a status speaks of the inspection beside it.
ValidState(i, s) == s.state = "none" \/ (i.id # 0 /\ s.sel = i.id)

\* What every operation does first: it takes the gate and reads the state.
Reads ==
    /\ gate.step = "free"
    /\ inspection' = ReadInspection(staged) /\ installStatus' = ReadStatus(staged)
    /\ ValidState(inspection', installStatus')

\* The page asks again every 750 ms while an installation is pending.  A day may have passed.
PollInstall ==
    /\ gate.step = "free"
    /\ \E files \in {staged, {}} :
          /\ inspection' = ReadInspection(files) /\ installStatus' = ReadStatus(files)
          /\ staged' = files
    /\ UNCHANGED <<approved, gate, sessions, results, installed, appRows, appCall, reviewed, used>>

HalfMinutePasses ==
    /\ Pending(installStatus) /\ ~installStatus.old
    /\ installStatus' = [installStatus EXCEPT !.old = TRUE]
    /\ UNCHANGED <<approved, inspection, staged, gate, sessions, results, installed, appRows,
                   appCall, reviewed, used>>

-----------------------------------------------------------------------------
(* Choosing a package.                                                     *)

SelectPackage ==
    /\ Reads /\ ~Pending(installStatus') /\ used.selections < MaxSelections
    /\ gate' = [FreeGate EXCEPT !.step = "choosing"]
    /\ UNCHANGED <<approved, staged, sessions, results, installed, appRows, appCall, reviewed,
                   used>>

\* The document is copied and parsed, and the policy looks at it; or nothing was chosen, or it
\* could not be read.
PackageSelected ==
    /\ gate.step = "choosing"
    /\ \/ /\ \E a \in Apks : gate' = [step |-> "copied", id |-> used.selections + 1, apk |-> a]
          /\ CountUse("selections")
       \/ gate' = FreeGate /\ UNCHANGED used
    /\ UNCHANGED <<approved, inspection, staged, installStatus, sessions, results, installed,
                   appRows, appCall, reviewed>>

\* clearSelection, here for the selection that is replaced.
ClearsSelection ==
    /\ staged' = staged \ {inspection.id}
    /\ inspection' = NoInspection /\ installStatus' = NoStatus

ReplaceSelection ==
    /\ gate.step = "copied"
    /\ ClearsSelection
    /\ gate' = [gate EXCEPT !.step = "cleared"]
    /\ UNCHANGED <<approved, sessions, results, installed, appRows, appCall, reviewed, used>>

\* The copy gets its name, which may fail; a refused package keeps none.
KeepCopy ==
    /\ gate.step = "cleared"
    /\ \/ /\ Installable(gate.apk) /\ staged' = staged \cup {gate.id}
          /\ gate' = [gate EXCEPT !.step = "renamed"]
       \/ ~Installable(gate.apk) /\ gate' = [gate EXCEPT !.step = "renamed"] /\ UNCHANGED staged
       \/ Installable(gate.apk) /\ gate' = FreeGate /\ UNCHANGED staged
    /\ UNCHANGED <<approved, inspection, installStatus, sessions, results, installed, appRows,
                   appCall, reviewed, used>>

SaveInspection ==
    /\ gate.step = "renamed"
    /\ inspection' = Inspection(gate.id, gate.apk) /\ installStatus' = NoStatus
    /\ gate' = FreeGate
    /\ UNCHANGED <<approved, staged, sessions, results, installed, appRows, appCall, reviewed,
                   used>>

ClearSelection ==
    /\ gate.step = "free"
    /\ LET i == ReadInspection(staged)  s == ReadStatus(staged) IN ValidState(i, s) /\ ~Pending(s)
    /\ ClearsSelection
    /\ UNCHANGED <<approved, gate, sessions, results, installed, appRows, appCall, reviewed, used>>

\* The settings of Android are open, and the operation waits for the user to come back.
OpenSourceApproval ==
    /\ Reads /\ ~Pending(installStatus')
    /\ gate' = [FreeGate EXCEPT !.step = "approving"]
    /\ UNCHANGED <<approved, staged, sessions, results, installed, appRows, appCall, reviewed,
                   used>>

SourceApprovalReturned ==
    /\ gate.step = "approving"
    /\ gate' = FreeGate /\ approved' \in BOOLEAN
    /\ UNCHANGED <<inspection, staged, installStatus, sessions, results, installed, appRows,
                   appCall, reviewed, used>>

-----------------------------------------------------------------------------
(* Installing it.                                                          *)

RequestInstall ==
    /\ Reads /\ approved /\ ~Pending(installStatus') /\ installStatus'.state # "installed"
    /\ inspection'.id # 0 /\ Installable(inspection'.apk)
    /\ used.operations < MaxOperations /\ CountUse("operations")
    /\ gate' = [step |-> "asked", id |-> inspection'.id, apk |-> inspection'.apk]
    /\ UNCHANGED <<approved, staged, sessions, results, installed, appRows, appCall, reviewed>>

\* The thread's part up to the first status: the permission, the copy and its hash are looked at
\* again.
CheckCopy ==
    /\ gate.step = "asked"
    /\ \/ /\ approved /\ gate.id \in staged
          /\ installStatus' = Status(used.operations, gate.id, "preparing", 0)
          /\ gate' = [gate EXCEPT !.step = "preparing"]
       \/ /\ ~approved
          /\ installStatus' = Status(used.operations, gate.id, "approval_required", 0)
          /\ gate' = FreeGate
       \/ /\ approved /\ gate.id \notin staged
          /\ installStatus' = Status(used.operations, gate.id, "failed", 0)
          /\ gate' = FreeGate
    /\ UNCHANGED <<approved, inspection, staged, sessions, results, installed, appRows, appCall,
                   reviewed, used>>

\* createSession, and the status that records it.  It may fail.
CreateSession ==
    /\ gate.step = "preparing"
    /\ \/ /\ sessions' = [sessions EXCEPT ![used.operations] =
                [phase |-> "open", sel |-> gate.id, apk |-> gate.apk]]
          /\ gate' = [gate EXCEPT !.step = "created"]
          /\ installStatus' = Status(used.operations, gate.id, "preparing", used.operations)
       \/ /\ installStatus' = Status(used.operations, gate.id, "failed", 0)
          /\ gate' = FreeGate /\ UNCHANGED sessions
    /\ UNCHANGED <<approved, inspection, staged, results, installed, appRows, appCall, reviewed,
                   used>>

\* The copy is written into the session and committed; a failure abandons the session.
CommitSession ==
    /\ gate.step = "created" /\ gate' = FreeGate
    /\ \/ /\ sessions' = [sessions EXCEPT ![used.operations].phase = "committed"]
          /\ UNCHANGED installStatus
       \/ /\ sessions' = [sessions EXCEPT ![used.operations].phase = "ended"]
          /\ installStatus' = Status(used.operations, gate.id, "failed", 0)
    /\ UNCHANGED <<approved, inspection, staged, results, installed, appRows, appCall, reviewed,
                   used>>

-----------------------------------------------------------------------------
(* The system installer, and what it tells the launcher.                   *)

Compatible(apk) ==
    installed[PackageOf[apk]] # "none" =>
        SignersOf[apk] \cap HistoryOf[installed[PackageOf[apk]]] # {}

\* A session asks the user, or ends in one of its ways and says so.
InstallerAnswers(o) ==
    /\ results[o] = <<>>
    /\ \/ /\ sessions[o].phase = "committed"
          /\ \/ /\ sessions' = [sessions EXCEPT ![o].phase = "asked"]
                /\ results' = [results EXCEPT ![o] = <<"pending_user_action">>]
             \/ /\ sessions' = [sessions EXCEPT ![o].phase = "ended"]
                /\ results' = [results EXCEPT ![o] = <<"failure">>]
          /\ UNCHANGED installed
       \/ /\ sessions[o].phase = "shown"
          /\ sessions' = [sessions EXCEPT ![o].phase = "ended"]
          /\ \/ /\ Compatible(sessions[o].apk)
                /\ installed' = [installed EXCEPT ![PackageOf[sessions[o].apk]] = sessions[o].apk]
                /\ results' = [results EXCEPT ![o] = <<"success">>]
             \/ \E r \in {"aborted", "failure"} :
                   results' = [results EXCEPT ![o] = <<r>>] /\ UNCHANGED installed
    /\ UNCHANGED <<approved, inspection, staged, installStatus, gate, appRows, appCall, reviewed,
                   used>>

\* A session nobody commits or answers is dropped by Android in the end.
InstallerForgets(o) ==
    /\ \/ sessions[o].phase = "open" /\ gate.step # "created"
       \/ sessions[o].phase = "asked" /\ results[o] = <<>>
    /\ sessions' = [sessions EXCEPT ![o].phase = "ended"]
    /\ UNCHANGED <<approved, inspection, staged, installStatus, gate, results, installed, appRows,
                   appCall, reviewed, used>>

\* onReceive: the result is stored for its own operation and selection, whatever is kept now.
Receive(o) ==
    /\ results[o] # <<>> /\ results' = [results EXCEPT ![o] = <<>>]
    /\ LET sel == sessions[o].sel
           Save(state) == installStatus' = Status(o, sel, state, o)
       IN  \/ /\ results[o] = <<"pending_user_action">>
              /\ \/ /\ Save("awaiting_user_confirmation")
                    /\ sessions' = [sessions EXCEPT ![o].phase = "shown"]
                 \/ Save("failed") /\ UNCHANGED sessions
              /\ UNCHANGED <<staged, reviewed>>
           \/ /\ results[o] = <<"success">> /\ Save("installed")
              /\ staged' = staged \ {sel} /\ reviewed' = reviewed \cup {sessions[o].apk}
              /\ UNCHANGED sessions
           \/ /\ results[o] = <<"aborted">> /\ Save("cancelled") /\ UNCHANGED <<staged, reviewed,
                                                                                sessions>>
           \/ /\ results[o] = <<"failure">> /\ Save("failed") /\ UNCHANGED <<staged, reviewed,
                                                                             sessions>>
    /\ UNCHANGED <<approved, inspection, gate, installed, appRows, appCall, used>>

\* The user installs another build of a package, or removes it, outside the launcher.
ChangedOutside ==
    /\ used.outside < MaxOutside /\ CountUse("outside")
    /\ \E p \in AppPackages : \E a \in {b \in Apks \ BlockedApks : PackageOf[b] = p} \cup {"none"} :
          installed[p] # a /\ installed' = [installed EXCEPT ![p] = a]
    /\ UNCHANGED <<approved, inspection, staged, installStatus, gate, sessions, results, appRows,
                   appCall, reviewed>>

-----------------------------------------------------------------------------
(* Associations and launches.                                              *)

Moves(c, step) == appCall' = [appCall EXCEPT ![c].step = step]
Refuses(c) == appCall' = [appCall EXCEPT ![c] = NoAppCall]
UnchangedPackages == UNCHANGED <<approved, inspection, staged, installStatus, gate, sessions,
                                 results>>

\* observeInstalledApp: what Android reports, nothing for a package that is not installed.
Observed(package) == IF installed[package] = "none" THEN {} ELSE HistoryOf[installed[package]]
SignerMatches(apk) == SignersOf[apk] \cap Observed(PackageOf[apk]) # {}

\* runtime_state: what the library shows of an association and what a launch asks for.
RuntimeState(apk) ==
    CASE installed[PackageOf[apk]] = "none" -> "missing"
      [] SignerMatches(apk) -> "ready"
      [] OTHER -> "signer_mismatch"

\* installed_inspection: only a package that was reviewed and reported as installed.
IsInstalled(i, s) == s.state = "installed" /\ i.id = s.sel /\ Installable(i.apk)

\* The command reads the package state once, before anything else.
Associate(c, w) ==
    /\ appCall[c] = NoAppCall /\ Reads /\ IsInstalled(inspection', installStatus')
    /\ appCall' = [appCall EXCEPT ![c] =
          [NoAppCall EXCEPT !.step = "claim", !.work = w, !.apk = inspection'.apk]]
    /\ UNCHANGED <<approved, staged, gate, sessions, results, installed, appRows, reviewed, used>>

\* The package must not belong to another work.
CheckClaim(c) ==
    /\ appCall[c].step = "claim"
    /\ IF \E w \in AppWorks \ {appCall[c].work} :
             appRows[w].id # 0 /\ PackageOf[appRows[w].apk] = PackageOf[appCall[c].apk]
       THEN Refuses(c) ELSE Moves(c, "verify")
    /\ UnchangedPackages /\ UNCHANGED <<installed, appRows, reviewed, used>>

\* require_associable; a package without a launcher activity is refused too.
VerifyInstalled(c) ==
    /\ appCall[c].step = "verify"
    /\ \/ SignerMatches(appCall[c].apk) /\ Moves(c, "merge")
       \/ Refuses(c)
    /\ UnchangedPackages /\ UNCHANGED <<installed, appRows, reviewed, used>>

\* The work's association is read to keep its identity and its count.
ReadExisting(c) ==
    /\ appCall[c].step = "merge"
    /\ appCall' = [appCall EXCEPT ![c].step = "save", ![c].id = appRows[appCall[c].work].id]
    /\ UnchangedPackages /\ UNCHANGED <<installed, appRows, reviewed, used>>

\* The upsert by identity, refused when the work or the package has another row meanwhile.
SaveAssociation(c) ==
    LET w == appCall[c].work
        id == IF appCall[c].id = 0 THEN used.rows + 1 ELSE appCall[c].id
        clash == \/ appRows[w].id \notin {0, id}
                 \/ \E v \in AppWorks \ {w} :
                       appRows[v].id # 0 /\ PackageOf[appRows[v].apk] = PackageOf[appCall[c].apk]
    IN  /\ appCall[c].step = "save" /\ Refuses(c)
        /\ id <= MaxRows
        /\ IF clash THEN UNCHANGED <<appRows, used>>
           ELSE /\ appRows' = [appRows EXCEPT ![w] = [id |-> id, apk |-> appCall[c].apk]]
                /\ IF appCall[c].id = 0 THEN CountUse("rows") ELSE UNCHANGED used
        /\ UnchangedPackages /\ UNCHANGED <<installed, reviewed>>

RemoveAssociation(c, w) ==
    /\ appCall[c] = NoAppCall /\ appRows[w].id # 0
    /\ appRows' = [appRows EXCEPT ![w] = NoRow]
    /\ UnchangedPackages /\ UNCHANGED <<installed, appCall, reviewed, used>>

LaunchApp(c, w) ==
    /\ appCall[c] = NoAppCall /\ appRows[w].id # 0
    /\ appCall' = [appCall EXCEPT ![c] =
          [NoAppCall EXCEPT !.step = "observe", !.work = w, !.apk = appRows[w].apk,
                            !.id = appRows[w].id]]
    /\ UnchangedPackages /\ UNCHANGED <<installed, appRows, reviewed, used>>

\* require_launchable; what Android cannot tell, or has no launcher activity, is refused too.
ObserveLaunch(c) ==
    /\ appCall[c].step = "observe"
    /\ \/ RuntimeState(appCall[c].apk) = "ready" /\ Moves(c, "start")
       \/ Refuses(c)
    /\ UnchangedPackages /\ UNCHANGED <<installed, appRows, reviewed, used>>

AppStarts(c) ==
    appCall' = [appCall EXCEPT ![c].step = "record",
                               ![c].started = installed[PackageOf[appCall[c].apk]]]

\* (Wrong form.) The platform starts what is installed: the service has looked at it.
StartUnchecked(c) ==
    /\ appCall[c].step = "start"
    /\ IF installed[PackageOf[appCall[c].apk]] # "none"
       THEN AppStarts(c) ELSE Refuses(c)
    /\ UnchangedPackages /\ UNCHANGED <<installed, appRows, reviewed, used>>

\* launchInstalledApp looks at the certificates again before it starts the package.
StartApp(c) ==
    /\ appCall[c].step = "start"
    /\ IF SignerMatches(appCall[c].apk)
       THEN AppStarts(c) ELSE Refuses(c)
    /\ UnchangedPackages /\ UNCHANGED <<installed, appRows, reviewed, used>>

\* record_launch counts it in the row, if it is still there.  The count is not kept here.
RecordLaunch(c) ==
    /\ appCall[c].step = "record" /\ Refuses(c)
    /\ UnchangedPackages /\ UNCHANGED <<installed, appRows, reviewed, used>>

-----------------------------------------------------------------------------
\* The launcher is ended: its threads go, what is kept and Android's sessions stay.
AppCrash ==
    /\ used.crashes < MaxAppCrashes /\ CountUse("crashes")
    /\ gate' = FreeGate /\ appCall' = [c \in AppCallers |-> NoAppCall]
    /\ UNCHANGED <<approved, inspection, staged, installStatus, sessions, results, installed,
                   appRows, reviewed>>

\* The device restarts before a result is delivered.
ResultLost(o) ==
    /\ results[o] # <<>> /\ used.crashes < MaxAppCrashes /\ CountUse("crashes")
    /\ results' = [results EXCEPT ![o] = <<>>]
    /\ gate' = FreeGate /\ appCall' = [c \in AppCallers |-> NoAppCall]
    /\ UNCHANGED <<approved, inspection, staged, installStatus, sessions, installed, appRows,
                   reviewed>>

GateStep ==
    \/ PackageSelected \/ ReplaceSelection \/ KeepCopy \/ SaveInspection
    \/ SourceApprovalReturned
    \/ CheckCopy \/ CreateSession \/ CommitSession
Installer(o) == InstallerAnswers(o) \/ InstallerForgets(o)
AppStep(c) ==
    \/ CheckClaim(c) \/ VerifyInstalled(c) \/ ReadExisting(c) \/ SaveAssociation(c)
    \/ ObserveLaunch(c) \/ StartApp(c) \/ RecordLaunch(c)

AppNext ==
    \/ PollInstall \/ HalfMinutePasses
    \/ SelectPackage \/ ClearSelection \/ OpenSourceApproval \/ RequestInstall
    \/ GateStep
    \/ \E o \in 1..MaxOperations : Installer(o) \/ Receive(o) \/ ResultLost(o)
    \/ \E c \in AppCallers, w \in AppWorks :
          Associate(c, w) \/ RemoveAssociation(c, w) \/ LaunchApp(c, w)
    \/ \E c \in AppCallers : AppStep(c)
    \/ ChangedOutside \/ AppCrash

\* The page polls, the user comes back from Android's own screens, and Android ends its sessions.
AppFairness ==
    /\ WF_appVars(PollInstall) /\ WF_appVars(HalfMinutePasses) /\ WF_appVars(GateStep)
    /\ \A o \in 1..MaxOperations : WF_appVars(Installer(o)) /\ WF_appVars(Receive(o))

AppSpec == AppInit /\ [][AppNext]_appVars /\ AppFairness

-----------------------------------------------------------------------------
\* What the launcher starts for a work is signed by the signer of a package the user reviewed in
\* the launcher and saw installed: a package replaced outside, between the review and the
\* association, or between the look at it and the launch, is not started.
LaunchedIsReviewed ==
    \A c \in AppCallers : appCall[c].step = "record" =>
        /\ appCall[c].apk \in reviewed /\ appCall[c].started # "none"
        /\ SignersOf[appCall[c].apk] \cap HistoryOf[appCall[c].started] # {}

\* An installation the page shows as pending does not stay so: it is answered, or the page finds
\* out that Android has dropped its session, also after the launcher was ended in the middle of
\* the request or a result was lost.
InstallIsAnswered == Pending(installStatus) ~> ~Pending(installStatus)

=============================================================================
