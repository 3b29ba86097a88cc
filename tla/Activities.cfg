CONSTANTS
    Size = 3
    RangeBlocks = 2
    Installs = {"i1"}
    Attempts = {"a1", "a2"}
    Stoppable = {"a1"}
    LastSaves = 2
    MaxLaunchFaults = 2
    MaxRestarts = 1
    Works = {"w1", "w2"}
    MaxAdds = 2
    MaxOthers = 1
    MaxFaults = 1
    Apks = {"good", "fork", "own"}
    PackageOf <- PackageOfApk
    SignersOf <- SignersOfApk
    HistoryOf <- SignersOfApk
    BlockedApks = {"own"}
    AppWorks = {"w1"}
    AppCallers = {"c1"}
    MaxSelections = 2
    MaxOperations = 1
    MaxRows = 1
    MaxOutside = 1
    MaxAppCrashes = 1

SPECIFICATION AllSpec

INVARIANTS
    DeliveredIsAsked
    HashFollowsDisk
    OneOwnedProcess
    LaunchedIsReviewed
    CancelledIsGone

PROPERTIES
    StopIsFinal
    StopIsForGood
    InstallIsAnswered
    InstallsSettle
    QueuedIsServed
    OnlyVerifiedFiles
    AttemptsConverge

CHECK_DEADLOCK FALSE
