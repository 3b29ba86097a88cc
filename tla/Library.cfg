CONSTANTS
    Generations = {"g1"}
    Snapshots = {"n1", "n2"}
    Shipped = "n1"
    Batches = 2
    Retain = 1
    MaxBuilds = 2
    MaxFaults = 1
    MaxRestarts = 1
    Installs = {"i1", "i2"}
    Paths = {"p1", "p2", "p3"}
    Content <- MediaContent
    PathOrder <- MediaOrder
    Sessions = {"s1", "s2"}
    Callers = {"c1", "c2"}
    MinVoiceWorks = 2
    QueueLimit = 2
    MaxPosition = 1
    MaxCalls = 4
    MaxMediaRestarts = 1
    Videos = {"v1"}
    Surfaces = {"l1", "l2"}
    Openers = {"o1", "o2"}
    Closers = {"c1"}
    Views = {"w1", "w2"}
    MaxViews = 1
    MaxVideoFaults = 1
    RootFiles = {"f1", "f2"}
    RootFolders = {"d"}
    MaxSessions = 2
    BatchSize = 2
    MaxScanFaults = 1
    MaxScanRestarts = 1
    MaxRootChanges = 1
    RowIds = {"i1"}
    RowCallers = {"c1", "c2"}
    RowPaths = {"p1"}
    RowCodes = {"W1", "W2"}
    CatalogCodes = {"W1", "W2"}
    Detections <- RowsFound
    UserChoices <- RowsChosen
    MaxRowCalls = 4
    PickableWorks <- PickedWorks
    Picks <- PickChoices
    NoFile = "no file"
    MaxBatches = 2
    MaxRange = 2
    MaxWhole = 2
    MaxSubtitle = 2
    MaxLength = 3
    MaxFileChanges = 1
    MaxChanges = 2
    MaxViewedJobs = 2
    Starts <- ViewStarts

SPECIFICATION AllSpec

INVARIANTS
    ViewsKeepUp
    ServedAndSearchedAgree
    SessionsAgree
    SurfaceIsOwned
    AddedIsListed
    CreatedFromWholeScan
    LibraryAnswers
    ReviewListsEachOnce
    AnswersAgree

PROPERTIES
    KeepsPromise
    AnswersFitTheFile
    ImportIsWholeOrNothing

CHECK_DEADLOCK FALSE
