CONSTANTS
    Works = {w1}
    NoWork = NoWork
    Workers = {t1, t2}
    Callers = {c1, c2}
    Archives = 1
    OwnWorks = {"w"}
    Pictures = {"p1", "p2"}
    Requests <- OwnRequests
    Savers = {s1, s2}
    MaxImages = 1
    MaxSamples = 1
    MaxEvents = 1
    AudioWorks = {"a"}
    Tracks = 2
    Length = 2
    MaxQueue = 2
    Budgets <- PlayerBudgets
    MaxJobs = 2
    MaxCommands = 4
    MaxCrashes = 1
    MaxFailedSaves = 1

SPECIFICATION AllSpec

INVARIANTS
    OneWorker
    NoStrandedRun
    StopsWereAsked
    StatusExplained
    OnePlays
    PlacesAreKept
    FilesAreRecognised
    PicturesAreKept

CONSTRAINT FourEvents

SYMMETRY Symmetry

CHECK_DEADLOCK FALSE
