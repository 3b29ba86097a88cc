CONSTANTS
    MaxChanges = 2
    MaxViewedJobs = 1
    Starts <- LoadedAgain

SPECIFICATION ViewsSpec

INVARIANT NewestIsHeld

CHECK_DEADLOCK FALSE
