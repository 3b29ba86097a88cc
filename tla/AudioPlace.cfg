\* The place of the second file of a work, after the first one ended.
SPECIFICATION PlaySpec
CONSTANTS
    AudioWorks = {"a"}
    Tracks = 2
    Length = 1
    Budgets <- Listening
    MaxQueue = 2
INVARIANT ListenedIsSaved
CHECK_DEADLOCK FALSE
