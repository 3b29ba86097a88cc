CONSTANTS
    Installations = {i1, i2}
    LastName = 2
    MaxOps = 2
    MaxCrashes = 1
    MaxVisits = 1
    UnpackedFiles = {f1}
    Callers = {c1, c2}
    MaxRepairs = 1
    MaxActs = 1
    MaxUpkeepCrashes = 1
    WorkFiles = {f1, f2}
    Movers = {m1, m2}
    MoveNames = {n1, n2}
    MaxMoveFaults = 1
    MaxMoveCrashes = 1
    Volumes = {v1, v2}
    MaxSets = 2
    MaxCleanupFaults = 2
    MaxCleanupCrashes = 2
    Keys = {k1, k2}
    SettingChoices <- CoverSettings
    Loaders = {r1, r2}
    MaxSize = 2
    MaxBytes = 2
    MaxCovers = 2
    RefreshAfter = 1
    KeepFor = 0
    MAX_REDIRECTS = 3
    Exchanges <- CoverExchanges
    MaxTime = 1
    MaxCacheFaults = 1
    MaxRestarts = 1
    Archives <- PackageFiles
    Others <- Replacements
    Requests <- Asked
    MaxEntries = 3
    MaxListing = 3
    MaxTotal = 3
    MaxUnpackFaults = 1

SPECIFICATION AllSpec

INVARIANTS
    UnpackedIsTheManifest
    UserContentKept
    PreparedIsInstalled
    ReplacementCanBeUndone
    InstallationSurvives
    WorkSurvives
    RestoredSetIsWhole
    CacheStaysInLimit

CONSTRAINT Unmet

SYMMETRY Symmetry

CHECK_DEADLOCK FALSE
