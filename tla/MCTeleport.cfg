SPECIFICATION FairSpec
CONSTANTS
    MaxRestores = 4
    MaxRestoreAttempts = 1
    MaxResumes = 1
    MaxFaults = 3
INVARIANTS
    TypeOK
    HostsNeverFork
    SettledRuns
PROPERTIES
    SourceKept
    MoveEndsUnlessStranded
    NothingLeftBehind
CHECK_DEADLOCK FALSE
