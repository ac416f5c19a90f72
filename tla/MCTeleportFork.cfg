SPECIFICATION Spec
CONSTANTS
    MaxRestores = 4
    MaxRestoreAttempts = 1
    MaxResumes = 1
    MaxFaults = 3
INVARIANTS
    NoLiveFork
CHECK_DEADLOCK FALSE
