SPECIFICATION FairSpec
CONSTANTS
    MaxSandboxes = 1
    MaxCaptures = 2
    MaxFinalizeAttempts = 2
    MaxEvictAttempts = 2
    MaxReturns = 1
    MaxFaults = 1
PROPERTIES EvictionEnds CaptureLands
CHECK_DEADLOCK FALSE
