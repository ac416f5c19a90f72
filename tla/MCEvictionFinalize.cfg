SPECIFICATION Spec
CONSTANTS
    MaxSandboxes = 2
    MaxCaptures = 2
    MaxFinalizeAttempts = 1
    MaxEvictAttempts = 2
    MaxReturns = 1
    MaxFaults = 1
INVARIANTS TypeOK CaptureKept RowsWholeUnlessSpoilt HeadIsDurable
PROPERTIES SettlesOnOwnCapture
CHECK_DEADLOCK FALSE
