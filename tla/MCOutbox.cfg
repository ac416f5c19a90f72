\* One prompt beside the run of the boot, two executors, two attempts, one fault.
SPECIFICATION FairSpec
CONSTANTS
  w1 = w1
  w2 = w2
  None = None
  Worker = {w1, w2}
  MaxPrompt = 1
  MaxAttempts = 2
  MaxFault = 1
CHECK_DEADLOCK FALSE
INVARIANTS
  TypeOK
  RunsOncePerProcess
  AckedHasOutcome
PROPERTIES
  RowPursued
