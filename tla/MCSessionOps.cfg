\* One session's lane: one pod with several tasks, two ops, each attempted up
\* to twice, two claim transactions open at once, one crash.
SPECIFICATION LiveSpec
CONSTANTS
  p1 = p1
  deliver = deliver
  boot = boot
  s1 = s1
  k1 = k1
  Pod = {p1}
  Session = {s1}
  Kind = {deliver, boot}
  Deliver = deliver
  BootKind = {boot}
  CancelKind = {deliver}
  Key = {k1}
  NoKey = NoKey
  EnqueueAs <- EnqueueVerbs
  ExclusiveKind = {boot}
  MaxOp = 2
  MaxAttempts = 2
  MaxCrash = 1
  MaxTx = 2
CHECK_DEADLOCK FALSE
INVARIANTS
  TypeOK
  FencesAgree
  SingleWriter
  KeysUnique
PROPERTIES
  NoWriteAfterSuccessor
  LaneRefinement
  TriedUntilEnded
