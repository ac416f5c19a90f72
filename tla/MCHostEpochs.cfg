\* Three lifecycle RPCs of one session racing in the host's gate.
SPECIFICATION Spec
CONSTANTS
  c1 = c1
  c2 = c2
  c3 = c3
  Call = {c1, c2, c3}
  MaxEpoch = 3
SYMMETRY CallSymmetry
CHECK_DEADLOCK FALSE
INVARIANTS
  SealHolds
PROPERTIES
  NoOlderAccepted
