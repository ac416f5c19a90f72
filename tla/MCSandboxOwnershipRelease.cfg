\* Two resumes and no fault: a running VM is let go without a tombstone.
SPECIFICATION Spec
CONSTANTS
  h1 = h1
  h2 = h2
  s1 = s1
  s2 = s2
  s3 = s3
  w1 = w1
  w2 = w2
  Host = {h1}
  Sandbox = {s1, s2}
  Worker = {w1}
  None = None
  Grace = 2
  MaxEpoch = 2
  MaxFault = 0
SYMMETRY Symmetry
CHECK_DEADLOCK FALSE
PROPERTIES
  NeverClearedUntombed
