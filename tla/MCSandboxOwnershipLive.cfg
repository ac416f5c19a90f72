\* One host, one resume, one fault: everything the session leaves behind is reaped.
SPECIFICATION FairSpec
CONSTANTS
  h1 = h1
  h2 = h2
  s1 = s1
  s2 = s2
  s3 = s3
  w1 = w1
  w2 = w2
  Host = {h1}
  Sandbox = {s1, s2}
  Worker = {w1}
  None = None
  Grace = 2
  MaxEpoch = 1
  MaxFault = 1
CHECK_DEADLOCK FALSE
PROPERTIES
  HostLostSettles
  StraysReaped
