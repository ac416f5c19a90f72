SPECIFICATION Spec
CONSTANTS
  Sessions = {s1, s2}
  Hosts = {1, 2}
  Scanners = {r1}
  Slots = {e1}
  Direct = Direct
  Resumed = Resumed
  None = None
  Need <- OneUnit
  Room <- OneEach
  Up = {1}
  Sizes = {0}
  MaxResume = 1
  MaxFault = 1
INVARIANTS TypeOK SomePickGoesOn
CHECK_DEADLOCK FALSE
PROPERTIES CommitsFit FirstBootWins AdmissionEnds
