SPECIFICATION FairSpec
CONSTANTS
  p1 = p1
  p2 = p2
  r1 = r1
  Test = Test
  MaxRuns = 1
  Ports = {p1, p2}
  Rules = {r1}
  Flashes <- Mixed
  MaxStarts = 2
  MaxOps = 1
  MaxFails = 0
PROPERTY OpsReturn
PROPERTY BoundedRunsEnd
CHECK_DEADLOCK FALSE
