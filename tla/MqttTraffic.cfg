SPECIFICATION Spec
CONSTANTS
  rule1 = rule1
  rule2 = rule2
  sparkplug = sparkplug
  main = main
  http = http
  fa = fa
  fb = fb
  NoFilter = NoFilter
  Filters = {fa, fb}
  Owners = {rule1, rule2, sparkplug}
  Threads = {main, http}
  ThreadOf <- TwoThreads
  MaxSubs = 1
  MaxInflight = 2
  MaxPid = 3
  MaxRetries = 1
  MaxCalls = 3
  MaxSessions = 2
INVARIANT OwnersServed
INVARIANT AtLeastOnce
INVARIANT InflightOfSession
SYMMETRY FilterSymmetry
CHECK_DEADLOCK FALSE
