SPECIFICATION FairSpec
CONSTANTS
  MaxServers = 3
  MaxChanges = 1
  MaxFlaps = 1
  MaxLosses = 1
INVARIANT BrokerRight
INVARIANT StaleOnlyIfDrained
PROPERTY FailOver
PROPERTY StopEnds
CHECK_DEADLOCK FALSE
