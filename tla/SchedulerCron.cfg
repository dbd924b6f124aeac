SPECIFICATION Spec
CONSTANTS
  Schedules <- MCSchedules
  Solar <- MCSolar
  Minutes = 3
  Secs = 2
  MAX_SCHEDULES = 2
  MaxTime = 20
  MaxGap = 2
  MaxBacks = 1
INVARIANT Served
CHECK_DEADLOCK FALSE
