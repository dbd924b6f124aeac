SPECIFICATION ServicesSpec
CONSTANTS
  Schedules <- MCSchedules
  Solar <- MCSolar
  Minutes = 3
  Secs = 2
  MAX_SCHEDULES = 2
  MaxTime = 20
  MaxGap = 2
  MaxBacks = 1
  LogRules = {"r1", "r2"}
  EVENT_LOG_SIZE = 3
  SaveLimit = 2
  PersistEvery = 2
  MaxAppends = 3
  MaxLogTime = 3
  ShortNames = {"a", "b"}
  LongName = "long"
  CutName = "lon"
  MAX_VARS = 3
  VarValues = {7}
  Deltas = {6}
  Precision = 10
  MaxOps = 4
  DayLength = 4
  Numbers = {1, 9, 20}
  TextOrder <- StrOrder
  Conds <- Samples
  CondLists <- SampleLists
  OtherTopics = {"o"}
  MaxPulls = 4
  MessageLimit = 2
  MaxQueries = 2
  MaxChanges = 2
  MaxQueue = 3
  Targets = {"a", "b"}
  Transport <- TargetTransport
  POOL_MAX = 2
  MaxRequests = 3
  OutPorts = {1, 2}
  OutputActions <- PortActions
  IO_OUT_MAX_PENDING = 2
  WaRoom = 1
  MaxOutCalls = 3
  MaxOutFails = 1
INVARIANTS
  ScheduleKept
  JournalKept
  VarsFaithful
  EvaluatedRight
  SubscriptionsReturned
  AnswerFresh
  AlignedUnlessFailing
  PortsReturn
PROPERTY LogKeepsPromise
CHECK_DEADLOCK FALSE
