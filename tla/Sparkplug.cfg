SPECIFICATION Spec
CONSTANTS
  Configs <- Settings
  SeqMod = 3
  MaxHistory = 1
  MaxConfigs = 1
  MaxSamples = 2
  MaxSessions = 2
  MaxCrashes = 1
  MaxHostMsgs = 1
INVARIANT HostNotMisled
INVARIANT AcceptedKeptUnlessSlipped
INVARIANT NothingStranded
CHECK_DEADLOCK FALSE
