SPECIFICATION Spec
CONSTANTS
  w1 = w1
  x1 = x1
  TriggerIds <- Triggers3
  MAX_TRIGGERS_PER_RULE = 2
  CondIds = {w1, x1}
  Rules <- SavedRules
  MaxTime = 5
  MaxFires = 3
  MaxJobs = 1
  MaxSaves = 1
  MaxRestarts = 1
INVARIANT LimitsKept
INVARIANT CooldownKept
INVARIANT AndCorrelated
INVARIANT BlockedRemembered
