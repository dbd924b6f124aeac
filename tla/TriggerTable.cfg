SPECIFICATION TableSpec
CONSTANTS
  Rules = {"r1", "r2", "r3", "r4"}
  Triggers <- MCTriggers
  Queries <- MCQueries
  Effects <- MCEffects
  Events <- MCEvents
  Messages = {"m"}
  Tokens = {"k"}
  Conditional = {"r4"}
  Values = {0, 1}
  MAX_SUBS = 8
  MAX_WHILE_ACTIVE = 2
  MaxTime = 3
  MaxEvents = 3
  MaxJobs = 3
  MaxInputs = 4
INVARIANT TableServesRules
 
 
CHECK_DEADLOCK FALSE
