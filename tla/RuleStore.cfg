SPECIFICATION FairSpec
CONSTANTS
  r1 = r1
  r2 = r2
  r3 = r3
  Ids = {r1, r2, r3}
  MaxRules = 2
  Admins = {"http", "main"}
  MaxOps = 4
  MaxFaults = 1
INVARIANT SubsRight
INVARIANT FileRight
INVARIANT SubsFollowUnlessRaced
PROPERTY EnabledGetsSubscribed
