SPECIFICATION Spec
CONSTANTS
  p1 = p1
  p2 = p2
  w1 = w1
  w2 = w2
  Plan <- TwoPlans
  Want <- MCWant
  Shape <- DistinctShapes
  Cap = 3
  MaxTrades = 1
  Manage = {}
  Worker <- TwoWorkers
  InitialRows <- BothRows
  MaxAuth = 2
  Deadlines = {"plan", "reservation"}
  MaxRollBacks = 0
  MaxChanges = 0
INVARIANT
  NoEffectMeansNoEffect
CHECK_DEADLOCK FALSE
