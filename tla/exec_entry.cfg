SPECIFICATION Spec
CONSTANTS
  p1 = p1
  p2 = p2
  w1 = w1
  w2 = w2
  Plan <- TwoPlans
  Want <- MCWant
  Shape <- DistinctShapes
  Cap = 3
  MaxTrades = 1
  Manage = {"FULL_EXIT"}
  Worker <- TwoWorkers
  InitialRows <- BothRows
  MaxAuth = 2
  Deadlines = {"snapshot", "authorization", "plan", "reservation"}
  MaxRollBacks = 1
  MaxChanges = 2
SYMMETRY EntrySymmetry
INVARIANTS
  TypeOK
  ReservedWithinCap
  PostedOncePerDispatch
  FillsAreReal

  
  
ACTION_CONSTRAINT OneConcern
CHECK_DEADLOCK FALSE
