SPECIFICATION EndToEndSpec
CONSTANTS
  p1 = p1
  w1 = w1
  w2 = w2
  Plan <- OnePlan
  Want <- MCWant
  Shape <- DistinctShapes
  Cap = 4
  MaxTrades = 2
  Manage = {"FULL_EXIT"}
  Worker <- TwoWorkers
  InitialRows <- BothRows
  Deadlines = {}
  MaxAuth = 2
  MaxRollBacks = 1
  MaxChanges = 0
  PollLimit = 2
  FaultKinds = {"restart", "loss"}
  MaxFaults = 1
  Glitches = FALSE
SYMMETRY WorkerSymmetry
INVARIANTS
  OneIntentPerAuthorization
  OneOrderPerFill
PROPERTY
  ImplementsExecution
ACTION_CONSTRAINT OneConcern
CHECK_DEADLOCK FALSE
