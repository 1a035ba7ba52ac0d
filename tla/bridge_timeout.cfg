SPECIFICATION Spec
CONSTANTS
  c1 = c1
  c2 = c2
  c3 = c3
  Command <- MCCommand
  KeyOf <- MCKeyOf
  PollLimit = 2
  FaultKinds = {"timeout"}
  MaxFaults = 1
INVARIANT
  RejectedHadNoEffect
CHECK_DEADLOCK FALSE
