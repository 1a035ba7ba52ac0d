SPECIFICATION Spec
CONSTANTS
  c1 = c1
  c2 = c2
  c3 = c3
  Command <- MCCommand
  KeyOf <- MCKeyOf
  PollLimit = 2
  FaultKinds = {"drop", "restart", "loss", "timeout"}
  MaxFaults = 2
INVARIANTS
  TypeOK
  AtMostOnce
  OneEffectPerKey
  AcknowledgedWasExecuted
  ClosedStaysClosed
PROPERTIES
  EveryCommandIsAnswered
  ImplementsBrokerPort
CHECK_DEADLOCK FALSE
