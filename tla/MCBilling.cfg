CONSTANTS
  Replica = {r1, r2}
  Event <- MCEvent
  Plan = {"team", "scale"}
  NoPlan = "none"
  Fact = {"owner", "mode"}
  Ignored <- MCIgnored
  Request <- MCRequest
  Scene <- MCScene
  MaxReceives = 2
  MaxAttempts = 2
  MaxFaults = 2
SPECIFICATION MCSpec
INVARIANTS
  BillingConverges
PROPERTIES
  NeverResurrected
  ImplementsReducer
  EveryEventSettles
CHECK_DEADLOCK FALSE
