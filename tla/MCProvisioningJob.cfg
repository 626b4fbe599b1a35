CONSTANTS
  LastStep = 3
  CredStep = 2
  MaxAttempts = 2
  Event = {1, 2, 3, 4, 5, 6}
  Desired <- MCDesired
  Scene <- MCScene
  MaxDeliveries = 2
SPECIFICATION Spec
INVARIANTS
  ReadyBacked
  DisabledIsOff
  SuspensionReversible
PROPERTIES
  AckMatchesOrder
CHECK_DEADLOCK FALSE
