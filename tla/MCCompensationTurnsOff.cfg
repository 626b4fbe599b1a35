CONSTANTS
  LastStep = 3
  CredStep = 2
  MaxAttempts = 2
  Event = {1, 2, 3, 4, 5, 6}
  Desired <- MCDesired
  Scene <- MCCalmScene
  MaxDeliveries = 2
SPECIFICATION Spec
INVARIANT CompensationTurnsOff
CHECK_DEADLOCK FALSE
