CONSTANTS
  Signer = {ann, bob}
  Order <- MCOrder
  Reseal = {}
  MaxTouches = 0
SPECIFICATION Spec
INVARIANT CompletedAuditedOnce
CHECK_DEADLOCK FALSE
