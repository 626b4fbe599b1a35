CONSTANTS
  Signer = {ann, bob}
  Order <- MCOrder
  Reseal = {r1}
  MaxTouches = 0
SPECIFICATION MCSpec
SYMMETRY MCSymmetry
INVARIANTS
  SealsOnlyCompleted
  EventsKept
CHECK_DEADLOCK FALSE
