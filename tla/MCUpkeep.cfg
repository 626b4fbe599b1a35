CONSTANTS
  Signer = {"ann", "bob"}
  Order <- MCOrder
  Reseal = {}
  MaxTouches = 1
  Emission = {"sign", "view", "viewAgain"}
  Guarded = {"view", "viewAgain"}
  MaxEvents = 1
  MaxTries = 2
  MaxAttempts = 2
  MaxTime = 2
  MaxFaults = 1
  Tick = {"tick1", "tick2"}
  Tool = {"tool"}
  Slots = 2
  MaxSent = 2
  MaxWrites = 2
  MaxTroubles = 2
  Policy <- MCPolicy
  Proof <- MCProof
  Answer <- MCAnswer
  Request = {"sign"}
  Relay = {"relay"}
  Asker = {"page"}
  MaxNonces = 2
  MaxFinalize = 2
SPECIFICATION MCSpec
INVARIANTS
  ToldOnceInOrder
  NoMoreThanDue
  NonceForOneRecord
  IdentityEarned
PROPERTIES
  SealAttempted
  QueueSettles
  DueAreSent
CHECK_DEADLOCK FALSE
