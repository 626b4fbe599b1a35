CONSTANTS
  Signer = {"ann", "bob"}
  Order <- MCOrder
  Call = {1, 2, 3}
  Sweep = {4, 5}
  MaxAttempts = 2
  Caller = {"p", "q", "r"}
  NoOne = "nobody"
  Id = {"x", "y"}
  MaxWrites <- MCMaxWrites
SPECIFICATION MCSpec
INVARIANTS
  SignedOnce
  ExpiredOnce
  NoLostWrite
PROPERTIES
  ImplementsCeremony
  ExpiryNoticed
  ImplementsRows
  EveryWriteAnswered
CHECK_DEADLOCK FALSE
