CONSTANTS
  Migrations = 3
  MaxLosses = 4
  MaxChanges = 3
  Run = {1, 2, 3}
  MaxFaults = 3
  Person = {"ann", "bob", "smoke"}
  Smoke = {"smoke"}
  Backfiller = {b1, b2}
  Deployment = b1
  Setting <- MCSetting
  Retention = 1
  Passes = 3
  MaxRetries = 1
  Batch = 2
  MaxNow = 1
  MaxIds = 3
SPECIFICATION MCSpec
INVARIANTS
  SetUpOnce
  HandedOutWorks
  EverybodyReached
  BackfillConverges
PROPERTIES
  AnswersHold
  ActivationConverges
  ImplementsHandoff
CHECK_DEADLOCK FALSE
