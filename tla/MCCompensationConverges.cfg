CONSTANTS
  Migrations = 1
  MaxLosses = 1
  MaxChanges = 1
SPECIFICATION DSpec
PROPERTY CompensationConverges
CHECK_DEADLOCK FALSE
