CONSTANTS
  Migrations = {migration}
  MaxUpCrashes = 1
SPECIFICATION UpdateSpec
PROPERTIES RollbackRestores
CHECK_DEADLOCK FALSE
