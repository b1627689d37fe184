SPECIFICATION Spec
CONSTANTS
  MaxApp = 2
  MaxTasks = 3
  MaxKills = 1
INVARIANTS TypeOK LatestIsComplete 
CHECK_DEADLOCK FALSE
