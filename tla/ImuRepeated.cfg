SPECIFICATION Spec
CONSTANTS
  MaxInits = 1
  MaxCalls = 2
  MaxEvents = 1
INVARIANTS ProcessSurvives
CHECK_DEADLOCK FALSE
