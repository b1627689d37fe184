SPECIFICATION AppSpec
CONSTANTS
  Headless = FALSE
  MaxThreads = 3
  MaxRestarts = 1
  MaxInits = 1
  MaxCalls = 1
  MaxEvents = 0
PROPERTIES RestartsHappen
CHECK_DEADLOCK FALSE
