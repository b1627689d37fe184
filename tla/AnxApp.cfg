SPECIFICATION AppSpec
CONSTANTS
  Headless = TRUE
  MaxThreads = 4
  MaxRestarts = 2
  MaxInits = 2
  MaxCalls = 4
  MaxEvents = 1
INVARIANTS AppTypeOK NoServerEscapes RunningHasServer ModelServersSurvive
  ProcessSurvives StreamFollowsCalls
PROPERTIES RestartsHappen StopsAreDone
CHECK_DEADLOCK FALSE
