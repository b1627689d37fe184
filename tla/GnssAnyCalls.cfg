SPECIFICATION LiveSpec
CONSTANTS
  MaxStarts = 3
  MaxTasks = 3
  MaxSentences = 1
INVARIANTS TypeOK StreamReachable StoppedLeavesNothing
PROPERTIES OldThreadsClose
CHECK_DEADLOCK FALSE
