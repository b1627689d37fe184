SPECIFICATION Spec
CONSTANTS
  HalfWord = 128
  HzValues = 8
  Second = 6
  Fps = {2, 3, 8, 11}
  MaxTime = 8
  MaxJumps = 1
  MaxSleeps = 5
INVARIANTS TypeOK SleepAtMostOneCycle NeverEarly
CHECK_DEADLOCK FALSE
