SPECIFICATION FairSpec
CONSTANTS
  Job = {j1, j2}
  MountOrder <- MCMountOrder
  ReverseSorted <- MCReverseSorted
  Failing <- MCFailing
  MaxCommands = 4
  MaxFailures = 1
INVARIANTS TypeOK NothingHidden PartsNeedRoot
PROPERTIES StopUnmounts CommandsEnd
CHECK_DEADLOCK FALSE
