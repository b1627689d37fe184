SPECIFICATION FairSpec
CONSTANTS
  m1 = m1
  m2 = m2
  c1 = c1
  c2 = c2
  Client = {c1, c2}
  Model = {m1, m2}
  Frame <- MCFrame
  Answer <- MCAnswer
  NoModel = NoModel
  NoRequest = NoRequest
  MaxRequests = 2
  Inputs <- MCInputs
  Shapes <- AnyShapes
INVARIANTS TypeOK StuckOnlyByMisuse
PROPERTIES OneCurrentModel CallsAnswered JoinReturns
CHECK_DEADLOCK FALSE
