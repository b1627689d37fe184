SPECIFICATION CarefulSpec
CONSTANTS
  m1 = m1
  m2 = m2
  c1 = c1
  c2 = c2
  Client = {c1}
  Model = {m1}
  Frame <- MCFrame
  Answer <- MCAnswer
  NoModel = NoModel
  NoRequest = NoRequest
  MaxRequests = 3
  Inputs <- OneModelInputs
  Shapes <- DocumentedShapes
PROPERTIES DocumentedCallsAnswered
CHECK_DEADLOCK FALSE
