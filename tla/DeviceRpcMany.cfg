SPECIFICATION FairSpec
CONSTANTS
  Client = {c1, c2}
  Rpc <- MCRpc
  Frame <- MCFrame
  Answer <- MCAnswer
  NoRequest = NoRequest
  MaxRequests = 2
  Shapes <- ManyShapes
INVARIANTS TypeOK StuckOnlyByOddRequest AnswersAreTrue
PROPERTIES RpcsInOrder CallsAnswered JoinReturns
CHECK_DEADLOCK FALSE
