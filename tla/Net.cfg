SPECIFICATION Spec
CONSTANTS
  NumRx = 3
  NumTx = 3
  Port = {p}
  Host = {"h1", "h2", "long", "a..b"}
  LongName = {"long"}
  BadLabel = {"a..b"}
  Timeout = 0
  MaxFrames = 3
  MaxSends = 1
  MaxQueries = 2
  MaxLeases = 1
INVARIANTS FramesInOrder FramesGoOut AnswersMatch
PROPERTIES RequestsAnswered ListensAgain
CHECK_DEADLOCK FALSE
