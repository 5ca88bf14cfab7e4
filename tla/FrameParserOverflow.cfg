CONSTANTS
  START = START
  END = END
  ESC = ESC
  d1 = d1
  Data <- MCData
  WellFormed <- MCWellFormed
  FrameMax = 3
  Chunk = 2
SPECIFICATION ParserSpec
PROPERTY ResyncAfterDiscard
