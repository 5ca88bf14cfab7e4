CONSTANTS
  START = START
  END = END
  ESC = ESC
  d1 = d1
  NoMessage = NoMessage
  Data <- MCData
  Messages <- MCMessages
  WellFormed <- MCWellFormed
  FrameMax = 5
  Chunk = 2
SPECIFICATION LinkSpec
INVARIANTS LinkTypeOK BufferSafe WaitingIsEmpty IntactResyncs AlignedDelivered
PROPERTY ImplementsChannel
