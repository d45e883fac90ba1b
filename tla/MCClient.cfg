CONSTANTS
  Buffers = {b1, b2, b3, b4}
  NULL = NULL
  Sizes <- MCSizes
  MaxRequests = 4
  MaxEvents = 4
  MaxSerial = 3
  MIN = 2
  MAX = 4
  SPEED = 3
  FactorNum = 1
  FactorDen = 400
  LoopSerial = 1
SPECIFICATION FairSpec
INVARIANTS
  BusyIsOut
  FrameAnswersAck
  LastConfigureShown
  OneChain
  SizeInRange
PROPERTIES
  SlotFreed
  CallsForever
  UnmapsAgain
  ImplementsOwnership
CHECK_DEADLOCK FALSE
