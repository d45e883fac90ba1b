CONSTANTS
  Buffers = {b1, b2, b3, b4}
  NULL = NULL
  Sizes <- MCSizes
  MaxRequests = 4
  MaxEvents = 4
  MaxSerial = 4
  FRAME_DELAY = 2
  Word = 8
SPECIFICATION Spec
INVARIANTS
  AnswersHaveContent
CHECK_DEADLOCK FALSE
