CONSTANTS
  Buffers = {b1, b2, b3}
  NULL = NULL
  MIN_SIZE = 1
  MAX_SIZE = 2
  Start <- MCStart
  Buttons = {"BTN_LEFT", "BTN_RIGHT", "BTN_MIDDLE"}
  Points <- MCPoints
  Sizes <- MCSizes
  Far = 3
SPECIFICATION ResizorSpec
INVARIANTS
  AnchorStays
PROPERTIES
  DragInRange
SYMMETRY MCSymmetry
