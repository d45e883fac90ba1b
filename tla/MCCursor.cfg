CONSTANTS
  Buffers = {b1, b2, b3, b4}
  NULL = NULL
  Sizes <- MCSizes
  MaxRequests = 3
  MaxEvents = 4
  MaxSerial = 0
  MaxInput = 6
SPECIFICATION CursorSpec
INVARIANTS
  HotspotFollowsFrames
CHECK_DEADLOCK FALSE
