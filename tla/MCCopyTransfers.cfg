CONSTANTS
  Modes = {"DEFAULT", "CAT_RANDOM", "RECV_FILE"}
  Fds = {f1, f2}
  Display = Display
  NULL = NULL
  Offers = {o1, o2}
  Types = {text, octets}
  Room = 2
  MaxEvents = 4
SPECIFICATION TransferFairSpec
INVARIANTS
  TableSound
  OpenAccounted
  SelectionIsOffer
PROPERTIES
  TransfersEnd
  LeftWhenOver
CHECK_DEADLOCK FALSE
