CONSTANTS
  Sources = {s1, s2, s3, s4, s5, s6}
  NULL = NULL
  Modes = {"DEFAULT", "STEAL_SERIAL", "STEAL_SYNC"}
  Tries = 2
  MaxRequests = 5
  MaxEvents = 4
SPECIFICATION FairSpec
INVARIANTS
  CancelledIsCurrent
  OneAttempt
PROPERTIES
  TriesForever
CHECK_DEADLOCK FALSE
