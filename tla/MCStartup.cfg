CONSTANTS
  Adverts <- MCAdverts
  MaxInput = 4
SPECIFICATION FairSpec
INVARIANTS
  GlobalsSeen
  PointerKnown
  RoundtripsAwaited
  StackFollowsClicks
PROPERTIES
  StartsUp
CHECK_DEADLOCK FALSE
