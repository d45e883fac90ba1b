CONSTANTS
  Fds = {fd3, fd4, fd5}
  Stdin = fd0
  NoFd = fdm1
  Maps = {m1, m2, m3}
  Pools = {p1, p2, p3}
  Buffers = {b1, b2, b3}
  NULL = NULL
  Sizes <- MCSizes
  Word = 9
  Refusing = TRUE
SPECIFICATION Spec
INVARIANTS
  BuffersBacked
  ObjectsOwned
  DrawnAsAsked
PROPERTIES
  PoolsOnlyGrow
  StdinClosedOneWay
  LostOneWayEach
  ImplementsBufferPool
SYMMETRY MCSymmetry
CHECK_DEADLOCK FALSE
