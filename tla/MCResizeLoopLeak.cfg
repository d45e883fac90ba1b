CONSTANTS
  Fds = {fd3, fd4}
  Stdin = fd0
  NoFd = fdm1
  Maps = {m1, m2, m3}
  Pools = {p1, p2, p3}
  Buffers = {b1, b2, b3}
  NULL = NULL
  Sizes <- MCSizes
  Word = 1000
  Refusing = FALSE
  MIN = 2
  MAX = 12
  SPEED = 10
SPECIFICATION LoopFairSpec
PROPERTIES
  ResizesForever
