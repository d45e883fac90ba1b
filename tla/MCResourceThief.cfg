CONSTANTS
  Root = 8
  Batch = 4
  PointsPerRegion = 3
  Singles = 10
  Limits <- MCLimits
SPECIFICATION Spec
INVARIANTS
  FindsLimit
  PointsOnCurve
CHECK_DEADLOCK FALSE
