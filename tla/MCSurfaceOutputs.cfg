CONSTANTS
  Surfaces = {toplevel, red}
  Outputs = {o1, o2, o3}
  NULL = NULL
  OUTPUT_TRACKER_CAP = 2
  MaxEvents = 3
SPECIFICATION Spec
SYMMETRY Interchangeable
INVARIANTS
  TracksOutputs
PROPERTIES
  ImplementsOutputSet
