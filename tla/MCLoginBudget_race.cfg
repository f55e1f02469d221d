CONSTANTS
  Procs = {p1, p2}
  MAX = 2
  WINDOW = 3
  STALE = 2
  Timely = TRUE
  MaxTime = 1000
  MaxCrashes = 1000
  p1 = p1
  p2 = p2
SPECIFICATION Spec
SYMMETRY Symmetric
VIEW Ages
INVARIANT MutualExclusion
