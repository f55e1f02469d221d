CONSTANTS
  Procs = {p1, p2}
  Intents = {i1, i2}
  Jobs = {j1, j2}
  Days = {d1}
  Caps = {2, 3}
  Estimates = {1, 2}
  MaxRows = 4
  MaxIncidents = 2
  MaxTime = 1
  i1 = i1
  i2 = i2
  j1 = j1
  j2 = j2
  d1 = d1
  p1 = p1
  p2 = p2
SPECIFICATION Spec
SYMMETRY Symmetric
CONSTRAINT OneTable
INVARIANTS ChainVerifies UnresolvedExplained WithinCap OneOpenIncident
PROPERTIES ImplementsQueryLog
