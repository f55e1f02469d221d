CONSTANTS
  Days = {1, 2, 3}
  Sites = {1, 2}
  Measures = {0, 1}
  Total <- Sum
  Pipelines = {"ventas", "margen", "rotacion"}
  Contents <- EveryVerdict
  MaxChanges = 1
  MaxFaults = 1
  MaxOthers = 1
SPECIFICATION Spec
INVARIANTS
  PlanIsStretches
  SalesAreKept
  NothingIsLeft
  RepairedDaysAreWhole
CHECK_DEADLOCK FALSE
