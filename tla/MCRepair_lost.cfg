CONSTANTS
  Days = {1}
  Sites = {1, 2}
  Measures = {0, 1}
  Total <- Sum
  Pipelines = {"ventas", "margen", "rotacion"}
  Contents <- EveryContent
  MaxChanges = 1
  MaxFaults = 0
  MaxOthers = 1
SPECIFICATION Spec
PROPERTIES
  LostDaysSurvive
CHECK_DEADLOCK FALSE
