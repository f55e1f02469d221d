CONSTANTS
  daily = daily
  weekly = weekly
  Before = before
  Pipelines = {"margen"}
  Runs = {daily, weekly}
  RangeOf <- TwoRanges
  Days = {1, 2}
  Sites = {1, 2}
  Versions = {1}
  Holdings <- AllPosted
  BatchSize = 3
  Dependents = {"rotacion"}
  Declared = {"margen", "rotacion"}
  MaxTroubles = 0
SPECIFICATION Spec
INVARIANT RerunDoesNotDuplicate
CHECK_DEADLOCK FALSE
