CONSTANTS
  daily = daily
  weekly = weekly
  Before = before
  Pipelines = {"ventas", "margen", "rotacion"}
  Runs = {daily, weekly}
  RangeOf <- SameRanges
  Days = {1, 2}
  Sites = {1, 2}
  Versions = {1}
  Holdings <- OneLate
  BatchSize = 2
  Dependents = {"rotacion"}
  Declared = {"margen", "rotacion"}
  MaxTroubles = 1
SPECIFICATION FairSpec
INVARIANTS LoneLoadIsExact AgreeingLoadsAreExact ReportedRefreshShowsTheLoad
PROPERTIES NoDayIsEmptied EveryRunEnds
CHECK_DEADLOCK FALSE
