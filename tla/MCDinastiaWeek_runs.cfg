CONSTANTS
  Warning = 4
  Critical = 4
  Oldest = 5
  Firsts <- TurnOfMonth
  Lookback = 4
  Days <- AWeekAndMore
  Stores = {1, 2}
  Watch = {1, 2}
  SilentDays = 2
  StoreLookback = 3
  Normal = 4
  Parallel = {"ventas_linea"}
  Sequential <- Heavy
  MaxRetries = 2
  ValidationWeeks = {1, 3}
  Start = 8
  Weekdays = {0, 1, 2, 3, 4, 5, 6}
  LateSets <- LateDays
  Part = 1
  Full = 2
  MaxTroubles = 1
  LastTrouble = 10
SPECIFICATION WeekSpec
INVARIANTS NoFalseAlarm LateSalesArrive OutageIsRecovered GreenMeansLoaded SilentMeansYesterday ZeroMeansLoaded
CHECK_DEADLOCK FALSE
