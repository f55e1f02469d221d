CONSTANTS
  u = u
  timer = timer
  hand = hand
  Items = {1, 2}
  Tipo4 = {1, 2}
  Maestro <- MCMaestro
  Days = {1, 2, 3, 4}
  Lapsos = {1, 2}
  Lapso <- MCLapso
  Enero <- MCEnero
  Documents <- MCDocuments
  Procs = {timer, hand}
  Empresas <- MCOne
  Calls <- MCCalls
  RollingDays = 1
  Inicial <- MCInicial
  Cargados <- MCCargados
  Cambios <- MCCambios
  MaxRuns = 2
  MaxFaults = 1
  MaxPosts = 1
  MaxStock = 1
SPECIFICATION Spec
INVARIANTS DoneDaysHaveTheSales RecentSaleIsKnown ZeroMeansAllDone
PROPERTIES SnapshotSurvives
CHECK_DEADLOCK FALSE
