CONSTANTS
  pieza = pieza
  caja = caja
  timer = timer
  hand = hand
  Items = {1, 2}
  Tipo4 = {1, 2}
  Maestro <- MCMaestro
  Days = {1, 2, 3}
  Lapsos = {1, 2, 3}
  Lapso <- MCLapso
  Enero <- MCEnero
  Documents <- MCDocuments
  Procs = {timer, hand}
  Versions = {"inc", "v2", "v3", "v4"}
  Modes <- MCModes
  Listas <- MCListas
  RollingDays = 2
  Inicial <- MCInicial
  Cambios <- MCCambios
  MaxRuns = 2
  MaxFaults = 1
  MaxPosts = 1
  MaxStock = 1
SPECIFICATION JobsSpec
INVARIANTS PhotoIsOfItsMonth SalesAreTheErps EveryCompanyIsAccountedFor
PROPERTIES RollingKeepsPhotos LockedPhotoStays
CHECK_DEADLOCK FALSE
