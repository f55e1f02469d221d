CONSTANTS
  Procs = {p1, p2}
  MAX = 1
  WINDOW = 2
  STALE = 1
  Timely = FALSE
  MaxTime = 3
  MaxCrashes = 1
  p1 = p1
  p2 = p2
SPECIFICATION FairSpec
INVARIANTS ExclusiveUnlessRobbed SlidingBound RateLimitRespected
PROPERTY CrashDoesNotWedge
