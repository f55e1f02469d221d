CONSTANTS
  Turns = {t1, t2}
  Rungs <- TwoPaid
  Cap = 3
  HasClient = TRUE
  MaxBilled = 4
  t1 = t1
  t2 = t2
SPECIFICATION FairSpec
INVARIANTS OverspendBounded NothingForgotten
PROPERTY EveryTurnEnds
