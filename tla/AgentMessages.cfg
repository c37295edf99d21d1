CONSTANTS
  Tasks = {t1, t2, t3}
  Providers = 2
  Slots = 2
  MaxAttempts = 2
  Cap = 1
  Halts = TRUE
  MaxTurns = 2
  MaxMessages = 4
SPECIFICATION FairSpec
INVARIANTS
  SlotsServeRequests
  EveryProviderAccounted
  EveryUserRowAnswered
  OvershootBounded
PROPERTIES
  EveryMessageEnds
CHECK_DEADLOCK FALSE
