CONSTANTS
  c1 = c1
  c2 = c2
  c3 = c3
  b1 = b1
  b2 = b2
  Nobody = Nobody
  Callers = {c1, c2, c3}
  Backends = {b1, b2}
  Uses <- MCUses
  CanRefresh = TRUE
  MaxGrants = 3
SPECIFICATION FairSpec
INVARIANTS
  VaultHonoured
  OwnTokensSentOnce
PROPERTIES
  EveryCallEnds
