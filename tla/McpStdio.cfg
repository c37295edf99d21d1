CONSTANTS
  c1 = c1
  c2 = c2
  b1 = b1
  b2 = b2
  Callers = {c1, c2}
  Loader = loader
  Order <- MCOrder
  Uses <- MCUses
  MaxCalls = 3
  Chatty = TRUE
SPECIFICATION FairSpec
INVARIANTS
  AnswerIsOwn
  HandshakeFirst
  StopAllLeavesNothing
PROPERTIES
  CallsEndUnlessBlocked
CHECK_DEADLOCK FALSE
