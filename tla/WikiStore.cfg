CONSTANTS
  Pages = {index, log}
  MaxVersions = 5
SPECIFICATION Spec
INVARIANTS
  LostOnlyMidRebase
PROPERTIES
  PushPublishes
CHECK_DEADLOCK FALSE
