CONSTANTS
  ana = ana
  pm = pm
  ext = ext
  ghost = ghost
  None = None
  Agents <- MCAgents
  Tasks <- MCTasks
  Tools <- MCTools
  Declared <- MCDeclared
  Heuristic <- MCHeuristic
  Team <- MCTeam
  Starter = pm
  Configured = {ana, pm, ext}
  Guarded = {ana, pm}
  MaxHops = 1
  MaxTurns = 2
  MaxBatch = 2
  Calls <- MCCalls
SPECIFICATION FairSpec
INVARIANTS
  TypeOK
  TaintIsTheChain
  DepthBounded
  AuditMissesOnlyTheLastCall
PROPERTIES
  NoExfilDownTheChain
  SessionEnds
  ImplementsSerialDelegation
CHECK_DEADLOCK FALSE
