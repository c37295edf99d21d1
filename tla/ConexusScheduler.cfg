CONSTANTS
  Jobs <- MCJobs
  Day = 3
  MaxNow = 4
  MaxBoots = 2
SPECIFICATION FairSpec
INVARIANTS
  RepeatsExplained
  CatchupLeavesNothingDue
PROPERTIES
  CatchupEnds
CHECK_DEADLOCK FALSE
