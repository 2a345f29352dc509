SPECIFICATION LinkFairSpec
CONSTANTS
  NumWorkers = 2
  MaxBreaks = 2
CHECK_DEADLOCK FALSE
INVARIANTS
  LinkTypeOK
  SameRedis
  BreakIsKnown
PROPERTIES
  
  LinkRestored
