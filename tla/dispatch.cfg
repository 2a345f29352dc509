SPECIFICATION FairSpec
CONSTANTS
  NumWorkers = 2
  Conns = {c1, c2, c3}
  MaxNum = 1
  PipeCap = 1
  Batch = 1
  Stop = Stop
  Sweep = Sweep
  MaxSweeps = 1
CHECK_DEADLOCK FALSE
INVARIANTS
  TypeOK
  OvershootBounded
  HandedOverOnce
  StopIsLast
  NoUseOfDeleted
  JoinJustified
PROPERTIES
  ShutdownEnds
  
