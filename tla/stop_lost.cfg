SPECIFICATION FairSpec
CONSTANTS
  NumWorkers = 1
  Conns = {c1}
  MaxNum = 1
  PipeCap = 2
  Batch = 1
  Stop = Stop
  Sweep = Sweep
  MaxSweeps = 0
CHECK_DEADLOCK FALSE
PROPERTIES
  StopSignalHeeded
