SPECIFICATION Spec
CONSTANTS
  Procs = {p1, p2, p3}
  ShortPids = {p1}
  Writers = {w1, w2}
  Fds = {3, 4, 5, 6}
  Nil = Nil
  Mixed = Mixed
  MaxRotations = 2
CHECK_DEADLOCK FALSE
INVARIANTS
  TypeOK
  PidFileNamesServer
  StaleMeansCrash
  LogDescriptors
  LineReachesLog
