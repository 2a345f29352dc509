SPECIFICATION Spec
CONSTANTS
  NumWorkers = 2
  Ids = {a}
  Wechat = {}
  Conns = {c1, c2}
  Bevs = {p1, p2}
  NoId = NoId
  Nil = Nil
  PipeCap = 2
  AddrReuse = TRUE
  MaxLogins = 2
  MaxTrans = 0
  GetReplies = {"match", "nil"}
  ZscoreReplies = {}
  FriendLists = {{}}
  HttpReplies = {"ok"}
SYMMETRY Interchangeable
CHECK_DEADLOCK FALSE
INVARIANTS
  BevOwnsSub
  FreedOnlyByRepeat
  ConnNumCovers
