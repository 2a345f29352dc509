SPECIFICATION FairSpec
CONSTANTS
  NumWorkers = 2
  Ids = {a}
  Wechat = {}
  Conns = {c1, c2}
  Bevs = {p1, p2}
  NoId = NoId
  Nil = Nil
  PipeCap = 2
  AddrReuse = FALSE
  MaxLogins = 1
  MaxTrans = 0
  GetReplies = {"match", "mismatch", "nil"}
  ZscoreReplies = {}
  FriendLists = {{}}
  HttpReplies = {"ok", "refused"}
CHECK_DEADLOCK FALSE
PROPERTIES
  
  DuplicateResolved
