SPECIFICATION Spec
CONSTANTS
  NumWorkers = 2
  Ids = {a}
  Wechat = {}
  Conns = {c1, c2}
  Bevs = {p1, p2}
  NoId = NoId
  Nil = Nil
  PipeCap = 2
  AddrReuse = FALSE
  MaxLogins = 1
  MaxTrans = 0
  GetReplies = {"match"}
  ZscoreReplies = {}
  FriendLists = {{}}
  HttpReplies = {}
SYMMETRY Interchangeable
CHECK_DEADLOCK FALSE
INVARIANTS
  LoginUnique
