SPECIFICATION Spec
CONSTANTS
  NumWorkers = 2
  Ids = {a, b}
  Wechat = {}
  Conns = {c1, c2}
  Bevs = {p1, p2}
  NoId = NoId
  Nil = Nil
  PipeCap = 2
  AddrReuse = FALSE
  MaxLogins = 1
  MaxTrans = 0
  GetReplies = {"match"}
  ZscoreReplies = {}
  FriendLists = {{a, b}}
  HttpReplies = {}
SYMMETRY Interchangeable
CHECK_DEADLOCK FALSE
INVARIANTS
  FriendsMeet
