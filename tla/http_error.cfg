SPECIFICATION Spec
CONSTANTS
  NumWorkers = 1
  Ids = {a}
  Wechat = {}
  Conns = {c1}
  Bevs = {p1}
  NoId = NoId
  Nil = Nil
  PipeCap = 2
  AddrReuse = FALSE
  MaxLogins = 1
  MaxTrans = 0
  GetReplies = {"nil"}
  ZscoreReplies = {}
  FriendLists = {{}}
  HttpReplies = {"error"}
SYMMETRY Interchangeable
CHECK_DEADLOCK FALSE
PROPERTIES
  HttpErrorReported
