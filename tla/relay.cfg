SPECIFICATION Spec
CONSTANTS
  NumWorkers = 2
  Ids = {a, b}
  Wechat = {b}
  Conns = {c1, c2}
  Bevs = {p1, p2}
  NoId = NoId
  Nil = Nil
  PipeCap = 2
  AddrReuse = FALSE
  MaxLogins = 1
  MaxTrans = 2
  GetReplies = {"match"}
  ZscoreReplies = {"string", "nil", "null"}
  FriendLists = {{}}
  HttpReplies = {"ok", "refused", "error", "noconnect"}
SYMMETRY Interchangeable
CHECK_DEADLOCK FALSE
INVARIANTS
  InboxIsOwn
  SingleOwner
  RelayInOrder
