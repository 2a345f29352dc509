SPECIFICATION Spec
CONSTANTS
  NumWorkers = 2
  Ids = {a, b}
  Wechat = {}
  Conns = {c1, c2, c3}
  Bevs = {p1, p2, p3}
  NoId = NoId
  Nil = Nil
  PipeCap = 2
  AddrReuse = FALSE
  MaxLogins = 1
  MaxTrans = 0
  GetReplies = {"match", "mismatch", "nil"}
  ZscoreReplies = {}
  FriendLists = {{}}
  HttpReplies = {"ok", "refused", "error", "noconnect"}
SYMMETRY Interchangeable
CHECK_DEADLOCK FALSE
INVARIANTS
  TypeOK
  Authentic
  NoDangling
  DuplicateIsTransient
PROPERTIES
  OnlyRivalsDisplace
  ImplementsRegistry
