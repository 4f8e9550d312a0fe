SPECIFICATION Spec
CONSTANTS
  c1 = c1
  Conns <- OneConn
  Ops <- AllOps
  ReplyCap = 1
  SocketCap = 1
  MaxRequests = 2
  MaxEvents = 2
CHECK_DEADLOCK FALSE
INVARIANTS WireInv ReplyIsMine
PROPERTIES ClientGoneReleases EveryCallReturns
