CONSTANTS
  u1 = u1
  u2 = u2
  c1 = c1
  c2 = c2
  NoSock = NoSock
  User <- TwoUsers
  Heap <- OneConn
  Fd <- MCFd
  Port <- MCPort
  RawSize = 4
  BufSize = 1
  MaxBuf = 1
  MaxWrite = 1
  CloseCb <- NoCb
  MaxOpen = 3
  Env <- Misuse
SPECIFICATION Spec
SYMMETRY Swap
CHECK_DEADLOCK FALSE
INVARIANTS
  TypeOK
  WatchedAreUsable
  ListHoldsOpen
  TraversalSafe
  NoEventLost
  NoOrphan
