CONSTANTS
  u1 = u1
  u2 = u2
  c1 = c1
  c2 = c2
  NoSock = NoSock
  User <- OneUser
  Heap <- OneConn
  Fd <- MCFd
  Port <- MCPort
  RawSize = 4
  BufSize = 1
  MaxBuf = 1
  MaxWrite = 1
  CloseCb <- NoCb
  MaxOpen = 3
  Env <- OnlyStaleClose
SPECIFICATION Spec
CHECK_DEADLOCK FALSE
INVARIANT SendsToOpen
