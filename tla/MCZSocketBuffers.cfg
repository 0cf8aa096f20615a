CONSTANTS
  u1 = u1
  u2 = u2
  c1 = c1
  c2 = c2
  NoSock = NoSock
  User <- OneUser
  Heap <- NoConn
  Fd <- MCFd
  Port <- MCPort
  RawSize = 4
  BufSize = 4
  MaxBuf = 8
  MaxWrite = 5
  CloseCb <- NoCb
  MaxOpen = 2
  Env <- Memory
SPECIFICATION Spec
CHECK_DEADLOCK FALSE
INVARIANTS
  RecvHasRoom
  BuffersOwned
