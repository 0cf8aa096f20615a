CONSTANTS
  t1 = t1
  t2 = t2
  c1 = c1
  c2 = c2
  tty1 = tty1
  tty2 = tty2
  slow = slow
  fast = fast
  odd = odd
  None = None
  serial_mangers = serial_mangers
  LIST_POISON1 = LIST_POISON1
  LIST_POISON2 = LIST_POISON2
  Driver = "unix"
  Invalid <- MCInvalid
  Thread <- MCThread
  Ctx <- MCCtx
  Device <- MCDevice
  Setting <- MCSetting
  Fd <- MCFd
  Request <- MCRequest
  MaxRefs = 1
  MaxOpens = 2
  Env <- Races
SPECIFICATION Spec
CHECK_DEADLOCK FALSE
PROPERTY OpensOnlyWhenClosed
