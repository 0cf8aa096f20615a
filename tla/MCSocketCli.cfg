CONSTANTS
  r1 = r1
  r2 = r2
  s1 = s1
  s2 = s2
  None = None
  Reader <- MCReader
  Sock <- MCSock
  Chunk = 1
  Length <- MCLength
  MaxBytes = 2
  Env <- Hazard
SPECIFICATION FairSpec
CHECK_DEADLOCK FALSE
INVARIANTS
  TypeOK
  NoConnectionLost
  ReaderWithinConnection
  JoinsRegistered
  CleanWaitsBehindReader
  StreamInOrder
PROPERTIES
  DisconnectReturns
  TimedCallReturns
