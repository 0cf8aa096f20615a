CONSTANTS
  low = low
  high = high
  Junk = Junk
  Byte <- MCByte
  NewSizes <- MCNewSizes
  RawSize = 2
  MaxChunk = 2
  MaxSize = 8
SPECIFICATION Spec
INVARIANTS
  TypeOK
  NoJunkUnread
  RoomAfterConsume
PROPERTY ImplementsByteQueue
