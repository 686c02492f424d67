SPECIFICATION FairSpec
CONSTANTS
  a = a b = b nl = nl m1 = m1 m2 = m2
  Bytes <- AllBytes
  Newline = nl
  Messages = {m1, m2}
  Encoding <- Encodings
  Foreign <- ForeignBytes
  HighWater = 1
  MaxStream = 10
INVARIANTS
  TypeOK
  CacheIsSound
  MessagesArrive
PROPERTIES
  ImplementsLineStream
  ReaderEnds
CHECK_DEADLOCK FALSE
