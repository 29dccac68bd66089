SPECIFICATION AlgorithmsSpec
CONSTANTS
  LONG = 16
  SHORT = 8
  Buffers <- MCBuffers
  MESSAGE_SIZE = 24
  Header = 2
  Padding = 8
  Uint32 = 2
  IdCnt = 3
  SizeCnt = 24
  Nothing = Nothing
  NullWr = NullWr
  Octet <- MCOctet
  Vectors <- MCVectors
  Remote <- MCRemote
  Value = {101, 102, 103}
  Messages <- MCMessages
INVARIANTS
  CrcAgrees
  VectorsWritten
  MessagesArrive
CHECK_DEADLOCK FALSE
