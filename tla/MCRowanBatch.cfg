CONSTANTS
  c1 = c1
  c2 = c2
  Client <- One
  SrqBufferCnt = 3
  WqeCnt = 4
  NumStrides = 2
  DmaDepth = 2
  BatchSize = 2
  BufferCnt = 2
  SqDepth = 2
  CqDepth = 2
  MaxLen = 1
  SeqCnt = 3
SPECIFICATION RowanSpec
INVARIANTS
  BufferStable
  WindowKept
  SendsAccepted
PROPERTIES
  ImplementsAppendLog
