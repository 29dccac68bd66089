CONSTANTS
  c1 = c1
  c2 = c2
  Client <- Two
  SrqBufferCnt = 2
  WqeCnt = 4
  NumStrides = 2
  DmaDepth = 2
  BatchSize = 1
  BufferCnt = 1
  SqDepth = 1
  CqDepth = 1
  MaxLen = 1
  SeqCnt = 2
SPECIFICATION RowanFairSpec
PROPERTIES
  ImplementsAppendLog
  AppendsGoOn
