CONSTANTS
  t1 = t1
  t2 = t2
  n1 = n1
  n2 = n2
  b1 = b1
  b2 = b2
  Thread <- MCThread
  Node <- MCNode
  Home <- MCHome
  Buffer <- MCBuffer
  WordCnt = 3
  WriteVal = 2
  CasEqual = 0
  CasVal = 1
  Add = 1
  SqDepth = 2
  CqDepth = 2
  Calls <- MCCalls
  MaxPosted <- MCMaxPosted
  Fragile <- MCFragile
SPECIFICATION FairSpec
INVARIANTS
  CompletionsOwed
PROPERTIES
  SyncAtomic
  CallsReturn
CHECK_DEADLOCK FALSE
