CONSTANTS
  SrqBufferCnt = 3
  WqeCnt = 5
  NumStrides = 2
  DmaDepth = 3
  MaxSize = 2
  Message <- MCMessage
SPECIFICATION FairSpec
INVARIANTS
  RecycleQuiescent
  PostsAccepted
  FreedWqeHoldsHead
  FlagTellsUse
  NextPoppedIsEmpty
  KeepsReceived
  ServerInv
PROPERTIES
  RnrEnds
