CONSTANTS
  MessageNR = 6
  BatchCount = 3
  MaxBacklog = 5
  MsgCnt = 7
SPECIFICATION RecvSpec
INVARIANTS
  HeldIntact
  BuffersAccounted
  NoneDropped
