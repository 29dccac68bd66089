CONSTANTS
  Caller <- Nodes
  Creator <- LastNode
  Expected = 4
  ServerNR = 4
SPECIFICATION SumSpec
INVARIANTS
  SumExact
  BarrierHolds
PROPERTIES
  SumsReturn
CHECK_DEADLOCK FALSE
