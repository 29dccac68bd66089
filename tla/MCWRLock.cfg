CONSTANTS
  t1 = t1
  t2 = t2
  t3 = t3
  Thread <- ThreeThreads
  WordSize = 8
SPECIFICATION LockFairSpec
INVARIANTS
  MutualExclusion
  NobodyLeftBehind
  LockInv
PROPERTIES
  SomebodyEnters
