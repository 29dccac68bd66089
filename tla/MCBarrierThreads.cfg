CONSTANTS
  n0t0 = n0t0
  n0t1 = n0t1
  n1t0 = n1t0
  n1t1 = n1t1
  Caller <- Threads
  Creator <- LastThreads
  Expected = 2
SPECIFICATION FairSpec
PROPERTIES
  BarrierReleases
CHECK_DEADLOCK FALSE
