CONSTANTS
  t1 = t1
  t2 = t2
  t3 = t3
  NetThreadCnt = 3
  DirectoryCnt = 1
  AppThread <- Threads
  Size <- Sizes
  MaxFailures = 2
SPECIFICATION SetupSpec
INVARIANTS
  ContextWhole
  AnnouncedWhole
  ThreadsApart
CHECK_DEADLOCK FALSE
