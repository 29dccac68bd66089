CONSTANTS
  s1 = s1
  s2 = s2
  c1 = c1
  c2 = c2
  Process <- FourNodes
  Clients <- TwoClients
  ServerCnt = 2
  MaxNetThread = 1
  NrDirectory = 2
SPECIFICATION FairSpec
INVARIANTS
  QpsPaired
  UpMeansConnected
PROPERTIES
  StartupCompletes
CHECK_DEADLOCK FALSE
