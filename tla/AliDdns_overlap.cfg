SPECIFICATION FairSpec
CONSTANTS
  r1 = r1
  r2 = r2
  Runs <- MCTwoRuns
  Installed = TRUE
  OldPages = FALSE
  MaxIp = 3
  MaxIds = 3
  MaxFaults = 1
  MaxRemove = 1
INVARIANTS
  FewRecords
PROPERTIES
  Converges
