SPECIFICATION Spec
CONSTANTS
  r1 = r1
  r2 = r2
  Runs <- MCOneRun
  Installed = TRUE
  OldPages = TRUE
  MaxIp = 3
  MaxIds = 6
  MaxFaults = 2
  MaxRemove = 1
PROPERTIES
  NeverBackwards
  IsMirror
  ReportIsTrue
