CONSTANTS
  Installations <- OneInstallation
  Panel = "panel"
  Timeout = 3
  Settle = 2
  MaxTries = 2
  Record = 1
  MaxUnlisted = 1
  DownNamed <- MCDownNamed
  None = None
SPECIFICATION Spec
CHECK_DEADLOCK FALSE
INVARIANT CompleteMeansWhole
