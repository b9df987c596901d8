CONSTANTS
  Installations <- MCInstallations
  Panel = "panel"
  Timeout = 3
  Settle = 2
  MaxTries = 2
  Record = 1
  MaxUnlisted = 1
  DownNamed <- MCDownNamed
  None = None
SPECIFICATION FairSpec
CHECK_DEADLOCK FALSE
INVARIANTS IInv TimesOutOnlyIfRestless DoneTreeIsWhole SamplesHoldTheTree RepublishesWhatItRead
PROPERTY CaptureEnds
