CONSTANTS
  Circuits <- MCCircuits
  Placement <- MCPlacement
  Locked <- MCLocked
  Priority <- MCPriority
  Role <- MCRole
  BessFeeds <- MCFeeds
  Bess = {b1}
  Configs <- BothConfigs
  InitialEnergy <- MCEnergy
  InitialConfigs <- NoneYet
  InitialSoc = 75
  StepsPerHour = 2
  Threshold = 40
  Readings <- MCReadings
  Intervals <- MCIntervals
  UpstreamLugs = UpstreamLugs
  DownstreamLugs = DownstreamLugs
  RemoteCt = RemoteCt
  NoOverride = NoOverride
  NoSoc = NoSoc
  MaxTicks = 3
SPECIFICATION Spec
CHECK_DEADLOCK FALSE
INVARIANTS TypeOK FlowsBalanceWhenCovered DownstreamLugsAgree WireMetersBalance
PROPERTIES SocWithinNameplate ReserveSurvivesShortTicks OneDirectionPerTick WireRegistersFollowMeters RecordedTickReplays
