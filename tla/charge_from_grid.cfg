CONSTANTS
  Circuits <- MCCircuits
  Placement <- MCPlacement
  Locked <- MCLocked
  Priority <- MCPriority
  Role <- MCRole
  BessFeeds <- MCFeeds
  Bess = {b1}
  Configs <- SmallOnly
  InitialEnergy <- MCEnergy
  InitialConfigs <- AllSmall
  InitialSoc = 75
  StepsPerHour = 2
  Threshold = 40
  Readings <- MCReadings
  Intervals <- MCIntervals
  UpstreamLugs = UpstreamLugs
  DownstreamLugs = DownstreamLugs
  RemoteCt = RemoteCt
  NoOverride = NoOverride
  NoSoc = NoSoc
  MaxTicks = 2
SPECIFICATION Spec
CHECK_DEADLOCK FALSE
INVARIANT BackupOnlyNeverChargesFromGrid
