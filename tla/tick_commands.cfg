CONSTANTS
  NumCircuits = 2
  Locked <- SecondLocked
  PriorityLocked <- SecondLocked
  DefaultPriority <- NeverAndSoc
  Priorities = {"NEVER", "SOC_THRESHOLD"}
  SocValues = {10, 50, NoSoc}
  Thresholds = {20, NoPolicy}
  NoOverride = NoOverride
  NoSoc = NoSoc
  NoPolicy = NoPolicy
  Unpublished = Unpublished
SPECIFICATION FairSpec
INVARIANTS TypeOK IInv SettledTickIsConsistent ShedFollowsPublishedPriority
PROPERTIES ImplementsRelayPromise RestoreClosesExactlyTheShed CommandReachesTheWire
