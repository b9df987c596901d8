CONSTANTS
  NumCircuits = 2
  Locked <- NoLocks
  PriorityLocked <- SecondLocked
  DefaultPriority <- NeverAndOffGrid
  Priorities = {"NEVER", "OFF_GRID"}
  SocValues = {50}
  Thresholds = {20}
  NoOverride = NoOverride
  NoSoc = NoSoc
  NoPolicy = NoPolicy
  Unpublished = Unpublished
SPECIFICATION Spec
INVARIANT OpenRelayCarriesNoPower
