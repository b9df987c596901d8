CONSTANTS
  Circuit = c1
  Variants = {"span", "span-alpha-test-b2", "reference"}
  RelayBehaviors = {"controllable", "non-controllable"}
  Systems = {"pv"}
  DefaultPriorities = {"NEVER", "OFF_GRID", "NICE_TO_HAVE"}
  RelayPayloads = {"OPEN", "CLOSED", "UNKNOWN"}
  PriorityPayloads = {"NEVER", "SOC_THRESHOLD", "GARBAGE"}
  AmpPayloads = {0, 8, 40}
  LockPayloads = {"LOCKED", "UNLOCKED", "GARBAGE"}
  MaxCurrents = {5, 16}
  Firmwares <- MCFirmwares
  SocValues = {10, NoSoc}
  Threshold = 20
  NoOverride = NoOverride
  NoSoc = NoSoc
  None = None
  Unpublished = Unpublished
SPECIFICATION Spec
CHECK_DEADLOCK FALSE
INVARIANTS ControllableMeansSettable LastCommandWins PublishedInFormat CaptureReproduces
PROPERTY ReadOnlyNeverMoves
