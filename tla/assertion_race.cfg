CONSTANTS
  Batteries = {b1, b2}
  Accepting <- NotOK
  ClearAfter = 3
  Elapsed = {1, 2}
  Requests = {"ON_GRID", "OFF_GRID", "NONE", "UNKNOWN"}
  Unobserved = Unobserved
  NotHealthy = NotHealthy
SPECIFICATION FairSpec
PROPERTY AcceptedOnlyWhileUnhealthy
