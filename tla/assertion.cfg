CONSTANTS
  Batteries = {b1, b2}
  Accepting <- AcceptingB2
  ClearAfter = 3
  Elapsed = {1, 2}
  Requests = {"ON_GRID", "OFF_GRID", "NONE", "UNKNOWN"}
  Unobserved = Unobserved
  NotHealthy = NotHealthy
SPECIFICATION FairSpec
INVARIANTS TypeOK OldAssertionIsReclaimed IInv
PROPERTIES ClearedOnlyAfterHealthySpan ReclaimedOnceHealthy
