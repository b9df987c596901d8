CONSTANTS
  NumKeys = 2
  Values = {v1, v2}
  Transports = {"owned", "wired", "unwired"}
  NoValue = NoValue
SPECIFICATION FairSpec
INVARIANTS SettledTreeIsInSync IInv
PROPERTIES NeverResurrected OutageHeals
