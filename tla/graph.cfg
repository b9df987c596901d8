CONSTANTS
  NumClasses = 3
  Unknown = Unknown
  NoParent = NoParent
  Placements <- MCPlacements
  Ids = {1, 2, 3}
  Manifests <- MCManifests
SPECIFICATION FairSpec
CHECK_DEADLOCK FALSE
INVARIANTS RefusesExactlyTheCyclic ParentsComeFirst TreeIsComplete
PROPERTY ConstructionEnds
