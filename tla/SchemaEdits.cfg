SPECIFICATION Spec
CONSTANTS
  Clusters = {k1, k2}
  MaxDCs = 3
  MaxReplicas = 2
  MaxSeeds = 2
  SeededDCs = 1
  MaxKeys = 1
  NoSeedList = NoSeedList
  DefaultClusterDomain = local
  Address = Address
INVARIANTS
  StatefulSetsInOrder
  RemovalSparesActiveNodes
  SeedsAreRolledOut
  OperatorCanConnect
PROPERTY IndicesNeverDrop
CHECK_DEADLOCK FALSE
