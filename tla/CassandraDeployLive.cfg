SPECIFICATION FairSpec
CONSTANTS
  Specs <- MCSpecs
  InitialSpec = "two"
  PVCs <- MCPVCs
  Names <- MCNames
  Name <- MCName
  Plan <- MCPlan
  Removed <- MCRemoved
  User = "cassandra"
  None = None
  MaxFailures = 1
  MaxCrashes = 1
  MaxEdits = 2
  NoSeedList = NoSeedList
  DefaultClusterDomain = local
INVARIANT OperatorCanLogIn
PROPERTY EventuallyApplied
CHECK_DEADLOCK FALSE
