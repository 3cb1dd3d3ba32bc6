SPECIFICATION Spec
CONSTANTS
  Specs <- MCSpecs
  InitialSpec = "two"
  PVCs <- MCPVCs
  Names <- MCNames
  Name <- MCName
  Plan <- MCPlan
  Removed <- MCRemoved
  User = "admin"
  None = None
  MaxFailures = 2
  MaxCrashes = 1
  MaxEdits = 2
  NoSeedList = NoSeedList
  DefaultClusterDomain = local
INVARIANTS
  TypeOK
  NoSharedVolume
  OneNodeDown
  OperatorCanLogIn
  Converged
  Bootstrapped
PROPERTY VolumesHandedOver
CHECK_DEADLOCK FALSE
