SPECIFICATION Spec
CONSTANTS
  Specs <- MCSpecs
  InitialSpec <- First
  MaxNodes = 2
  MaxKeys = 3
  Tries = 2
  MaxFailures = 2
  MaxEdits = 2
  None = None
INVARIANTS TypeOK BackupReachesEveryNode PortsAgree KeyspaceFollowsSchema
PROPERTIES KeysKept EventuallyApplied
CHECK_DEADLOCK FALSE
