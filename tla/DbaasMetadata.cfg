SPECIFICATION Spec
CONSTANTS
  Reqs = {r1, r2}
  Dbs = {d1}
  LowerUser = LowerUser
  UpperUser = UpperUser
  Users <- MCUsers
  Fold <- MCFold
  SupportedRoles <- MCSupportedRoles
  Ops = {"create", "updateMetadata", "getMetadata"}
  None = None
  MaxFaults = 0
INVARIANT MetadataReturned
CHECK_DEADLOCK FALSE
