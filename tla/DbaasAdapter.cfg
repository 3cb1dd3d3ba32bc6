SPECIFICATION Spec
CONSTANTS
  Reqs = {r1, r2, r3}
  Dbs = {d1, d2}
  LowerUser = LowerUser
  UpperUser = UpperUser
  Users <- MCUsers
  Fold <- MCFold
  SupportedRoles <- MCSupportedRoles
  Ops = {"create", "createUser", "createRoles", "drop", "updateMetadata", "getMetadata", "updateSettings"}
  None = None
  MaxFaults = 1
INVARIANTS
  TypeOK
  RollbackLeavesNothing
  DatabaseUsable
  UserUsable
CHECK_DEADLOCK FALSE
SYMMETRY MCSymmetry
