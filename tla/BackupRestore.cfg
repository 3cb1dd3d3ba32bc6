SPECIFICATION Spec
CONSTANTS
  k1 = k1
  k2 = k2
  c1 = c1
  c2 = c2
  t1 = t1
  t2 = t2
  x1 = x1
  x2 = x2
  h1 = h1
  h2 = h2
  admin = admin
  u1 = u1
  u2 = u2
  u3 = u3
  Hosts <- MCHosts
  Dbs <- MCDbs
  DbMap <- MCDbMap
  Tables <- MCTables
  Rows <- MCRows
  Place <- MCPlace
  Users <- MCUsers
  Admin = admin
  Skipped <- MCSkipped
  Unhashed <- MCUnhashed
  Token <- MCToken
  CloneRole <- MCCloneRole
  InitialClusters <- MCInitialClusters
  None = None
  MaxFaults = 1
  MaxRestores = 2
  MaxWrites = 1
INVARIANTS
  TypeOK
  BackupHoldsCluster
  CloneHoldsBackup
  RestoreReverts
  GrantsKept
CHECK_DEADLOCK FALSE
