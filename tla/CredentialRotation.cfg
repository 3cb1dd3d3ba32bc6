SPECIFICATION Spec
CONSTANTS
  MaxRotations = 2
  MaxEdits = 1
  MaxFailures = 1
  MaxOutages = 1
  MaxDrops = 1
  None = None
INVARIANTS TypeOK KnownPassword
PROPERTIES RotationCompletes SmokeHeals
