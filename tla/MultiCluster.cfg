SPECIFICATION Spec
CONSTANTS
  N = 2
  MaxReplicas = 2
  Plan <- MCPlan
  MaxEdits = 4
  MaxFailures = 1
  None = None
INVARIANTS TypeOK SystemKeyspacesSpanRing ReaperSpansRing NewDataCentreRebuilt
CHECK_DEADLOCK FALSE
