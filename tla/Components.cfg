CONSTANTS
  Rows <- MCRows
  TaskIds <- MCTaskIds
  Versions <- MCVersions
  IsSystem = TRUE
  MaxRequests = 3
  MaxFaults = 1
  MaxCrashes = 1
SPECIFICATION Spec
CHECK_DEADLOCK FALSE
INVARIANT TypeOK
INVARIANT StatusHonest
INVARIANT RowMatchesRelease
PROPERTY TasksEnd
PROPERTY DeployingRecovers
