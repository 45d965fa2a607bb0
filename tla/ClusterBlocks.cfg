CONSTANTS
  Tasks = {t1}
  ClientIds <- MCClientIds
  MaxFlips = 0
  MaxFaults = 0
  MaxRequests = 2
  MaxCrashes = 0
SPECIFICATION Spec
CHECK_DEADLOCK FALSE
PROPERTY SyncTaskEnds
