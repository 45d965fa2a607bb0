CONSTANTS
  Machines <- MCMachines2
  Jobs <- MCJobs
  Counts <- MCCounts
  MaxRequests = 2
  MaxFaults = 1
SPECIFICATION Spec
CHECK_DEADLOCK FALSE
INVARIANT TypeOK
INVARIANT NothingLost
INVARIANT OneFirstNode
PROPERTY JobsSettle
