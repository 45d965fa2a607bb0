CONSTANTS
  FedNs = ns
  Roles = {r}
  Clusters = {c1}
  Procs <- MCProcs
  Joints <- MCJoints
  MaxRequests = 2
  MaxFaults = 1
SPECIFICATION Spec
CHECK_DEADLOCK FALSE
INVARIANT TypeOK
INVARIANT AttachedOnce
INVARIANT SyncingHonest
PROPERTY SyncRepairs
