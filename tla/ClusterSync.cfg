CONSTANTS
  Tasks = {t1}
  ClientIds <- MCClientIds
  MaxFlips = 1
  MaxFaults = 1
  MaxRequests = 1
  MaxCrashes = 1
SPECIFICATION Spec
CHECK_DEADLOCK FALSE
INVARIANT TypeOK
INVARIANT ClosesOnce
INVARIANT LeakSilent
INVARIANT SyncStatusHonest
PROPERTY OneClientAtATime
PROPERTY SyncAllowed
PROPERTY LostRecovers
PROPERTY EventsOn
PROPERTY TasksSettle
