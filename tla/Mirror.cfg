CONSTANTS
  Names = {n1, n2}
  RowIds <- MCRowIds
  Workers = {w1}
  MaxExternal = 2
  MaxOps = 1
  ParseLimit = 2
SPECIFICATION Spec
CHECK_DEADLOCK FALSE
INVARIANT TypeOK
INVARIANT UniqueName
INVARIANT Genuine
PROPERTY Converges
PROPERTY EventsResume
