CONSTANTS
  Names = {n1}
  RowIds <- MCRowIds
  Workers = {w1, w2}
  MaxExternal = 3
  MaxOps = 0
  ParseLimit = 100
SPECIFICATION Spec
CHECK_DEADLOCK FALSE
INVARIANT UniqueName
PROPERTY Converges
