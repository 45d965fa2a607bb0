CONSTANTS
  Cidrs <- MCCidrs
  Norm <- MCNorm
  Overlap <- MCOverlap
  Configs <- MCConfigs
  ForeignPools <- MCForeign
  Invalid = Invalid
  BadARP = BadARP
  MaxEdits = 2
  MaxFaults = 1
  MaxOperator = 1
SPECIFICATION Spec
CHECK_DEADLOCK FALSE
INVARIANT TypeOK
INVARIANT PassCorrect
PROPERTY ForeignUntouched
PROPERTY Converges
PROPERTY FollowsFile
