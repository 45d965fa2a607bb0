CONSTANTS
  Cidrs <- IPCidrs
  Norm <- IPNorm
  Overlap <- IPOverlap
  Configs <- IPConfigs
  ForeignPools = {}
  Invalid = Invalid
  BadARP = BadARP
  MaxEdits = 0
  MaxFaults = 0
  MaxOperator = 0
SPECIFICATION Spec
CHECK_DEADLOCK FALSE
PROPERTY DeletesOnlyUnconfigured
