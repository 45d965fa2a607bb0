CONSTANTS
  Keys <- MCKeys
  MaxLen = 3
SPECIFICATION Spec
INVARIANT TypeOK
INVARIANT Pairing
INVARIANT NoSplit
INVARIANT EachOnce
INVARIANT MatchesReference
PROPERTY Terminates
CHECK_DEADLOCK FALSE
