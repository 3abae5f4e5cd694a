SPECIFICATION DirsSpec
CONSTANTS
  NI = 5
  NB = 7
  DIRECT = 2
  INDIRECT = 2
  PER_SEC = 2
  SEC_BITS = 4
  BYTE = 1
  WRAP = 4
  MaxOpens = 1
  Arg <- MCArg
  CreatePath <- MCCreatePath
  OpenPath <- MCOpenPath
INVARIANT NoNameLost
CHECK_DEADLOCK FALSE
