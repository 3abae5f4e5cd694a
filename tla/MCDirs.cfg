\* Five inodes, the root's among them: the fourth entry of the root is the
\* second behind its table, and number 4 is one that inode_sync cannot hold.
\* The blocks from 5 on have their bits in the second sector of the bitmap.
\* Block 8 is the one that partition_format wrongly leaves free.
SPECIFICATION DirsSpec
CONSTANTS
  NI = 5
  NB = 7
  DIRECT = 2
  INDIRECT = 2
  PER_SEC = 2
  SEC_BITS = 4
  BYTE = 1
  WRAP = 4
  MaxOpens = 1
  Arg <- MCArg
  CreatePath <- MCCreatePath
  OpenPath <- MCOpenPath
INVARIANTS TreeOK BlocksAccounted ListingComplete PathsLeadBack DiskAgrees
CHECK_DEADLOCK FALSE
