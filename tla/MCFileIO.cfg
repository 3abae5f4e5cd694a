SPECIFICATION IOSpec
CONSTANTS
  File = {f, g}
  BLOCK_SIZE = 3
  DIRECT = 2
  INDIRECT = 2
  NB = 6
  Count = {0, 2, 3, 6}
  Offset <- MCOffset
  WORD = 32
  STAMPS = 4
INVARIANTS
  BytesInPlace
  BlocksOwnedOnce
  ReadsTheFile
CHECK_DEADLOCK FALSE
SYMMETRY FilePermutations
