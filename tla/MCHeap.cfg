SPECIFICATION HeapSpec
CONSTANTS
  PG_SIZE = 64
  ARENA = 12
  SMALLEST = 16
  DESC_CNT = 2
  pool_size = 192
  W = 3
  btmp_bytes_len = 1
  FrameLen = 1
  AskFor = {0, 16, 17, 40, 60}
INVARIANTS
  LiveBlocksApart
  ArenaCounts
  PagesMatch
  PanicsOnlyWhenFull
CHECK_DEADLOCK FALSE
