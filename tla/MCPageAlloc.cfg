SPECIFICATION AllocSpec
CONSTANTS
  main = main
  idle = idle
  init = init
  child = child
  Main = main
  Idle = idle
  Init0 = init
  Thread <- MCThread
  Prio <- MCPrio
  KernelPool = kpool
  UserPool = upool
  Lock = {kpool, upool}
  NoThread = none
  MaxRepeat = 1
  Frame = {0, 1, 2}
  MaxOwned = 2
  Kernel = {main}
INVARIANTS
  FramesAccounted
