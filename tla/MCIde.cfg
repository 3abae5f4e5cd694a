SPECIFICATION IdeFairSpec
CONSTANTS
  main = main
  idle = idle
  init = init
  child = child
  Main = main
  Idle = idle
  Init0 = init
  Thread <- MCThread
  Prio <- MCPrio
  Kernel <- MCKernel
  Chan = chan
  Lock = {chan}
  NoThread = none
  MaxRepeat = 1
  User = {main, child}
  Chunk = 2
  SecCnt = {3}
INVARIANTS
  ReturnsWhenDone
  SleeperIsServed
PROPERTIES
  CallsReturn
