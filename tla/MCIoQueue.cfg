SPECIFICATION IoQueueFairSpec
CONSTANTS
  main = main
  idle = idle
  init = init
  child = child
  Main = main
  Idle = idle
  Init0 = init
  Thread <- MCThread
  Prio <- MCPrio
  Kernel <- MCKernel
  QLock = qlock
  Lock = {qlock}
  NoThread = none
  MaxRepeat = 1
  Reader = {init, child}
  bufsize = 3
  Byte = {a, b}
  MaxKeys = 3
INVARIANTS
  FirstInFirstOut
PROPERTIES
  KeysAreRead
