SPECIFICATION SyncFairSpec
CONSTANTS
  main = main
  idle = idle
  init = init
  child = child
  Main = main
  Idle = idle
  Init0 = init
  Thread <- MCThread
  Prio <- MCPrio
  Kernel <- MCKernel
  Lock = {l1}
  NoThread = none
  MaxRepeat = 2
INVARIANTS
  MutualExclusion
  NoLostWakeup
  WaitersSleep
  InterruptFlag
  NoPanic
PROPERTIES
  ImplementsMutex
  ImplementsSched
  LockNeverStuck
