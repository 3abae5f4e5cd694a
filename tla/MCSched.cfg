SPECIFICATION FairSpec
CONSTANTS
  main = main
  idle = idle
  init = init
  child = child
  Main = main
  Idle = idle
  Init0 = init
  Thread <- MCThread
  Prio <- MCPrio
INVARIANTS
  TypeOK
  NoDuplicates
  ListsAgree
  NoPanic
PROPERTIES
  FifoAmongReady
  ReadyRuns
