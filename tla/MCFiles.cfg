SPECIFICATION FilesSpec
CONSTANTS
  Proc = {p, q, r}
  First = p
  Name = {a, b}
  Old = {a}
  Ino = {1, 2, 3}
  Slot = {3, 4}
  Fd = {3, 4}
  Obj = {1, 2, 3, 4}
  None = None
INVARIANTS
  InodeOnce
  NoDangling
  UnlinkedNotOpen
CHECK_DEADLOCK FALSE
