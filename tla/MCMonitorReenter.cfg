CONSTANTS
  Thread = {t1}
  Lock = {a, b, c}
  NoThread = NoThread
  NoLock = NoLock
  MaxLocks = 3
  Ops = {"lock", "reenter"}
  MaxDepth = 2
  MaxGen = 1
  MaxIgnore = 0
SYMMETRY Symmetry
SPECIFICATION Spec
PROPERTIES ReportsAreReal
CHECK_DEADLOCK FALSE
