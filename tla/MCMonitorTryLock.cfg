CONSTANTS
  Thread = {t1, t2}
  Lock = {a}
  NoThread = NoThread
  NoLock = NoLock
  MaxLocks = 1
  Ops = {"try"}
  MaxDepth = 1
  MaxGen = 1
  MaxIgnore = 0
SYMMETRY Symmetry
SPECIFICATION Spec
PROPERTIES StartTimeIsClear
CHECK_DEADLOCK FALSE
