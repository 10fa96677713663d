CONSTANTS
  Thread = {t1, t2, t3}
  Lock = {a, b, c}
  NoThread = NoThread
  NoLock = NoLock
  MaxLocks = 3
  Ops = {"lock"}
  MaxDepth = 1
  MaxGen = 1
  MaxIgnore = 0
SYMMETRY Symmetry
SPECIFICATION Spec
INVARIANTS DeadlocksAreReported CyclesAreReported
PROPERTIES ReportsAreReal
CHECK_DEADLOCK FALSE
