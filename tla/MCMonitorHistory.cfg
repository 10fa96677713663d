CONSTANTS
  Thread = {t1, t2}
  Lock = {a, b}
  NoThread = NoThread
  NoLock = NoLock
  MaxLocks = 3
  Ops = {"lock", "reenter", "try", "delete", "exit"}
  MaxDepth = 2
  MaxGen = 2
  MaxIgnore = 0
SYMMETRY Symmetry
SPECIFICATION Spec
INVARIANTS TypeOK HistoryMatchesLocks CyclesAreReported HoldersAreTimed
CHECK_DEADLOCK FALSE
