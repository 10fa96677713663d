CONSTANTS
  Thread = {t1, t2}
  Lock = {a, b}
  NoThread = NoThread
  NoLock = NoLock
  MaxLocks = 7
  Ops = {"lock", "delete", "misuse", "exit"}
  MaxDepth = 1
  MaxGen = 2
  MaxIgnore = 0
SYMMETRY Symmetry
SPECIFICATION Spec
INVARIANTS EdgeEndsTraced
PROPERTIES ReleasesAreJudged
CHECK_DEADLOCK FALSE
