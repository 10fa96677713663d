CONSTANTS
  Thread = {t1, t2}
  Lock = {a, b}
  NoThread = NoThread
  NoLock = NoLock
  MaxLocks = 1
  Ops = {"lock", "reenter", "ignore", "cnd_wait", "exit"}
  MaxDepth = 2
  MaxGen = 1
  MaxIgnore = 2
SYMMETRY Symmetry
SPECIFICATION Spec
INVARIANTS HistoryIsSound IdlersAreNotTimed
CHECK_DEADLOCK FALSE
