CONSTANTS
  Thread = {t1}
  Synch = {s1}
  Callback = {c1}
  NoSynch = NoSynch
  Free = Free
  Platforms = {"linux"}
  Ops = {"exit"}
  Limit = 1
  MaxLag = 1
  MaxTimers = 1
SPECIFICATION FairSpec
PROPERTIES EveryTimeIsReported
