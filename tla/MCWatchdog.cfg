CONSTANTS
  Thread = {t1, t2}
  Synch = {s1, s2}
  Callback = {c1}
  NoSynch = NoSynch
  Free = Free
  Platforms = {"linux", "windows"}
  Ops = {"try", "cnd_wait", "exit"}
  Limit = 1
  MaxLag = 1
  MaxTimers = 2
SPECIFICATION FairSpec
INVARIANTS TypeOK WatchdogKeepsRunning ListMatchesThreads
PROPERTIES ReportsAreDue OneReportPerTime CallsReturn TimesAreReported
