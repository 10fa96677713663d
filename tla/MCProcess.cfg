CONSTANTS
  Thread = {t1, t2}
  Synch = {s1, s2}
  Callback = {c1}
  NoSynch = NoSynch
  Free = Free
  Platforms = {"linux"}
  Ops = {"cnd_wait", "exit"}
  Limit = 1
  MaxLag = 0
  MaxTimers = 1
  Part <- MCPart
  IntMax <- MCIntMax
  OptionString <- MCString
  MaxSections = 1
  Errors = {"deadlock"}
SYMMETRY ThreadSymmetry
SPECIFICATION ProcessSpec
CHECK_DEADLOCK FALSE
INVARIANTS ProcessTypeOK NoCallbackAfterDelete ExitFollowsSummary
PROPERTIES OptionsAreAsTold WatchedStaysWatched
