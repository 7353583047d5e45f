SPECIFICATION FairSpec
CONSTANTS
  Observers = {o1, o2, o3}
  Threads = {t1, t2}
  MaxCommits = 2
  None = None
INVARIANTS
  QuietAfterDrop
  NoMissedCommit
PROPERTIES
  NeverRestarted
  EveryDropReturns
CHECK_DEADLOCK FALSE
