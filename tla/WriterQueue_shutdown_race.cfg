SPECIFICATION Spec
CONSTANTS
  Lenders = {l1}
  Batchers = {}
  Fencers = {}
  Loans = {g1}
  ForegroundTurns = 1
  BatchLimit = 2
  DelayedStores = TRUE
  Ready = Ready
  None = None
INVARIANTS
  NoneStranded
CHECK_DEADLOCK FALSE
