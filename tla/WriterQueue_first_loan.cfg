SPECIFICATION Spec
CONSTANTS
  Lenders = {l1, l2}
  Batchers = {}
  Fencers = {}
  Loans = {g1}
  ForegroundTurns = 1
  BatchLimit = 2
  DelayedStores = FALSE
  Ready = Ready
  None = None
INVARIANTS
  LoanRunsWithinTurns
CHECK_DEADLOCK FALSE
