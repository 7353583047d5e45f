SPECIFICATION FairSpec
CONSTANTS
  t1 = t1
  t2 = t2
  t3 = t3
  request = request
  query = query
  None = None
  Waiters = {t1, t2, t3}
  Async = {t1}
  Cancellers = {"c"}
  Budgets = {request, query}
  Timed = {query}
  Parent <- MCParent
  Of <- MCOf
  Capacity = 1
CHECK_DEADLOCK FALSE
INVARIANTS
  NoLostWake
  PermitsConserved
  NothingLeft
PROPERTIES
  ExpiredWaitEnds
