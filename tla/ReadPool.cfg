SPECIFICATION FairSpec
CONSTANTS
  t1 = t1
  t2 = t2
  Pools = {p1, p2}
  Threads = {t1, t2}
  Limit = 1
  MaxIdle = 1
  Kinds <- MCKinds
  MaxDepth = 2
  None = None
INVARIANTS
  TypeOK
  PermitsConserved
  OpenBound
  ReturnWakes
PROPERTIES
  EveryRequestAdmitted
CHECK_DEADLOCK FALSE
