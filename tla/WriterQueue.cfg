SPECIFICATION FairSpec
CONSTANTS
  Lenders = {}
  Batchers = {b1, b2}
  Fencers = {f1}
  Loans = {g1, g2}
  ForegroundTurns = 1
  BatchLimit = 2
  DelayedStores = FALSE
  Ready = Ready
  None = None
INVARIANTS
  TypeOK
  ForegroundFifo
  FenceOrder
  FenceNotProlonged
  BoundedOvertaking
  SlotFree
  NoneStranded
PROPERTIES
  EveryCallEnds
CHECK_DEADLOCK FALSE
