SPECIFICATION FairWorkersSpec
CONSTANTS
  Workers = {c1, c2, c3}
  Callbacks = {c1, c2, c3}
  MaxTime = 1
  Limit = 1
INVARIANTS
  WorkersTypeOK
  Conservative
  Published
  CapacityKept
  WaitingIsCounted
PROPERTIES
  EveryCallbackRuns
CHECK_DEADLOCK FALSE
