SPECIFICATION Spec
CONSTANTS
  Writes = {w1}
  Loans = {}
  BatchLimit = 2
  None = None
INVARIANTS
  OuterErrUndone
CHECK_DEADLOCK FALSE
