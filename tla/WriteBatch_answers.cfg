SPECIFICATION Spec
CONSTANTS
  Writes = {w1, w2, w3}
  Loans = {l1}
  BatchLimit = 2
  None = None
SYMMETRY Symmetry
INVARIANTS
  NeverUnrun
  HooksStable
  IndexCommitted
PROPERTIES
  AnswersTrue
CHECK_DEADLOCK FALSE
