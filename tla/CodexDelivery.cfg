SPECIFICATION FairSpec
CONSTANTS
  Files = {1, 2}
  Bindings = {1, 2}
  Proves = {1, 2, 4}
  MaxTurns = 2
  None = None
INVARIANTS
  AtMostOnce
  OwnershipFirst
  ReceiptTrue
  RefusalTrue
  OneOutstanding
  LoadsClean
  TurnsAgree
PROPERTIES
  SettledStays
  LandedIsSettled
