SPECIFICATION PumpSpec
CONSTANTS
  Files = {1}
  Bindings = {1}
  Proves = {1, 2, 4}
  MaxTurns = 2
  None = None
PROPERTY
  RefusedIsRetried
