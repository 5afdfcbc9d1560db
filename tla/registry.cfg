SPECIFICATION Spec
CONSTANTS
  Names = {n1, n2}
  Own = h1
  Hosts = {h1, h2}
  None = None
  MaxId = 5
  MaxFaults = 1
  MaxEdits = 1
  MaxCrashes = 1
INVARIANT TypeOK
INVARIANT InStep
INVARIANT Remembered
PROPERTY OthersStay
