CONSTANTS
  N = 1
  Cancelers = {c1, c2}
  Helpers = {}
  Reader = reader
  None = none
  MaxFaults = 0
SPECIFICATION FairSpec
PROPERTY
  CloseReturns
