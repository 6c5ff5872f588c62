CONSTANTS
  N = 2
  Cancelers = {c1}
  Helpers = {}
  Reader = reader
  None = none
  MaxFaults = 0
SPECIFICATION Spec
INVARIANT
  NoActiveTransferFreed
