CONSTANTS
  N = 2
  Cancelers = {c1}
  Helpers = {h1}
  Reader = reader
  None = none
  MaxFaults = 1
SPECIFICATION FairSpec
INVARIANTS
  TypeOK
  CancelledStaysDown
  BuffersHaveOneOwner
  LossIsTold
PROPERTIES
  ImplementsStream
  StreamEnds
