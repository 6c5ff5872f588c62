CONSTANTS
  Syncs = {w1, w2}
  Reader = reader
  None = none
  Late = {w1}
  Mute = {w1}
  Refused = {w1}
SPECIFICATION FairSpec
INVARIANTS
  SomebodyGoesOn
  SleeperHasWaker
  TimeoutsTouchNoFreed
PROPERTIES
  EndedReturns
