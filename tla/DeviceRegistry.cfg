SPECIFICATION FairSpec
CONSTANTS
  Contexts = {c1, c2}
  Monitor = monitor
  None = none
  Addresses = {1}
  Slots = {1, 2, 3}
  MaxChanges = 1
INVARIANTS
  SomebodyGoesOn
  RefsAreHeld
  PipeTellsPending
  MonitorIsWanted
  CaughtUp
PROPERTIES
  CallsReturn
