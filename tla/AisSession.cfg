CONSTANTS
  Main = main
  Worker = worker
  Demod = demod
  Stoppers = {s1}
  MaxFaults = 2
SPECIFICATION FairSpec
INVARIANTS
  TypeOK
  NobodyUsesFreed
  ExitOkMeansAsked
PROPERTIES
  SessionEnds
