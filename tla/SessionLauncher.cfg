CONSTANT
  MaxSessions = 2
SPECIFICATION FairSpec
INVARIANTS
  OneMainUnlessBlind
  ReportsOwnCode
PROPERTY
  EndedGetsReported
