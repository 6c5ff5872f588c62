CONSTANTS
  N = 3
  L = 2
SPECIFICATION FairSpec
INVARIANTS
  IsNotForgotten
  FreedUrbsAreBack
  ReportIsTrue
PROPERTIES
  TransferEnds
