CONSTANTS
  MaxBlocks = 4
  MaxSpurious = 1
SPECIFICATION FairSpec
INVARIANTS
  TypeOK
  WholeBlocksInOrder
PROPERTY
  BlockGetsDecoded
