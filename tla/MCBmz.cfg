CONSTANTS
  NbrSocks = 2
  PoolNbr = 3
  AnyDepth = 4
  Depth <- Depths
  TxSize = 1
  MaxLen = 1
  Byte = {0, 5, 65}
SPECIFICATION FairSpec
INVARIANTS TypeOK Ownership NoPanic BeginsEmpty
PROPERTIES EtherRuns OpensAgain
