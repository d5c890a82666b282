CONSTANTS
  NbrSocks = 1
  PoolNbr = 2
  AnyDepth = 3
  Depth <- Depths
  TxSize = 2
  MaxLen = 2
  Byte = {3}
SPECIFICATION Spec
PROPERTY NoCharLost
