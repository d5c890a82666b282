CONSTANTS
  f1 = f1
  f2 = f2
  Load = {f1, f2}
  NONE = NONE
  RxBlocks = 4
  TxBlocks = 3
  RxMax = 2
  TxMax = 2
SPECIFICATION Spec
INVARIANT TypeOK
PROPERTIES ReceivesInOrder TransmitsInOrder KeepsReading
