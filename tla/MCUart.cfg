CONSTANTS
  RxSize = 2
  TxSize = 3
  FifoSize = 1
  Char = {0, 1}
SPECIFICATION Spec
INVARIANTS TypeOK InterruptArmed
PROPERTIES SendsInOrder ReceivesInOrder WriteReturns
