CONSTANTS
  TxSize = 2
  MsgRoom = 1
  MaxPut = 2
  PeerMax = 1
  Windows = {0, 2}
  NetMax = 2
  Busy = 1
  MaxFailed = 1
SPECIFICATION Spec
INVARIANTS TypeOK StreamIntact AckedIsReceived RetryArmed
