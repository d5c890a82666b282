CONSTANTS
  TxSize = 3
  MsgRoom = 1
  MaxPut = 3
  PeerMax = 0
  Windows = {3}
  NetMax = 3
  Busy = 1
  MaxFailed = 0
SPECIFICATION Spec
INVARIANT StreamIntact
