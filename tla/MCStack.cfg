CONSTANTS
  h = h
  r = r
  g = g
  me = me
  NULL = NULL
  Local = {h}
  Remote = {r}
  Gateway = g
  Me = me
  NbrSocks = 2
  RemPort = 7
  Baud = {12}
  HeardPort = {3012}
  PoolNbr = 2
  Depth = 2
  PoolLen = 500
  PoolOffset = 54
SPECIFICATION Spec
INVARIANTS TypeOK FrameFreed PoolAccount WellFormed
PROPERTIES NoPanic AnswersSender PayloadOnly PeerKept
