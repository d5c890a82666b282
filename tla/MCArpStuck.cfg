CONSTANTS
  i1 = i1
  i2 = i2
  i3 = i3
  m1 = m1
  m2 = m2
  m3 = m3
  NULL = NULL
  CacheNbr = 2
  Ip = {i1, i2, i3}
  Msg = {m1, m2, m3}
  Depth = 2
  RetryLimit = 1
  RetryTime = 1
  FlushTime = 2
SPECIFICATION Spec
INVARIANT QueuedForItsAddress
