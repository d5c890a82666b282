CONSTANTS
  NULL = NULL
  m1 = m1
  m2 = m2
  m3 = m3
  Msg = {m1, m2, m3}
  Depth = 4
SPECIFICATION Spec
PROPERTY ImplementsDeque
INVARIANT TypeOK
