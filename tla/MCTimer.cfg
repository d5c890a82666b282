CONSTANTS
  t1 = t1
  t2 = t2
  Timer = {t1, t2}
  Duration = {1, 3}
  MaxExpired = 1
  TickMod = 3
  MaxLag = 2
SPECIFICATION FairSpec
INVARIANTS TypeOK ListConsistent OnTime Account
PROPERTIES EarlyByLagOnly EventuallyExpires
