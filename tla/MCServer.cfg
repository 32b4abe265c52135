CONSTANTS
  Tokens = {t1, t2}
  NoToken = none
  Requests = {r1, r2}
  PoolSize = 1
  AccessTTL = 1
  MaxTime = 1
SPECIFICATION ServerFairSpec
INVARIANTS ServerTypeOK SessionsKept AccessRunsOut
PROPERTIES ClosedForGood StopsInTheEnd ConnectionsComeBack
CHECK_DEADLOCK FALSE
