CONSTANTS
  Requests = {r1, r2}
  Collector = gc
  MaxId = 2
  MaxTime = 3
  TTL = 2
SPECIFICATION FairSpec
INVARIANTS HeldTokenWorks SpentTokenDetected
PROPERTY RequestsFinish
