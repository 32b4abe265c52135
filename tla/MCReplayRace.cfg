CONSTANTS
  Requests = {r1, r2}
  Collector = gc
  MaxId = 3
  MaxTime = 0
  TTL = 1
SPECIFICATION Spec
INVARIANT ReplayRevokesFamily
