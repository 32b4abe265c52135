CONSTANTS
  Requests = {r1, r2}
  Collector = gc
  MaxId = 2
  MaxTime = 0
  TTL = 1
SPECIFICATION Spec
INVARIANT LogoutEndsSession
