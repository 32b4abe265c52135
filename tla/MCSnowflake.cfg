CONSTANTS
  Callers = {p1, p2}
  Nobody = nobody
  Node = 1
  Nodes = 3
  Seqs = 2
  Epoch = 2
  Drift = 1
  MaxClock = 4
  MaxBack = 2
  MaxIssued = 4
  MaxRuns = 2
SPECIFICATION FairSpec
INVARIANTS TypeOK StrictlyIncreasing FieldsFaithful
PROPERTIES Timely CallsReturn
CHECK_DEADLOCK FALSE
