CONSTANTS
  Requests = {r1, r2, r3}
  Words = {alice}
  Spellings = {lower, upper}
  Discs = {1, 2}
  MaxTries = 2
SPECIFICATION Spec
SYMMETRY RequestSymmetry
INVARIANT CollisionsRetried
CHECK_DEADLOCK FALSE
