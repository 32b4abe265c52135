CONSTANTS
  Requests = {r1, r2, r3}
  Users = {ann, bob}
  Channels = {general, random}
  Readers = {v1}
  Limit = 1
SPECIFICATION Spec
SYMMETRY Symmetry
INVARIANTS TypeOK DeletedForGood MissesExplained AnswersAfterEvents NothingMissed
CHECK_DEADLOCK FALSE
