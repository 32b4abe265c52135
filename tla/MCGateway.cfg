CONSTANTS
  Clients = {c1}
  Publishers = {p1, p2}
  Channels = {general}
  Unknown = unknown
  SendBuffer = 2
  MaxEvents = 2
  MaxCommands = 3
SPECIFICATION FairSpec
INVARIANTS TypeOK NoGhosts QuietAfterUnsubscribe
PROPERTIES PublishReturns OwedOrGone ImplementsFanout
CHECK_DEADLOCK FALSE
