SPECIFICATION FairSpec
CONSTANTS
  Ticks = 3
  Stamps = {1, 2}
  StreamCap = 1
  BatchSize = 2
  QueueCap = 2
  Faults = {"wire", "register", "insert", "reader"}
INVARIANTS
  TypeOK
  InOrder
  OldestGivenUp
  LateExplained
PROPERTIES
  FeedSpec
  EveryTickSettles
CHECK_DEADLOCK FALSE
