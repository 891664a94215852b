SPECIFICATION FairSpec
CONSTANTS
  Accounts = {a1}
  Models = {m1, m2}
  Threads = {t1, t2}
  NoOne = NoOne
  Faults = {}
  MaxDrops = 0
  MaxRestarts = 0
PROPERTIES
  HotSwap
CHECK_DEADLOCK FALSE
