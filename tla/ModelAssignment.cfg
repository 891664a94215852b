SPECIFICATION FairSpec
CONSTANTS
  Accounts = {a1, a2}
  Models = {m1, m2}
  Threads = {t1, t2, t3}
  NoOne = NoOne
  Faults = {"offline", "refuse", "publish", "end"}
  MaxDrops = 1
  MaxRestarts = 1
INVARIANTS
  OneThreadPerAccount
  FirstAssignmentStands
PROPERTIES
  EventsAreServed
CHECK_DEADLOCK FALSE
