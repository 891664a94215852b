SPECIFICATION Spec
CONSTANTS
  ClientIds = {c1}
  NoClient = NoClient
  Symbols = {s1}
  Quantities = {1}
  UpdateStates <- FewStates
  BrokerViews <- LongView
  UseDatabase = TRUE
  UseFile = TRUE
  Faults <- StartFaults
  MaxOrders = 2
  MaxFilled = 1
  MaxRestarts = 1
CHECK_DEADLOCK FALSE
INVARIANT KeysIndexOrders
