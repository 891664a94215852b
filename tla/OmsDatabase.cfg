SPECIFICATION Spec
CONSTANTS
  ClientIds = {c1}
  NoClient = NoClient
  Symbols = {s1}
  Quantities = {2}
  UpdateStates <- FewStates
  BrokerViews <- NoViews
  UseDatabase = TRUE
  UseFile = FALSE
  Faults <- WriteFaults
  MaxOrders = 2
  MaxFilled = 2
  MaxRestarts = 1
CHECK_DEADLOCK FALSE
INVARIANTS TypeOK OneOpenOrderPerClient
PROPERTIES OpenOrdersSurvive RecoveredPositions
