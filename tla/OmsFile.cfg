SPECIFICATION Spec
CONSTANTS
  ClientIds = {c1, c2}
  NoClient = NoClient
  Symbols = {s1, s2}
  Quantities = {2}
  UpdateStates <- CallerStates
  BrokerViews <- NoViews
  UseDatabase = FALSE
  UseFile = TRUE
  Faults <- NoFaults
  MaxOrders = 2
  MaxFilled = 2
  MaxRestarts = 2
CHECK_DEADLOCK FALSE
INVARIANT Idempotent
PROPERTY LedgerSpec
