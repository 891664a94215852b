SPECIFICATION PageSpec
CONSTANTS
  Components = {ticker, chart}
  Paths = {"metrics", "progress"}
  AuthAtMount = {"loading", "in"}
  MaxAttempts = 1
  MaxSockets = 3
  MaxLosses = 2
  MaxRefusals = 1
  MaxSignOuts = 1
  MaxMounts = 3
INVARIANTS PageTypeOK Served OneSocket NeverStranded
CHECK_DEADLOCK FALSE
