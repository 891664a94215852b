SPECIFICATION Spec
CONSTANTS
  Symbols = {eurusd, gbpusd}
  Configs <- Both
  Jitter = 1
  Delay = 1
  Ahead = 1
  Minute = 1
  WideCount = 2
  MaxTime = 7
  MaxTicks = 4
  MaxEvents = 1
SYMMETRY AnySymbol
INVARIANTS CoveredGapsReported ReportsBounded
CHECK_DEADLOCK FALSE
