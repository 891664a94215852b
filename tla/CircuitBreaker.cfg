SPECIFICATION Spec
CONSTANTS
  StartBalance = 100
  ErrorPct = 40
  MinOperations = 2
  ErrorWindow = 1
  Cooldown = 1
  MaxTrials = 2
  Hour = 2
  Day = 4
  LossPct <- Limits
  Results <- Moves
  Faults = {"db", "info"}
  MaxLoss = 3
  MaxTime = 2
  MaxOps = 2
  MaxErrors = 1
  MaxResets = 1
  MaxRestarts = 1
INVARIANTS TrialsBounded BooksAgree LossHalts
