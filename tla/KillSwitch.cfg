SPECIFICATION FairSpec
CONSTANTS
  Polled = {file}
  Pushed = {}
  Signalled = {sigusr1}
  Main = Main
  Nobody = Nobody
  Trades = {t1, t2}
  CloseMayFail = TRUE
  LogMayFail = TRUE
  MaxEvents = 2
  MaxRestarts = 1
INVARIANTS KillLeaves AuditAgrees
PROPERTIES KillStands FlagKills CallsReturn
