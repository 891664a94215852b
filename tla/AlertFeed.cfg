SPECIFICATION Spec
CONSTANTS
  Sockets = {tab, widget}
  Direct = {widget}
  MaxAlerts = 2
  MaxOutages = 1
INVARIANTS TypeOK InOrder ChannelsAgree
PROPERTIES Resubscribes AlertsArrive
CHECK_DEADLOCK FALSE
