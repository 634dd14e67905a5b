CONSTANTS
  retryLimit = 2
  MaxSockets = 4
  MaxCloses = 1
SPECIFICATION WsSpec
PROPERTY CloseStopsReconnecting
CHECK_DEADLOCK FALSE
