CONSTANTS
  Starts = {s1}
  Stops = {t1}
  Publishers = {p1}
  HasSubscriptions = FALSE
  MaxReconnectAttempts = 0
  KeepAlive = 256000
  Scheme = "mqtts"
  HasTLSConfig = TRUE
  OutageCap = 1
  CountCap = 1
  None = None
SPECIFICATION Spec
CHECK_DEADLOCK FALSE
INVARIANT IsConnectedMeansLive
