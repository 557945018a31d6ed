CONSTANTS
  Starts = {s1}
  Stops = {t1}
  Publishers = {p1}
  HasSubscriptions = TRUE
  MaxReconnectAttempts = 2
  KeepAlive = 256000
  Scheme = "mqtts"
  HasTLSConfig = FALSE
  OutageCap = 3
  CountCap = 1
  None = None
SPECIFICATION FairSpec
CHECK_DEADLOCK FALSE
PROPERTY CallerCancelShutsDown
