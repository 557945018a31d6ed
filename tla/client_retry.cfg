\* Two calls of Start, one after the other.
CONSTANTS
  Starts = {s1, s2}
  Stops = {t1}
  Publishers = {p1}
  HasSubscriptions = FALSE
  MaxReconnectAttempts = 1
  KeepAlive = 256000
  Scheme = "mqtts"
  HasTLSConfig = TRUE
  OutageCap = 2
  CountCap = 1
  None = None
SPECIFICATION SequentialSpec
CHECK_DEADLOCK FALSE
INVARIANTS
  NoLeakedManager
  SingleManager
