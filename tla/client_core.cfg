\* One call of Start, two concurrent calls of Stop.
CONSTANTS
  Starts = {s1}
  Stops = {t1, t2}
  Publishers = {p1, p2}
  HasSubscriptions = TRUE
  MaxReconnectAttempts = 2
  KeepAlive = 256000
  Scheme = "mqtts"
  HasTLSConfig = FALSE
  OutageCap = 3
  CountCap = 3
  None = None
SPECIFICATION Spec
SYMMETRY Symmetry
CHECK_DEADLOCK FALSE
INVARIANTS
  TypeOK
  GivesUpExactlyAtLimit
  OutageReported
  StopIsFinal
  StartedWired
  NoDoubleClose
  DisconnectNotUndercut
PROPERTIES
  HostView
  ShutdownNears
