CONSTANTS
  Starts = {s1}
  Stops = {stop1}
  Publishers = {pub1}
  HasSubscriptions = TRUE
  MaxReconnectAttempts = 2
  KeepAlive = 256000
  Scheme = "mqtts"
  HasTLSConfig = TRUE
  OutageCap = 3
  CountCap = 1
  None = None
  r1 = r1
  p1 = p1
  t1 = t1
  Recipients = {r1}
  Patterns = {p1}
  Topics = {t1}
  Aliases = {a1}
  PatternsOf <- MCPatternsOf
  TopicsOf <- MCTopicsOf
SPECIFICATION FairComposition
CHECK_DEADLOCK FALSE
PROPERTIES
  StopReturns
  CallerCancelShutsDown
  OutageEnds
  GivingUpIsTerminal
  LossReported
  RouterSpec
