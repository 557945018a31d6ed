CONSTANTS
  p1 = p1
  p2 = p2
  e1 = e1
  f1 = f1
  t1 = t1
  t2 = t2
  t3 = t3
  wide = wide
  narrow = narrow
  named = named
  all = all
  span = span
  vendor = vendor
  stale = stale
  bag = bag
  None = None
  Spans = {span}
  TraceStates = {vendor, stale}
  Baggages = {bag}
  Publishers = {p1, p2}
  Events = {e1}
  Topics = {t1, t2, t3}
  Renames = {t2}
  VinculumTopics = {t3}
  NumSubscribers = 2
  MaxPackets = 2
  Event <- MCEvent
  Calls <- MCCalls
  Ctx <- MCCtx
  Options <- MCOptions
  TopicsOf <- MCTopicsOf
  Mappings <- MCMappings
  Subscriptions <- MCSubscriptions
  HandleRetained <- MCHandleRetained
  Extracted <- MCExtracted
  Stripped <- MCStripped
  Foreign <- MCForeign
SPECIFICATION Spec
INVARIANT LinkedToProducer
CHECK_DEADLOCK FALSE
