CONSTANTS
  r1 = r1
  r2 = r2
  r3 = r3
  wide = wide
  narrow = narrow
  t1 = t1
  t2 = t2
  Recipients = {r1, r2, r3}
  Patterns = {wide, narrow}
  Topics = {t1, t2}
  Aliases = {a1}
  PatternsOf <- MCPatternsOf
  TopicsOf <- MCTopicsOf
  None = None
SPECIFICATION Spec
INVARIANTS
  TypeOK
  DeliveredOnce
  NoStaleAlias
  AliasKept
PROPERTY RoutingSpec
