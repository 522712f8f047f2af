SPECIFICATION FairSpec
CONSTANTS
  app1 = app1  app2 = app2
  r1 = r1  r2 = r2  g1 = g1  p1 = p1  i1 = i1  d1 = d1  d2 = d2
  u1 = u1
  Host = {app1, app2}
  Request = {r1, r2, g1, p1, i1}
  Load = {d1, d2}
  HandlerOf <- MCHandlerOf
  HostOf <- MCHostOf
  ResetOf <- MCResetOf
  UuidOf <- MCUuidOf
  MaxOpenConns = 2
INVARIANTS
  TypeOK
  NoDeadlock
  JIAStopsOnlyItsOwn
PROPERTIES
  RequestsEnd
\* every request has been answered
CHECK_DEADLOCK FALSE
