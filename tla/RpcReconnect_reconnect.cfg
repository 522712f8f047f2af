SPECIFICATION HistorySpec
CONSTANTS
  app1 = app1  app2 = app2
  c1 = c1  c2 = c2  c3 = c3
  Host = {app1, app2}
  Call = {c1, c2}
  CallerOf <- MCCallerOf
  Cap = 1
  None = None
  MaxCrash = 1
INVARIANTS
  Reconnects
\* no further call is made once all of Call are over
CHECK_DEADLOCK FALSE
