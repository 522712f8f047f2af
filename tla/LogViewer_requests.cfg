SPECIFICATION FairSpec
CONSTANTS
  cpu = cpu  trace = trace  dstat = dstat
  r1 = r1  r2 = r2  r3 = r3  r4 = r4
  Path = {cpu, trace}
  File = {dstat}
  Request = {r1, r2, r3, r4}
  PathOf <- MCPathOf
  Port = {1, 2}
  None = None
  MaxExits = 1
INVARIANTS
  TypeOK
  OneViewerPerPath
PROPERTIES
  RequestsEnd
\* every request is answered and every viewer has ended
CHECK_DEADLOCK FALSE
