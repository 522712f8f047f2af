SPECIFICATION FairSpec
CONSTANTS
  app1 = app1  app2 = app2  app3 = app3
  u1 = u1  u2 = u2  alice = alice
  r1 = r1  r2 = r2  r3 = r3  s1 = s1  i1 = i1  i2 = i2
  Group = {app1, app2}
  AppGroup = {app1, app2}
  Uuid = {u1, u2}
  User = {alice}
  Reg = {r1}
  Seed = {s1}
  SeedUser = {alice}
  UuidOf <- MCUuidOf
  OwnerOf <- MCOwnerOf
  InitReq = {}
  Boot = Boot
  None = None
  MaxFaults = 1
PROPERTIES
  CommittedReachesCaches
