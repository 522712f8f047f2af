SPECIFICATION Spec
CONSTANTS
  u1 = u1  u2 = u2  c1 = c1  c2 = c2
  p1 = p1  p2 = p2  p3 = p3  p4 = p4  p5 = p5
  w1 = w1  t1 = t1  l1 = l1
  Isu = {u1}
  CharacterOf <- MCCharacterOf
  Registered = {u1}
  Seed <- MCSeed
  Post = {p1, p2}
  IsuOf <- MCIsuOf
  ReportsOf <- MCReportsOf
  Query <- UnknownQuery
  Walk = {}
  Trend = {}
  List = {}
  Limit = 2
  MaxWriters = 2
  MaxReaders = 0
INVARIANTS
  PageIsNewestMatching
\* every request has been answered
CHECK_DEADLOCK FALSE
