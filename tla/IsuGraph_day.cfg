SPECIFICATION Spec
CONSTANTS
  Hour = 2
  Hours = 3
  Time <- MCTime
  Kind <- MCKind
  GraphDate = 2
  MaxReports = 3
INVARIANTS
  PointsPartitionReports
  GraphIsByHour
  HundredMeansAll
\* the response is complete
CHECK_DEADLOCK FALSE
