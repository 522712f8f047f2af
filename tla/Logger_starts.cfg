SPECIFICATION FairSpec
CONSTANTS
  a = a  b = b  c = c
  Start = {a, b, c}
  OldDirs <- MCOldDirs
  OtherIds <- MCOtherIds
  MaxCrashes = 1
INVARIANTS
  TypeOK
  OneAtATime
  StoppedForAnother
  StopFindsDirectory
PROPERTIES
  StartReturns
\* every call has returned and every run is over
CHECK_DEADLOCK FALSE
