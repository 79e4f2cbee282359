SPECIFICATION FairSpec

CONSTANTS
  Null = Null
  Requests = {r1, r2}
  Modes <- WithUiOrWriteOnly
  Asked <- ReadsWritesPages
  Caches = {schemas, isnroutes}
  MaxConnections = 2
  MaxCalls = 2

\* The process ends.
CHECK_DEADLOCK FALSE

INVARIANTS
  TypeOK
  LosesNoRequest

PROPERTIES
  RequestsAnswered
  StopsWhenSignalled
