SPECIFICATION Spec

CONSTANTS
  acme = acme
  alert = alert
  x = x
  y = y
  home = home
  away = away
  b1 = b1
  b2 = b2
  Null = Null
  Accounts = {acme}
  SignalTypes = {alert}
  LocalRefs = {x, y}
  Isns = {home, away}
  BatchRefs = {b1, b2}
  Requests = {r1, r2}
  Withdrawals = {}
  Submissions <- LoadSubmissions
  Withdraws <- None
  RouteTargets <- Anywhere
  Registered <- HomeOnly
  MaxFaults = 1
  MaxChanges = 1

SYMMETRY Symmetry

INVARIANTS
  TypeOK
  LocksHeld
  VersionsContiguous
  NumberIsFresh
  StoredIsDurable
  CountsAddUp
  NothingStoredThroughDisabledIsn

