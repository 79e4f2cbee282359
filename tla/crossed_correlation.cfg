SPECIFICATION Spec

CONSTANTS
  acme = acme
  alert = alert
  x = x
  y = y
  home = home
  away = away
  b1 = b1
  b2 = b2
  Null = Null
  Accounts = {acme}
  SignalTypes = {alert}
  LocalRefs = {x, y}
  Isns = {home, away}
  BatchRefs = {b1, b2}
  Requests = {r1, r2}
  Withdrawals = {}
  Submissions <- CrossedSubmissions
  Withdraws <- None
  RouteTargets <- None
  Registered <- Everywhere
  MaxFaults = 0
  MaxChanges = 0

SYMMETRY Symmetry

INVARIANT CorrelationWithinIsn
