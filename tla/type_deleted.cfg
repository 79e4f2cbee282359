SPECIFICATION Spec

CONSTANTS
  acme = acme
  alert = alert
  x = x
  y = y
  home = home
  away = away
  b1 = b1
  b2 = b2
  Null = Null
  Accounts = {acme}
  SignalTypes = {alert}
  LocalRefs = {x, y}
  Isns = {home, away}
  BatchRefs = {b1, b2}
  Requests = {r1}
  Withdrawals = {}
  Submissions <- RaceSubmissions
  Withdraws <- None
  RouteTargets <- None
  Registered <- HomeOnly
  MaxFaults = 0
  MaxChanges = 1

PROPERTY DeletedTypeHasNoSignals
