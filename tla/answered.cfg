SPECIFICATION FairSpec

CONSTANTS
  acme = acme
  alert = alert
  x = x
  y = y
  home = home
  away = away
  b1 = b1
  b2 = b2
  Null = Null
  Accounts = {acme}
  SignalTypes = {alert}
  LocalRefs = {x, y}
  Isns = {home, away}
  BatchRefs = {b1, b2}
  Requests = {r1, r2}
  Withdrawals = {w1}
  Submissions <- WaitingSubmissions
  Withdraws <- StaleWithdraws
  RouteTargets <- None
  Registered <- HomeOnly
  MaxFaults = 1
  MaxChanges = 0

PROPERTY EveryCallAnswered
