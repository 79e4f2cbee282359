SPECIFICATION ReadSpec

CONSTANTS
  acme = acme
  alert = alert
  x = x
  y = y
  home = home
  away = away
  b1 = b1
  b2 = b2
  Null = Null
  Accounts = {acme}
  SignalTypes = {alert}
  LocalRefs = {x, y}
  Isns = {home, away}
  BatchRefs = {b1, b2}
  Requests = {r1, r2}
  Withdrawals = {w1}
  Submissions <- LoadsOfBatch
  Withdraws <- WithdrawY
  RouteTargets <- None
  Registered <- Everywhere
  Searches <- SearchX
  Published <- Everywhere
  MaxReads = 1
  MaxFaults = 0
  MaxChanges = 1

SYMMETRY Symmetry

INVARIANTS
  StoredHasNoOldFailure
  ListedOnce
  NothingHiddenIsShown
  HistoryHasNoGaps

PROPERTY ImplementsStore
