SPECIFICATION Spec

CONSTANTS
  Null = Null
  Users = {ann}
  Services = {svc}
  Passwords = {p1, p2}
  Tokens = {t1, t2, t3}
  Calls = {c1, c2}
  MaxCalls = 3

SYMMETRY Symmetry

INVARIANT DisabledUserHasNoSession
