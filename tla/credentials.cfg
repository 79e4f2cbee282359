SPECIFICATION Spec

CONSTANTS
  Null = Null
  Users = {ann}
  Services = {s1, s2}
  Passwords = {p1, p2}
  Tokens = {t1, t2, t3}
  Calls = {c1, c2}
  MaxCalls = 3

SYMMETRY Symmetry

INVARIANTS
  TypeOK
  DisabledAccountGetsNoToken
  DeadCredentialGetsNoToken
  OldPasswordGetsNoToken
  EarlierCredentialsEnd
  SetupLinkUsedOnce
