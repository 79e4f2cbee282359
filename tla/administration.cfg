SPECIFICATION Spec

CONSTANTS
  Null = Null
  People = {ann, bob}
  Services = {svc}
  Isns = {home}
  Types = {alert}
  Calls = {c1, c2}
  MaxCalls = 4
  Permits <- Some

SYMMETRY Symmetry

INVARIANTS
  TypeOK
  ClaimsMatchPolicy
PROPERTIES
  ChangesByAdmins
  OnlyOwnersChange
  SiteAdminRemains
