SPECIFICATION FairSpec

CONSTANTS
  Null = Null
  strict = strict
  skip = skip
  broken = broken
  red = red
  blue = blue
  Slugs = {"port"}
  Schemas = {strict, skip, broken}
  Skip = skip
  Broken = {broken}
  Fields = {"port"}
  FieldsOf <- StrictHasPort
  Strings <- Ports
  Lower <- InLowerCase
  Globs <- PortGlobs
  Requests <- Both
  Isns = {red, blue}
  Histories <- Starts
  Instances = {n1}
  Calls = {c1, c2}
  MaxCalls = 3
  MaxFaults = 1
  MaxNumber = 11

INVARIANTS
  TypeOK
  ConfigsOfTypes
  RoutedAsDeclared
PROPERTIES
  NewVersionIsGreatest
  DeletedNotCached
  CachesCatchUp
