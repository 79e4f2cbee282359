SPECIFICATION FairSpec

CONSTANTS
  Null = Null
  ann = ann
  bob = bob
  red = red
  r1 = r1
  r2 = r2
  Users = {ann, bob}
  Isns = {red}
  Members <- BobIn
  Starts <- OneSiteAdmin
  Requests = {r1, r2}
  Tabs <- AnyPageOrTwoTabs
  MaxChanges = 1
  MaxLost = 1

INVARIANTS
  TypeOK
  AnswerIsTrue
PROPERTIES
  ActionsAccepted
  DisabledUserIsOut
