SPECIFICATION Spec
CONSTANTS
  o1 = o1
  o2 = o2
  Poll = Poll
  r1 = r1
  Orgs <- OneOrg
  Requests <- OneRequest
  Rankings <- OneRanking
  QbStatuses <- Accepting
  OperatorActs <- AllButRelease
  Cooldown = 1
  MaxTime = 3
  MaxEdits = 2

PROPERTIES SpacedPurchases StaleIsTransient IneligibleStaysOut ExpiredIsReleased
CHECK_DEADLOCK FALSE
