SPECIFICATION Spec
CONSTANTS
  o1 = o1
  o2 = o2
  Poll = Poll
  r1 = r1
  Orgs <- OneOrg
  Requests <- OneRequest
  Rankings <- OneRanking
  QbStatuses <- WithInactive
  OperatorActs <- OnlyStatus
  Cooldown = 1
  MaxTime = 3
  MaxEdits = 1

PROPERTIES IneligibleStaysOut
CHECK_DEADLOCK FALSE
