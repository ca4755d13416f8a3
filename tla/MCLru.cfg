SPECIFICATION Spec
CONSTANTS
  o1 = o1
  o2 = o2
  Poll = Poll
  r1 = r1
  Orgs <- MCOrgs
  Requests <- NoRequest
  Rankings <- NoRanking
  QbStatuses <- BothKinds
  OperatorActs <- CooldownActs
  Cooldown = 1
  MaxTime = 3
  MaxEdits = 1
INVARIANT PositionsAreLRU
CHECK_DEADLOCK FALSE
