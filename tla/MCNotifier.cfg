SPECIFICATION FairSpec
CONSTANTS
  c1 = c1  c2 = c2  o1 = o1  o2 = o2
  Callers = {c1, c2}
  Orgs = {o1, o2}
  SmsOrgs = {o1}
  Enabled = TRUE
  MaxFaults = 1
  MaxRestarts = 1
INVARIANTS NoNoticeTwice HistoryIsHonest NothingGoesMissing WorkerInAttendance
PROPERTY NoticesAreSettled
CHECK_DEADLOCK FALSE
