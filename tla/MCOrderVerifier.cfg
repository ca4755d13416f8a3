SPECIFICATION Spec
CONSTANTS
  s1 = s1
  s2 = s2
  Attempts <- MCAttempts
  Syncs = {s1, s2}
  Days <- MCDays
  Skews <- EasternTime
SYMMETRY Symmetry
PROPERTIES OrdersStayDistinct DateMatchIsOwn
CHECK_DEADLOCK FALSE
