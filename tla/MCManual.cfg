\* One call of the verifier, one purchase: does what the operator set survive?
SPECIFICATION Spec
CONSTANTS
  s1 = s1
  s2 = s2
  Attempts = {1}
  Syncs = {s1}
  Days <- MCDays
  Skews <- EasternTime
PROPERTY ManualWins
CHECK_DEADLOCK FALSE
