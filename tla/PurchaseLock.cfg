\* Safety and release of the lock: two processes, a contested truck and
\* another one, four instants of clock against a window of two.
SPECIFICATION Spec
CONSTANTS
  Callers = {monitor, daemon}
  Keys = {truck1, truck2}
  Window = 2
  MaxTime = 3
  Nobody = Nobody
INVARIANTS
  MutualExclusion
  SpacedCheckouts
PROPERTIES
  KeyIsReleased
CHECK_DEADLOCK FALSE
