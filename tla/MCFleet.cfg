\* One truck, one customer, every engine; two faults where nothing is bought, else one.
CONSTANTS
  t1 = t1
  c1 = c1
  nobody = nobody
  Trucks = {t1}
  Customers = {c1}
  NoCustomer = nobody
  EngineModes = {"roster", "daemon", "devtools", "idle"}
  AgentAllowed = TRUE
  StaleAfter = 1
  MaxFaults <- Faults
  RestartGap = 2
  PurchaseTicks = 1
  FailCycles = 2
SPECIFICATION Spec
INVARIANTS
  LadderOrdersOnce
PROPERTIES
  RedispatchOnlyAfterLoss
  CooldownSurvivesScan
  RestartsAreSpaced
  AlarmsAlternate
  OutagesEnd
