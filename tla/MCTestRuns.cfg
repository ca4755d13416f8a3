SPECIFICATION TestSpec
CONSTANTS
  Requests = {r1, r2}
  Nobody = Nobody
  engine = engine
  live = live
  purchase = purchase
  readiness = readiness
  agent = agent
  Kinds = {engine, live, purchase, readiness, agent}
  Keys = {engine, live, purchase, readiness, agent}
  KeyOf <- MCKeyOf
  Checkouts = {engine, purchase}
  Forced = {engine, purchase}
  Tracked = {engine}
  Purchases = {purchase}
  Readiness = {readiness}
  Agents = {agent}
  HourlyCap = 1
  Workers = {w1, w2}
  Faults = {"wedge", "death", "crash", "storage"}
SYMMETRY Symmetry
INVARIANTS ContextOutlivesTask TotalIsOwn CompletedMeansOver
PROPERTIES CartIsOwn  NoOrderAfterVerdict AbortPreventsOrder
CHECK_DEADLOCK FALSE
