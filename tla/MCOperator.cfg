\* The operator's endpoints against everything that can go wrong with an order:
\* two dispatches of one dashboard process over one truck event, so that
\* redirects, aborts, lost, garbled and misread checkouts of both meet, with
\* commits that raise.
SPECIFICATION Spec
CONSTANTS
  o1 = o1  o2 = o2  o3 = o3  e1 = e1  e2 = e2  u1 = u1  d1 = d1  d2 = d2
  Orgs = {o1, o2}
  Events = {e1}
  Urls = {u1}
  UrlOf <- OneUrl
  Dispatches = {d1, d2}
  Processes <- MCProcesses
  Process <- AllDashboard
  Cards <- OneCard
  MaxOrgsPerTruck = 2
  SteppedOver = {}
  AlertOnly = {}
  OperatorActs <- DispatchesAndAborts
  Toggled = {}
  Faults <- OrderFaults
INVARIANTS
  AtMostOneOrder
  OrderIsAccountedFor
  PurchasedTruckHasOrder
  WalkAdvances
PROPERTIES
  PurchasedIsFinal
  AbortIsFinal
  KeepsSalePromise
SYMMETRY Twins
CHECK_DEADLOCK FALSE
