\* One walk of the monitor, nobody else: is any of its checkouts refused as a duplicate?
SPECIFICATION Spec
CONSTANTS
  o1 = o1  o2 = o2  o3 = o3  e1 = e1  e2 = e2  u1 = u1  d1 = d1  d2 = d2
  Orgs = {o1, o2}
  Events = {e1}
  Urls = {u1}
  UrlOf <- OneUrl
  Dispatches = {d1}
  Processes <- MCProcesses
  Process <- MonitorAndDashboard
  Cards <- OneCard
  MaxOrgsPerTruck = 2
  SteppedOver = {}
  AlertOnly = {}
  OperatorActs <- NoActs
  Toggled = {}
  Faults <- NoFaults
INVARIANT WalkIsNotItsOwnDuplicate
CHECK_DEADLOCK FALSE
