\* What walks leave behind and that they end: the monitor and the dashboard each
\* dispatch the truck, the operator flips the rotation of the organisation that
\* buys, the sync copies it, a card verdict suspends, calls raise and die; of the
\* other organisations one is stepped over for the category and one is alert-only.
SPECIFICATION Spec
CONSTANTS
  o1 = o1  o2 = o2  o3 = o3  e1 = e1  e2 = e2  u1 = u1  d1 = d1  d2 = d2
  Orgs = {o1, o2, o3}
  Events = {e1}
  Urls = {u1}
  UrlOf <- OneUrl
  Dispatches = {d1, d2}
  Processes <- MCProcesses
  Process <- MonitorAndDashboard
  Cards <- OneCard
  MaxOrgsPerTruck = 2
  SteppedOver = {o2}
  AlertOnly = {o3}
  OperatorActs <- Initiates
  Toggled = {o1}
  Faults <- CallerFaults
INVARIANT SuccessIsBooked
PROPERTIES
  DispatchEnds
  SuspensionHolds
  
CHECK_DEADLOCK FALSE
