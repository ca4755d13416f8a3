-------------------------- MODULE MCTruckPurchase --------------------------
(* Small instances of TruckPurchase for TLC.                               *)
EXTENDS TruckPurchase, TLC

CONSTANTS o1, o2, o3, e1, e2, u1, d1, d2

(* All events are sightings of one truck.                                  *)
OneUrl == [e \in Events |-> u1]

(* One worker of the dashboard is enough for what the runs ask.              *)
MCProcesses == {"monitor", "dashboard"}
MonitorAndDashboard ==
  [d \in Dispatches |-> IF d = d1 THEN "monitor" ELSE "dashboard"]
AllDashboard == [d \in Dispatches |-> "dashboard"]

OneCard == [o \in Orgs |-> 1]

NoActs == {}
Initiates == {"initiate"}
DispatchesAndAborts == {"redirect", "initiate", "abort"}

NoFaults == {}
CallerFaults == {"context", "unreachable", "bookkeeping", "unlist", "caller_death"}
OrderFaults == {"timeout", "garbled", "misread", "daemon_death", "abort_read",
                "bookkeeping", "walk"}

(* Dispatches of one process, and organisations with the same cards, differ *)
(* in nothing; the one Init chooses for an idle dispatch is never looked at. *)
Twins == Permutations(Dispatches) \cup Permutations(Orgs)
=============================================================================
