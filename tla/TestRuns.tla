------------------------------- MODULE TestRuns -------------------------------
(***************************************************************************)
(* The dashboard's test runs, next to everybody else who uses the daemon.  *)
(*                                                                         *)
(* A super admin starts a test: customer_test_purchase drives a checkout   *)
(* through the daemon, autobuy_readiness_check runs the purchase engine    *)
(* with a declining card, create_test_run gives the master account to an   *)
(* agent of its own.  Each inserts a test_runs row and starts a thread     *)
(* that moves the row on.  The dashboard is several worker processes: each  *)
(* has a runner lock of its own, and loses its threads when it ends.       *)
(*                                                                         *)
(* missioncontrol/admin_routes.py, missioncontrol/test_runner.py.  Every   *)
(* step is one of CheckoutDaemon or leaves the daemon alone.               *)
(***************************************************************************)
EXTENDS CheckoutDaemon, FiniteSets

CONSTANTS
  Purchases,  \* kinds of customer_test_purchase, posted to the daemon
  Readiness,  \* kinds of autobuy_readiness_check
  Agents,     \* kinds of create_test_run
  HourlyCap,  \* TEST_RUN_HOURLY_LIMIT
  Workers     \* gunicorn's worker processes

TestKinds == Purchases \cup Readiness \cup Agents

ASSUME TestKindsAssumption ==
  /\ Purchases \subseteq Forced \ Tracked
  /\ Readiness \subseteq Kinds \ Checkouts
  /\ Agents \subseteq Kinds \ (Checkouts \cup Readiness)
ASSUME WorkersAssumption == Nobody \notin Workers
ASSUME HourlyCapAssumption == HourlyCap \in Nat \ {0}

VARIABLES
  row,     \* row[r]: test_runs.status, "none" before the insert
  thread,  \* thread[r]: where the request handler, then the thread of r is
  home,    \* home[r]: the worker process that r's thread is in, if it has one
  runner,  \* runner[w]: holder of worker w's test_runner._RUNNER_LOCK
  cart     \* whose truck is in the cart of the master account

tests == <<row, thread, home, runner, cart>>
allVars == <<vars, tests>>

IsTest(r) == kind[r] \in TestKinds

TestTypeOK ==
  /\ TypeOK
  /\ row \in [Requests -> {"none", "queued", "running", "completed", "failed",
                           "deleted"}]
  /\ thread \in [Requests -> {"idle", "admitted", "started", "posting", "waiting",
                              "engine", "agent", "filled", "cleaned", "released", "done"}]
  /\ home \in [Requests -> Workers \cup {Nobody}]
  /\ runner \in [Workers -> Requests \cup {Nobody}]
  /\ cart \in Requests \cup {Nobody}

TestInit ==
  /\ Init
  /\ row = [r \in Requests |-> "none"]
  /\ thread = [r \in Requests |-> "idle"]
  /\ home = [r \in Requests |-> Nobody]
  /\ runner = [w \in Workers |-> Nobody]
  /\ cart = Nobody

GoTo(r, s) == /\ thread' = [thread EXCEPT ![r] = s]
              /\ UNCHANGED home

End(r) == /\ thread' = [thread EXCEPT ![r] = "done"]
          /\ home' = [home EXCEPT ![r] = Nobody]

(* An UPDATE of a row that was deleted meanwhile changes nothing.          *)
UpdateRow(r, status) ==
  row' = IF row[r] = "deleted" THEN row ELSE [row EXCEPT ![r] = status]

-----------------------------------------------------------------------------
(* The endpoints.                                                          *)

(* A worker process takes the request.  The runs of the last hour are       *)
(* counted, whatever their status...                                       *)
Admit(r) ==
  /\ IsTest(r) /\ thread[r] = "idle"
  /\ \/ kind[r] \in Readiness
     \/ Cardinality({c \in Requests : row[c] \notin {"none", "deleted"}}) < HourlyCap
  /\ thread' = [thread EXCEPT ![r] = "admitted"]
  /\ \E w \in Workers : home' = [home EXCEPT ![r] = w]
  /\ UNCHANGED <<vars, row, runner, cart>>

(* ...and the row is inserted by a later statement, then a thread started. *)
InsertRow(r) ==
  /\ thread[r] = "admitted"
  /\ row' = [row EXCEPT ![r] = "queued"]
  /\ GoTo(r, "started")
  /\ UNCHANGED <<vars, runner, cart>>

DeleteTestRun(r) ==
  /\ row[r] \notin {"none", "deleted"}
  /\ row' = [row EXCEPT ![r] = "deleted"]
  /\ UNCHANGED <<vars, thread, home, runner, cart>>

-----------------------------------------------------------------------------
(* _run_test_purchase_via_daemon.                                          *)

StartPurchase(r) ==
  /\ kind[r] \in Purchases /\ thread[r] = "started"
  /\ UpdateRow(r, "running")
  /\ GoTo(r, "posting")
  /\ UNCHANGED <<vars, runner, cart>>

PostTestCheckout(r) ==
  /\ thread[r] = "posting"
  /\ Arrive(r)
  /\ GoTo(r, "waiting")
  /\ UNCHANGED <<row, runner, cart>>

(* What the answer makes of the row.  A verdict the mapping does not know   *)
(* (SKIPPED, ABORTED) is completed too; FAILED here also stands for the     *)
(* declined, missed and manual ends, which are completed.                  *)
FinalStatus(a) ==
  IF a \in {"SUCCESS", "SKIPPED", "ABORTED"} THEN {"completed"}
  ELSE IF a = "FAILED" THEN {"completed", "failed"} ELSE {"failed"}

TakeAnswer(r) ==
  /\ thread[r] = "waiting" /\ answer[r] # "none"
  /\ \E status \in FinalStatus(answer[r]) : UpdateRow(r, status)
  /\ End(r)
  /\ UNCHANGED <<vars, runner, cart>>

(* Slip: a call that failed is recorded like an unknown verdict. *)
SlipCallFails(r) ==
  /\ thread[r] \in {"posting", "waiting"}
  /\ UpdateRow(r, "completed")
  /\ End(r)
  /\ UNCHANGED <<vars, runner, cart>>

(* The daemon cannot be reached, or has not answered in 300 seconds (its    *)
(* own deadline is 600): the row fails, the checkout may go on.            *)
CallFails(r) ==
  /\ thread[r] \in {"posting", "waiting"}
  /\ UpdateRow(r, "failed")
  /\ End(r)
  /\ UNCHANGED <<vars, runner, cart>>

-----------------------------------------------------------------------------
(* _run_readiness_check_in_background.                                     *)

StartReadiness(r) ==
  /\ kind[r] \in Readiness /\ thread[r] = "started"
  /\ \/ UpdateRow(r, "failed") /\ End(r)      \* import or event failed
     \/ UpdateRow(r, "running") /\ GoTo(r, "engine")
  /\ UNCHANGED <<vars, runner, cart>>

(* attempt_purchase returns, or raises.                                    *)
EndReadiness(r) ==
  /\ thread[r] = "engine"
  /\ UpdateRow(r, "completed") \/ UpdateRow(r, "failed")
  /\ End(r)
  /\ UNCHANGED <<vars, runner, cart>>

-----------------------------------------------------------------------------
(* test_runner.run_in_background: one run at a time in a worker process, on  *)
(* the master account, which all worker processes share.                   *)

Unlock(r) == runner' = [runner EXCEPT ![home[r]] = IF @ = r THEN Nobody ELSE @]

LockRunner(r) ==
  /\ kind[r] \in Agents /\ thread[r] = "started"
  /\ runner[home[r]] = Nobody
  /\ runner' = [runner EXCEPT ![home[r]] = r]
  /\ UpdateRow(r, "running")
  /\ GoTo(r, "agent")
  /\ UNCHANGED <<vars, cart>>

(* Missing settings, an agent that cannot run or crashes: no clean-up.     *)
AgentFails(r) ==
  /\ thread[r] \in {"agent", "filled"}
  /\ Unlock(r)
  /\ GoTo(r, "released")
  /\ UNCHANGED <<vars, row, cart>>

FillCart(r) ==
  /\ thread[r] = "agent"
  /\ cart' = r
  /\ GoTo(r, "filled")
  /\ UNCHANGED <<vars, row, runner>>

(* Slip: the lock only covers the agent. *)
SlipRunAgent(r) ==
  /\ thread[r] = "filled"
  /\ Unlock(r)
  /\ GoTo(r, "cleaned")
  /\ UNCHANGED <<vars, row, cart>>

(* The agent reaches its end (an order, in live mode) and a screenshot is   *)
(* taken.                                                                  *)
RunAgent(r) ==
  /\ thread[r] = "filled"
  /\ GoTo(r, "cleaned")
  /\ UNCHANGED <<vars, row, runner, cart>>

(* _cart_cleanup_safe empties the cart, if it can; the lock is released.   *)
CleanUp(r) ==
  /\ thread[r] = "cleaned"
  /\ cart' \in {cart, Nobody}
  /\ Unlock(r)
  /\ GoTo(r, "released")
  /\ UNCHANGED <<vars, row>>

(* The outcome is written without the lock.                                *)
RecordOutcome(r) ==
  /\ thread[r] = "released"
  /\ UpdateRow(r, "completed") \/ UpdateRow(r, "failed")
  /\ End(r)
  /\ UNCHANGED <<vars, runner, cart>>

-----------------------------------------------------------------------------
(* A worker process ends (a deploy, or a request over gunicorn's timeout)   *)
(* and is replaced: its threads die and its lock is a new one.  No start-up *)
(* code looks after the rows.                                              *)
WorkerExit(w) ==
  /\ \E r \in Requests : home[r] = w
  /\ thread' = [r \in Requests |-> IF home[r] = w THEN "done" ELSE thread[r]]
  /\ home' = [r \in Requests |-> IF home[r] = w THEN Nobody ELSE home[r]]
  /\ runner' = [runner EXCEPT ![w] = Nobody]
  /\ UNCHANGED <<vars, row, cart>>

TestStep(r) ==
  \/ Admit(r) \/ InsertRow(r) \/ DeleteTestRun(r)
  \/ StartPurchase(r) \/ PostTestCheckout(r) \/ TakeAnswer(r) \/ CallFails(r)
  \/ StartReadiness(r) \/ EndReadiness(r)
  \/ LockRunner(r) \/ AgentFails(r) \/ FillCart(r) \/ RunAgent(r) \/ CleanUp(r)
  \/ RecordOutcome(r)

TestNext ==
  \/ \E r \in Requests : TestStep(r) \/ (~IsTest(r) /\ Arrive(r) /\ UNCHANGED tests)
  \/ Internal /\ UNCHANGED tests
  \/ \E w \in Workers : WorkerExit(w)

TestSpec == TestInit /\ [][TestNext]_allVars

-----------------------------------------------------------------------------
(* A completed test purchase is over: no checkout of it is queued or        *)
(* running in the daemon, which could still order.  (A failed one may be.)  *)
CompletedMeansOver ==
  \A r \in Requests : kind[r] \in Purchases /\ row[r] = "completed" =>
    task[<<r, "main">>] \notin {"queued", "running"}

(* While an agent's truck is in the cart of the master account, from filling *)
(* it to the clean-up, no other test run of the same worker process empties *)
(* that cart or adds to it.  (The lock does not reach the other workers.)   *)
CartIsOwn ==
  [][\A r \in Requests : thread[r] \in {"filled", "cleaned"} /\ cart' # cart =>
       \E c \in Requests : /\ thread'[c] # thread[c]
                           /\ c = r \/ home[c] # home[r]]_allVars
=============================================================================
