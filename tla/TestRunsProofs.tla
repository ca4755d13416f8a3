---------------------------- MODULE TestRunsProofs ----------------------------
(***************************************************************************)
(* The test runs for any number of them: they use the daemon as any client   *)
(* does, a completed purchase is over, one worker process's agents never     *)
(* share the master cart.                                                  *)
(***************************************************************************)
EXTENDS TestRuns, CheckoutDaemonProofs

-----------------------------------------------------------------------------
(* The daemon's own steps under the test runs.                             *)

LEMMA TestStepIsDaemonStep == [TestNext]_allVars => [Next]_vars
<1>1. ASSUME NEW r \in Requests, TestStep(r) PROVE Arrive(r) \/ UNCHANGED vars
  BY <1>1 DEF TestStep, Admit, InsertRow, DeleteTestRun, StartPurchase, PostTestCheckout,
       TakeAnswer, CallFails, StartReadiness, EndReadiness, LockRunner, AgentFails,
       FillCart, RunAgent, CleanUp, RecordOutcome
<1>2. ASSUME NEW w \in Workers, WorkerExit(w) PROVE UNCHANGED vars
  BY <1>2 DEF WorkerExit
<1>3. UNCHANGED allVars => UNCHANGED vars
  BY DEF allVars
<1> QED
  BY <1>1, <1>2, <1>3 DEF TestNext, Next

(* Whatever the test runs do is a behaviour of the daemon, so that the facts  *)
(* of CheckoutDaemonProofs hold under them.                                *)
THEOREM TestRunsUseTheDaemon == TestSpec => Spec
<1>1. TestInit => Init
  BY DEF TestInit
<1> QED
  BY <1>1, TestStepIsDaemonStep, PTL DEF TestSpec, Spec

(* A verdict, once given, stays.                                           *)
LEMMA AnswersStay ==
  ASSUME DaemonInv, [Next]_vars, NEW r \in Requests, answer[r] \in Verdicts
  PROVE  answer'[r] \in Verdicts
<1>1. handler[r] = "done" /\ answer \in [Requests -> {"none", "refused", "no_verdict"} \cup Verdicts]
  BY DEF DaemonInv, ThreadInv, ThreadOk, ThreadTypes
<1>2. ASSUME NEW c \in Requests, Arrive(c) \/ HandlerStep(c)
      PROVE  answer'[r] = answer[r]
  <2>1. answer' = answer \/ (handler[c] # "done" /\ \E a : answer' = [answer EXCEPT ![c] = a])
    BY <1>2 DEF Arrive, Refuse, Accept, Receive, HandlerStep, RemoveStorage, DropContext,
         AfterClose, Reply, GiveUp
  <2> QED
    BY <1>1, <2>1
<1>3. ASSUME NEW c \in Requests, CheckoutStep(c) \/ LiveStep(c) PROVE answer' = answer
  BY <1>3, StepIsMove DEF PageMove, PageFrame, http
<1>4. ASSUME NEW c \in Requests,
             \/ RunClose(c) \/ Skip(c) \/ Start(c) \/ OpenContext(c) \/ ContextFails(c)
             \/ RequestAbort(c)
      PROVE  answer' = answer
  BY <1>4 DEF RunClose, Skip, Start, OpenContext, ContextFails, RequestAbort, http
<1>5. CASE UNCHANGED vars \/ Wedge
  BY <1>5 DEF vars, Wedge, http
<1>6. CASE Restart
  BY <1>1, <1>6 DEF Restart
<1> QED
  BY <1>2, <1>3, <1>4, <1>5, <1>6
     DEF Next, Internal, WorkerStep, SelfWatchdog, Death

-----------------------------------------------------------------------------
(* The inductive invariant: a purchase that is completed was answered with a  *)
(* verdict, and the agent's thread holds the lock of its worker process for  *)
(* as long as it may touch the cart.                                       *)

InAgent == {"agent", "filled", "cleaned"}

RowOk(r) ==
  /\ thread[r] = "engine" => kind[r] \in Readiness
  /\ thread[r] \in InAgent \cup {"released"} => kind[r] \in Agents
  /\ thread[r] \notin {"idle", "done"} => home[r] \in Workers
  /\ thread[r] \in InAgent => runner[home[r]] = r
  /\ kind[r] \in Purchases /\ row[r] = "completed" => answer[r] \in Verdicts

TestInv ==
  /\ DOMAIN thread = Requests /\ thread = [r \in Requests |-> thread[r]]
  /\ DOMAIN row = Requests /\ row = [r \in Requests |-> row[r]]
  /\ home \in [Requests -> Workers \cup {Nobody}]
  /\ runner \in [Workers -> Requests \cup {Nobody}]
  /\ \A r \in Requests : RowOk(r)

LEMMA TestInvInit == TestInit => TestInv
  BY DEF TestInit, TestInv, RowOk, InAgent

LEMMA TestInvStep == DaemonInv /\ TestInv /\ [TestNext]_allVars => TestInv'
<1> SUFFICES ASSUME DaemonInv, TestInv, [TestNext]_allVars PROVE TestInv'
  OBVIOUS
<1>0. /\ kind' = kind /\ kind \in [Requests -> Kinds]
      /\ \A c \in Requests : answer[c] \in Verdicts => answer'[c] \in Verdicts
  BY TestStepIsDaemonStep, AbortMove, AnswersStay DEF DaemonInv, ThreadTypes
<1>1. Purchases \cap (Readiness \cup Agents) = {}
  BY TestKindsAssumption, KindsAssumption
(* A step of one thread, with what it owes the invariant.                  *)
<1>2. ASSUME NEW r \in Requests, NEW s, thread' = [thread EXCEPT ![r] = s],
             NEW w, row' = row \/ row' = [row EXCEPT ![r] = w],
             NEW h \in Workers \cup {Nobody},
             home' = [home EXCEPT ![r] = h],
             runner' \in [Workers -> Requests \cup {Nobody}],
             \A v \in Workers : runner[v] \notin {r, Nobody} => runner'[v] = runner[v],
             s = "engine" => kind[r] \in Readiness,
             s \in InAgent \cup {"released"} => kind[r] \in Agents,
             s \notin {"idle", "done"} => h \in Workers,
             s \in InAgent => runner'[h] = r,
             w = "completed" => kind[r] \notin Purchases \/ answer[r] \in Verdicts
      PROVE  TestInv'
  <2>1. /\ thread'[r] = s /\ \A c \in Requests \ {r} : thread'[c] = thread[c]
        /\ DOMAIN thread' = Requests /\ thread' = [c \in Requests |-> thread'[c]]
        /\ DOMAIN row' = Requests /\ row' = [c \in Requests |-> row'[c]]
        /\ \A c \in Requests \ {r} : row'[c] = row[c]
        /\ row'[r] = row[r] \/ row'[r] = w
        /\ home' \in [Requests -> Workers \cup {Nobody}]
        /\ home'[r] = h /\ \A c \in Requests \ {r} : home'[c] = home[c]
    BY <1>2 DEF TestInv
  <2>2. \A c \in Requests : RowOk(c)
    BY DEF TestInv
  <2>3. RowOk(r)'
    BY <1>0, <1>2, <2>1, <2>2 DEF RowOk
  <2>4. ASSUME NEW c \in Requests \ {r} PROVE RowOk(c)'
    <3>1. thread[c] \in InAgent => runner'[home[c]] = c
      BY <1>2, <2>2, NobodyAssumption DEF RowOk, InAgent
    <3> QED
      BY <1>0, <2>1, <2>2, <3>1 DEF RowOk
  <2> QED
    BY <1>2, <2>1, <2>3, <2>4 DEF TestInv
<1>3. /\ \A r \in Requests : thread[r] \notin {"idle", "done"} => home[r] \in Workers
      /\ \A r \in Requests : home[r] \in Workers \cup {Nobody}
      /\ home = [r \in Requests |-> home[r]]
      /\ \A r \in Requests : home = [home EXCEPT ![r] = home[r]]
      /\ runner \in [Workers -> Requests \cup {Nobody}]
  BY DEF TestInv, RowOk
<1>4. ASSUME UNCHANGED tests PROVE TestInv'
  BY <1>0, <1>4 DEF tests, TestInv, RowOk
(* Outside the agent the lock stays as it is.                              *)
<1>5. ASSUME NEW r \in Requests,
             \/ Admit(r) \/ InsertRow(r) \/ StartPurchase(r) \/ PostTestCheckout(r)
             \/ CallFails(r) \/ StartReadiness(r)
      PROVE  TestInv'
  <2>1. /\ runner' = runner
        /\ \E s \in {"admitted", "started", "posting", "waiting", "done", "engine"},
              w \in {"queued", "running", "failed"}, h \in Workers \cup {Nobody} :
             /\ thread' = [thread EXCEPT ![r] = s]
             /\ row' = row \/ row' = [row EXCEPT ![r] = w]
             /\ home' = [home EXCEPT ![r] = h]
             /\ s = "engine" => kind[r] \in Readiness
             /\ s # "done" => h \in Workers
    BY <1>3, <1>5 DEF Admit, InsertRow, StartPurchase, PostTestCheckout, CallFails,
         StartReadiness, GoTo, End, UpdateRow
  <2>2. \A s \in {"admitted", "started", "posting", "waiting", "done", "engine"} :
          s \notin InAgent \cup {"released"}
    BY DEF InAgent
  <2> QED
    BY <1>2, <1>3, <2>1, <2>2
<1>6. ASSUME NEW r \in Requests, DeleteTestRun(r) PROVE TestInv'
  <2>1. UNCHANGED <<thread, home, runner, cart>> /\ row' = [row EXCEPT ![r] = "deleted"]
    BY <1>6 DEF DeleteTestRun
  <2>2. \A c \in Requests : row'[c] \in {row[c], "deleted"}
    BY <2>1 DEF TestInv
  <2> QED
    BY <1>0, <2>1, <2>2 DEF TestInv, RowOk
<1>7. ASSUME NEW r \in Requests, NEW w \in {"completed", "failed"},
             row' = row \/ row' = [row EXCEPT ![r] = w], End(r), UNCHANGED <<runner, cart>>,
             w = "completed" => kind[r] \notin Purchases \/ answer[r] \in Verdicts
      PROVE  TestInv'
  <2>1. "done" \notin InAgent \cup {"released", "engine"}
    BY DEF InAgent
  <2> QED
    BY <1>2, <1>3, <1>7, <2>1 DEF End
<1>8. ASSUME NEW r \in Requests, TakeAnswer(r) PROVE TestInv'
  <2>1. PICK w \in {"completed", "failed"} :
          /\ w \in FinalStatus(answer[r])
          /\ row' = row \/ row' = [row EXCEPT ![r] = w]
    BY <1>8 DEF TakeAnswer, UpdateRow, FinalStatus
  <2>2. w = "completed" => answer[r] \in Verdicts
    BY <2>1 DEF FinalStatus, Verdicts
  <2> QED
    BY <1>7, <1>8, <2>1, <2>2 DEF TakeAnswer
<1>9. ASSUME NEW r \in Requests, EndReadiness(r) \/ RecordOutcome(r) PROVE TestInv'
  <2>1. kind[r] \notin Purchases
    BY <1>1, <1>9 DEF EndReadiness, RecordOutcome, TestInv, RowOk, InAgent
  <2>2. \E w \in {"completed", "failed"} :
          /\ End(r) /\ UNCHANGED <<runner, cart>>
          /\ row' = row \/ row' = [row EXCEPT ![r] = w]
    BY <1>9 DEF EndReadiness, RecordOutcome, UpdateRow
  <2> QED
    BY <1>7, <2>1, <2>2
<1>10. ASSUME NEW r \in Requests, LockRunner(r) PROVE TestInv'
  <2>1. PICK s \in InAgent, w \in {"running"} :
          /\ kind[r] \in Agents /\ home[r] \in Workers /\ runner[home[r]] = Nobody
          /\ runner' = [runner EXCEPT ![home[r]] = r]
          /\ thread' = [thread EXCEPT ![r] = s] /\ home' = home
          /\ row' = row \/ row' = [row EXCEPT ![r] = w]
    BY <1>3, <1>10 DEF LockRunner, GoTo, UpdateRow, InAgent
  <2>2. /\ runner' \in [Workers -> Requests \cup {Nobody}] /\ runner'[home[r]] = r
        /\ \A v \in Workers : runner[v] \notin {r, Nobody} => runner'[v] = runner[v]
    BY <1>3, <2>1
  <2>3. PICK h \in Workers \cup {Nobody} :
          home' = [home EXCEPT ![r] = h] /\ h \in Workers /\ runner'[h] = r
    BY <1>3, <2>1, <2>2
  <2>4. /\ s = "engine" => kind[r] \in Readiness
        /\ s \in InAgent \cup {"released"} => kind[r] \in Agents
        /\ w = "completed" => kind[r] \notin Purchases \/ answer[r] \in Verdicts
    BY <2>1 DEF InAgent
  <2> QED
    BY <1>2, <2>1, <2>2, <2>3, <2>4
<1>11. ASSUME NEW r \in Requests, AgentFails(r) \/ FillCart(r) \/ RunAgent(r) \/ CleanUp(r)
      PROVE  TestInv'
  <2>1. kind[r] \in Agents /\ home[r] \in Workers /\ runner[home[r]] = r
    BY <1>11 DEF AgentFails, FillCart, RunAgent, CleanUp, TestInv, RowOk, InAgent
  <2>2. PICK s \in {"released", "filled", "cleaned"} :
          /\ thread' = [thread EXCEPT ![r] = s] /\ UNCHANGED <<row, home>>
          /\ \/ runner' = runner
             \/ s = "released" /\ runner' = [runner EXCEPT ![home[r]] = Nobody]
    BY <1>11, <2>1 DEF AgentFails, FillCart, RunAgent, CleanUp, GoTo, Unlock
  <2>3. /\ runner' \in [Workers -> Requests \cup {Nobody}]
        /\ s \in InAgent => runner'[home[r]] = r
        /\ \A v \in Workers : runner[v] # r => runner'[v] = runner[v]
    BY <1>3, <2>1, <2>2 DEF InAgent
  <2>4. home' = [home EXCEPT ![r] = home[r]] /\ row' = row
    BY <1>3, <2>2
  <2>5. "failed" # "completed" /\ s # "engine" /\ home[r] \in Workers \cup {Nobody}
    BY <2>1, <2>2
  <2> QED
    BY <1>2, <2>1, <2>2, <2>3, <2>4, <2>5
<1>12. ASSUME NEW w \in Workers, WorkerExit(w) PROVE TestInv'
  <2>1. ASSUME NEW r \in Requests PROVE RowOk(r)'
    <3>1. CASE home[r] = w
      BY <1>0, <1>12, <3>1 DEF WorkerExit, TestInv, RowOk, InAgent
    <3>2. CASE home[r] # w
      <4>1. /\ thread'[r] = thread[r] /\ home'[r] = home[r] /\ row' = row
            /\ \A v \in Workers \ {w} : runner'[v] = runner[v]
        BY <1>3, <1>12, <3>2 DEF WorkerExit
      <4> QED
        BY <1>0, <3>2, <4>1 DEF TestInv, RowOk, InAgent
    <3> QED
      BY <3>1, <3>2
  <2> QED
    BY <1>3, <1>12, <2>1 DEF WorkerExit, TestInv
<1> QED
  BY <1>4, <1>5, <1>6, <1>8, <1>9, <1>10, <1>11, <1>12 DEF TestNext, TestStep, allVars

LEMMA TestInvHolds == TestSpec => [](DaemonInv /\ TestInv)
<1>1. TestInit => DaemonInv /\ TestInv
  BY DaemonInit, TestInvInit DEF TestInit
<1>2. DaemonInv /\ TestInv /\ [TestNext]_allVars => (DaemonInv /\ TestInv)'
  BY TestStepIsDaemonStep, DaemonStep, TestInvStep
<1> QED
  BY <1>1, <1>2, PTL DEF TestSpec

(* A completed test purchase has no checkout left in the daemon.            *)
THEOREM CompletedTestsAreOver == TestSpec => []CompletedMeansOver
<1>1. DaemonInv /\ TestInv => CompletedMeansOver
  BY DEF DaemonInv, ThreadInv, ThreadOk, TestInv, RowOk, CompletedMeansOver
<1> QED
  BY <1>1, TestInvHolds, PTL

(* Only an agent's own thread, or one of another worker process, touches the *)
(* master cart while the agent's truck is in it.                           *)
THEOREM MasterCartIsOwn == TestSpec => CartIsOwn
<1>1. TestInv /\ [TestNext]_allVars =>
        \A r \in Requests : thread[r] \in {"filled", "cleaned"} /\ cart' # cart =>
          \E c \in Requests : /\ thread'[c] # thread[c]
                              /\ c = r \/ home[c] # home[r]
  <2> SUFFICES ASSUME TestInv, TestNext, cart' # cart,
                      NEW r \in Requests, thread[r] \in {"filled", "cleaned"}
               PROVE  \E c \in Requests : /\ thread'[c] # thread[c]
                                          /\ c = r \/ home[c] # home[r]
    <3>1. UNCHANGED allVars => cart' = cart
      BY DEF allVars, tests
    <3> QED
      BY <3>1
  <2>1. PICK c \in Requests : FillCart(c) \/ CleanUp(c)
    BY DEF TestNext, TestStep, tests, WorkerExit, Admit, InsertRow, DeleteTestRun,
         StartPurchase, PostTestCheckout, TakeAnswer, CallFails, StartReadiness,
         EndReadiness, LockRunner, AgentFails, RunAgent, RecordOutcome
  <2>2. thread[c] \in InAgent /\ thread'[c] # thread[c]
    BY <2>1 DEF FillCart, CleanUp, GoTo, TestInv, InAgent
  <2>3. runner[home[c]] = c /\ runner[home[r]] = r
    BY <2>2 DEF TestInv, RowOk, InAgent
  <2> QED
    BY <2>2, <2>3
<1> QED
  BY <1>1, TestInvHolds, PTL DEF TestSpec, CartIsOwn

-----------------------------------------------------------------------------
RunTypes ==
  /\ row \in [Requests -> {"none", "queued", "running", "completed", "failed",
                           "deleted"}]
  /\ thread \in [Requests -> {"idle", "admitted", "started", "posting", "waiting",
                              "engine", "agent", "filled", "cleaned", "released", "done"}]
  /\ cart \in Requests \cup {Nobody}

LEMMA RunTypesStep == RunTypes /\ [TestNext]_allVars => RunTypes'
<1> SUFFICES ASSUME RunTypes, [TestNext]_allVars PROVE RunTypes'
  OBVIOUS
<1> USE DEF RunTypes
<1>1. ASSUME NEW r \in Requests, TestStep(r) PROVE RunTypes'
  <2>1. CASE \/ Admit(r) \/ InsertRow(r) \/ DeleteTestRun(r) \/ StartPurchase(r)
             \/ PostTestCheckout(r) \/ CallFails(r) \/ StartReadiness(r) \/ EndReadiness(r)
             \/ RecordOutcome(r)
    BY <2>1 DEF Admit, InsertRow, DeleteTestRun, StartPurchase, PostTestCheckout, CallFails,
       StartReadiness, EndReadiness, RecordOutcome, GoTo, End, UpdateRow
  <2>2. CASE TakeAnswer(r)
    BY <2>2 DEF TakeAnswer, FinalStatus, End, UpdateRow
  <2>3. CASE LockRunner(r) \/ AgentFails(r) \/ FillCart(r) \/ RunAgent(r) \/ CleanUp(r)
    BY <2>3 DEF LockRunner, AgentFails, FillCart, RunAgent, CleanUp, GoTo, UpdateRow
  <2> QED
    BY <1>1, <2>1, <2>2, <2>3 DEF TestStep
<1>2. CASE UNCHANGED tests
  BY <1>2 DEF tests
<1>3. ASSUME NEW w \in Workers, WorkerExit(w) PROVE RunTypes'
  BY <1>3 DEF WorkerExit
<1> QED
  BY <1>1, <1>2, <1>3 DEF TestNext, allVars

(* The rows, threads and locks of the test runs keep their types, and so    *)
(* does the daemon under them.                                             *)
THEOREM TestTypeCorrect == TestSpec => []TestTypeOK
<1>1. TestInit => RunTypes
  BY DEF TestInit, RunTypes
<1>2. TypeOK /\ TestInv /\ RunTypes => TestTypeOK
  BY DEF RunTypes, TestInv, TestTypeOK
<1> QED
  BY <1>1, <1>2, RunTypesStep, TestInvHolds, TestRunsUseTheDaemon, TypeCorrect, PTL
     DEF TestSpec
=============================================================================
