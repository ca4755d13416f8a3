------------------------- MODULE CheckoutDaemonProofs -------------------------
(***************************************************************************)
(* CheckoutDaemon for any requests, keys and kinds, under every fault: a    *)
(* verdict is final, the context a checkout works in stays open, a forced  *)
(* login is fresh and a total its own unless the request had company.  An  *)
(* abort prevents the order where the abort flag can be read.              *)
(***************************************************************************)
EXTENDS CheckoutDaemon, TLAPS

-----------------------------------------------------------------------------
(* The inductive invariant: the queue holds the queued tasks, once each; a  *)
(* thread submits its task once, and the worker runs one at a time.        *)

ThreadTypes ==
  /\ kind \in [Requests -> Kinds]
  /\ handler \in [Requests -> {"idle", "wipe", "drop", "close", "main", "done"}]
  /\ answer \in [Requests -> {"none", "refused", "no_verdict"} \cup Verdicts]
  /\ task \in [Tasks -> {"none", "queued", "running", "ended"}]
  /\ stage \in [Requests -> Stages]
  /\ box \in [Requests -> {"none", "no_verdict"} \cup Verdicts]

QueueInv ==
  /\ queue \in Seq(Tasks)
  /\ \A i \in 1 .. Len(queue) : task[queue[i]] = "queued"
  /\ \A i, j \in 1 .. Len(queue) : queue[i] = queue[j] => i = j

ThreadOk(r) ==
  /\ handler[r] \in {"idle", "wipe", "drop", "close"} => task[<<r, "main">>] = "none"
  /\ handler[r] \in {"idle", "wipe", "drop"} => task[<<r, "close">>] = "none"
  /\ task[<<r, "close">>] # "running"
  /\ stage[r] # "none" <=> task[<<r, "main">>] = "running"
  /\ answer[r] \in Verdicts =>
       handler[r] = "done" /\ task[<<r, "main">>] \in {"none", "ended"}

ThreadInv == \A r \in Requests : ThreadOk(r)

OneRuns ==
  \A r, c \in Requests :
    task[<<r, "main">>] = "running" /\ task[<<c, "main">>] = "running" => r = c

DaemonInv == ThreadTypes /\ QueueInv /\ ThreadInv /\ OneRuns

LEMMA DaemonInit == Init => DaemonInv
  BY DEF Init, DaemonInv, ThreadTypes, QueueInv, ThreadInv, ThreadOk, OneRuns, Tasks, Stages,
         Verdicts

(* What a page stage or a Live View call amounts to.                       *)
Results == Verdicts \cup {"no_verdict"}

PageMove(r) ==
  /\ stage[r] \notin {"none", "open"}
  /\ \/ \E s \in Stages \ {"none", "open", "live"} : Goto(r, s)
     \/ \E v \in Results : Finish(r, v)
  /\ PageFrame

LEMMA StepIsMove ==
  ASSUME NEW r \in Requests, CheckoutStep(r) \/ LiveStep(r), DaemonInv
  PROVE  PageMove(r)
<1> USE DEF PageMove, At, OrFailed, Results, Verdicts
<1>1. ASSUME NEW s \in DOMAIN NextStage, PageStage(r, s) PROVE PageMove(r)
  <2>1. NextStage[s] \in Stages \ {"none", "open", "live"} /\ s \notin {"none", "open"}
    BY <1>1 DEF NextStage, Stages
  <2> QED
    BY <1>1, <2>1 DEF PageStage
<1>2. CASE Checkpoint(r)
  <2>1. AfterCheckpoint[stage[r]] \in Stages \ {"none", "open", "live"}
        /\ stage[r] \notin {"none", "open"}
    BY <1>2 DEF Checkpoint, AfterCheckpoint, Stages
  <2> QED
    BY <1>2, <2>1 DEF Checkpoint
<1>3. CASE Login(r)            BY <1>3 DEF Login, Stages
<1>4. CASE Navigate(r)         BY <1>4 DEF Navigate, Stages
<1>5. CASE PassLoginWall(r)    BY <1>5 DEF PassLoginWall, Stages
<1>6. CASE Review(r)           BY <1>6 DEF Review, Stages
<1>7. CASE ClickPlaceOrder(r)  BY <1>7 DEF ClickPlaceOrder, Stages
<1>8. CASE ReadPage(r)         BY <1>8 DEF ReadPage
<1>9. CASE LiveStep(r)
  BY <1>9 DEF LiveStep, LiveScreenshot, LiveNavigate, LivePrepareCheckout, LiveFetchPrice,
              LivePlaceOrder, Live
<1>10. CASE EnsureOnProductDetail(r) \/ AddToCart(r) \/ AwaitAddResult(r)
              \/ MiniCartCheckout(r) \/ FillQuestions(r) \/ AnswerDropdowns(r)
              \/ PickBillingAddress(r) \/ FillCard(r)
  <2>1. {"detail", "add", "resolve", "mini_cart", "questions", "dropdowns", "billing",
         "card"} \subseteq DOMAIN NextStage
    BY DEF NextStage
  <2> QED
    BY <1>1, <1>10, <2>1
       DEF EnsureOnProductDetail, AddToCart, AwaitAddResult, MiniCartCheckout,
           FillQuestions, AnswerDropdowns, PickBillingAddress, FillCard
<1> QED
  BY <1>2, <1>3, <1>4, <1>5, <1>6, <1>7, <1>8, <1>9, <1>10 DEF CheckoutStep
-----------------------------------------------------------------------------
(* What the steps do to the queue.                                          *)

LEMMA SubmitKeepsQueue ==
  ASSUME NEW t \in Tasks, ThreadTypes, QueueInv, task[t] = "none", Submit(t)
  PROVE  /\ QueueInv'
         /\ task' = [task EXCEPT ![t] = "queued"]
         /\ stage' = stage
<1>1. \A i \in 1 .. Len(queue) : queue[i] \in Tasks /\ queue[i] # t
  BY DEF QueueInv
<1>2. queue' \in Seq(Tasks) /\ Len(queue') = Len(queue) + 1
      /\ queue'[Len(queue) + 1] = t
      /\ \A i \in 1 .. Len(queue) : queue'[i] = queue[i]
  BY DEF Submit, QueueInv
<1>3. task'[t] = "queued" /\ \A u \in Tasks \ {t} : task'[u] = task[u]
  BY DEF Submit, ThreadTypes
<1>4. \A i \in 1 .. Len(queue') : i \in 1 .. Len(queue) \/ i = Len(queue) + 1
  BY <1>2 DEF QueueInv
<1>5. \A i \in 1 .. Len(queue') : task'[queue'[i]] = "queued"
  BY <1>1, <1>2, <1>3, <1>4 DEF QueueInv
<1>6. \A i, j \in 1 .. Len(queue') : queue'[i] = queue'[j] => i = j
  BY <1>1, <1>2, <1>4 DEF QueueInv
<1> QED
  BY <1>2, <1>5, <1>6 DEF QueueInv, Submit

LEMMA TakeKeepsQueue ==
  ASSUME NEW t \in Tasks, NEW x, ThreadTypes, QueueInv, Take(t),
         task' = [task EXCEPT ![t] = x]
  PROVE  /\ QueueInv'
         /\ task[t] = "queued"
<1>1. Len(queue) \in Nat \ {0} /\ queue[1] = t /\ 1 \in 1 .. Len(queue)
  BY DEF Take, QueueInv
<1>2. queue' \in Seq(Tasks) /\ Len(queue') = Len(queue) - 1
      /\ \A i \in 1 .. Len(queue') : queue'[i] = queue[i + 1]
                                    /\ i + 1 \in 1 .. Len(queue) /\ i + 1 # 1
  BY <1>1 DEF Take, QueueInv
<1>3. \A i \in 1 .. Len(queue') : queue'[i] # t /\ queue'[i] \in Tasks
  BY <1>1, <1>2 DEF QueueInv
<1>4. \A u \in Tasks \ {t} : task'[u] = task[u]
  BY DEF ThreadTypes
<1>5. \A i \in 1 .. Len(queue') : task'[queue'[i]] = "queued"
  BY <1>2, <1>3, <1>4 DEF QueueInv
<1>6. \A i, j \in 1 .. Len(queue') : queue'[i] = queue'[j] => i + 1 = j + 1
  BY <1>2 DEF QueueInv
<1>7. \A i, j \in 1 .. Len(queue') : i + 1 = j + 1 => i = j
  OBVIOUS
<1> QED
  BY <1>1, <1>2, <1>5, <1>6, <1>7 DEF QueueInv

LEMMA RunningKeepsQueue ==
  ASSUME NEW t \in Tasks, NEW x, ThreadTypes, QueueInv, task[t] # "queued",
         task' = [task EXCEPT ![t] = x], queue' = queue
  PROVE  QueueInv'
<1>1. \A i \in 1 .. Len(queue) : queue[i] \in Tasks /\ queue[i] # t
  BY DEF QueueInv
<1>2. \A u \in Tasks \ {t} : task'[u] = task[u]
  BY DEF ThreadTypes
<1> QED
  BY <1>1, <1>2 DEF QueueInv

(* A step that only concerns request r has to be looked at for r only.      *)
Local(r) ==
  \A c \in Requests \ {r} :
    /\ handler'[c] = handler[c] /\ answer'[c] = answer[c] /\ stage'[c] = stage[c]
    /\ task'[<<c, "main">>] = task[<<c, "main">>]
    /\ task'[<<c, "close">>] = task[<<c, "close">>]

NobodyRuns == \A c \in Requests : task[<<c, "main">>] # "running"

LEMMA LocalStep ==
  ASSUME NEW r \in Requests, DaemonInv, ThreadTypes', QueueInv', Local(r), ThreadOk(r)',
         \/ task'[<<r, "main">>] # "running"
         \/ task[<<r, "main">>] = "running" \/ NobodyRuns
  PROVE  DaemonInv'
<1>1. ASSUME NEW c \in Requests \ {r} PROVE ThreadOk(c)'
  <2>1. ThreadOk(c)
    BY DEF DaemonInv, ThreadInv
  <2>2. /\ handler'[c] = handler[c] /\ answer'[c] = answer[c] /\ stage'[c] = stage[c]
        /\ task'[<<c, "main">>] = task[<<c, "main">>]
        /\ task'[<<c, "close">>] = task[<<c, "close">>]
    BY DEF Local
  <2> QED
    BY <2>1, <2>2 DEF ThreadOk
<1>2. ThreadInv'
  BY <1>1 DEF ThreadInv
<1>3. OneRuns'
  BY DEF DaemonInv, OneRuns, Local, NobodyRuns
<1> QED
  BY <1>2, <1>3 DEF DaemonInv

(* A step of r's own thread, with or without a task submitted.             *)
LEMMA ThreadStep ==
  ASSUME NEW r \in Requests, NEW h \in {"wipe", "drop", "close", "main", "done"},
         DaemonInv, UNCHANGED <<kind, box>>, handler' = [handler EXCEPT ![r] = h],
         \/ answer' = answer \/ answer' = [answer EXCEPT ![r] = "refused"],
         \/ /\ handler[r] \in {"idle", "wipe"} /\ h \in {"wipe", "drop", "done"}
            /\ UNCHANGED <<queue, task, stage>>
         \/ /\ handler[r] = "drop" /\ h = "close" /\ Submit(<<r, "close">>)
         \/ /\ handler[r] \in {"idle", "drop", "close"} /\ h = "main"
            /\ Submit(<<r, "main">>)
  PROVE  DaemonInv'
<1> USE DEF DaemonInv, ThreadInv, Tasks
<1>1. ThreadOk(r) /\ handler'[r] = h /\ task[<<r, "main">>] = "none"
  BY DEF ThreadTypes, ThreadOk
<1>2. \A c \in Requests \ {r} : handler'[c] = handler[c] /\ answer'[c] = answer[c]
  BY DEF ThreadTypes
<1>3. answer[r] \notin Verdicts /\ answer'[r] \notin Verdicts
  BY <1>1 DEF ThreadTypes, ThreadOk, Verdicts
<1>4. CASE UNCHANGED <<queue, task, stage>> /\ handler[r] \in {"idle", "wipe"}
  <2>1. ThreadTypes' /\ QueueInv'
    BY <1>4 DEF ThreadTypes, QueueInv
  <2>2. Local(r) /\ ThreadOk(r)'
    BY <1>1, <1>2, <1>3, <1>4 DEF Local, ThreadOk
  <2> QED
    BY <1>1, <1>4, <2>1, <2>2, LocalStep
<1>5. ASSUME NEW w \in {"main", "close"}, Submit(<<r, w>>), task[<<r, w>>] = "none",
             w = "close" => h = "close", w = "main" => h = "main"
      PROVE  DaemonInv'
  <2>1. <<r, w>> \in Tasks
    OBVIOUS
  <2>2. QueueInv' /\ task' = [task EXCEPT ![<<r, w>>] = "queued"] /\ stage' = stage
    BY <1>5, <2>1, SubmitKeepsQueue
  <2>3. ThreadTypes'
    BY <2>2 DEF ThreadTypes
  <2>4. Local(r)
    BY <1>2, <2>2 DEF Local, ThreadTypes
  <2>5. ThreadOk(r)' /\ task'[<<r, "main">>] # "running"
    BY <1>1, <1>3, <1>5, <2>2 DEF ThreadOk, ThreadTypes
  <2> QED
    BY <2>2, <2>3, <2>4, <2>5, LocalStep
<1> QED
  BY <1>1, <1>4, <1>5 DEF ThreadOk

(* The task of r ends: on a verdict, or refused by the purchase lock.       *)
LEMMA FinishStep ==
  ASSUME NEW r \in Requests, NEW v \in Results, DaemonInv, Finish(r, v), QueueInv',
         UNCHANGED <<kind, handler, answer>>,
         task[<<r, "main">>] \in {"queued", "running"}
  PROVE  DaemonInv'
<1> DEFINE after == IF handler[r] = "main" THEN "ended" ELSE "none"
<1> USE DEF DaemonInv, ThreadInv, Tasks
<1>1. task' = [task EXCEPT ![<<r, "main">>] = after] /\ after \in {"none", "ended"}
  BY DEF Finish
<1>2. ThreadTypes'
  BY <1>1 DEF ThreadTypes, Finish, Results, Stages
<1>3. task'[<<r, "main">>] = after /\ task'[<<r, "close">>] = task[<<r, "close">>]
      /\ stage'[r] = "none"
  BY <1>1 DEF ThreadTypes, Finish
<1>4. Local(r)
  BY <1>1 DEF Local, ThreadTypes, Finish
<1>5. ThreadOk(r)'
  BY <1>1, <1>3 DEF ThreadOk
<1> HIDE DEF DaemonInv, ThreadInv, after
<1> QED
  BY <1>1, <1>2, <1>3, <1>4, <1>5, LocalStep

LEMMA DaemonStep == DaemonInv /\ [Next]_vars => DaemonInv'
<1> SUFFICES ASSUME DaemonInv, [Next]_vars PROVE DaemonInv'
  OBVIOUS
<1> USE DEF DaemonInv, ThreadInv, Tasks
<1>1. ASSUME UNCHANGED <<kind, handler, answer, queue, task, box, stage>>
      PROVE  DaemonInv'
  BY <1>1 DEF ThreadTypes, QueueInv, ThreadOk, OneRuns
<1>2. ASSUME NEW r \in Requests, Arrive(r) PROVE DaemonInv'
  <2>1. CASE Refuse(r)
    BY <2>1, ThreadStep DEF Refuse, Receive, NoSubmit, worker
  <2>2. CASE Accept(r)
    BY <2>2, ThreadStep DEF Accept, Receive, NoSubmit, worker, Submit
  <2> QED
    BY <1>2, <2>1, <2>2 DEF Arrive
<1>3. ASSUME NEW r \in Requests, RemoveStorage(r) \/ DropContext(r) \/ AfterClose(r)
      PROVE  DaemonInv'
  BY <1>3, ThreadStep DEF RemoveStorage, DropContext, AfterClose, worker, Submit
<1>4. ASSUME NEW r \in Requests, Reply(r) \/ GiveUp(r) PROVE DaemonInv'
  <2>1. /\ handler[r] = "main" /\ handler' = [handler EXCEPT ![r] = "done"]
        /\ \/ answer' = [answer EXCEPT ![r] = box[r]] /\ task[<<r, "main">>] = "ended"
           \/ answer' = [answer EXCEPT ![r] = "no_verdict"]
        /\ UNCHANGED <<kind, queue, task, stage, box>>
    BY <1>4 DEF Reply, GiveUp, worker
  <2>2. ThreadTypes' /\ QueueInv'
    BY <2>1 DEF ThreadTypes, QueueInv
  <2>3. Local(r)
    BY <2>1 DEF Local, ThreadTypes
  <2>4. /\ handler'[r] = "done" /\ ThreadOk(r)
        /\ answer'[r] \in Verdicts => task[<<r, "main">>] = "ended"
    BY <2>1 DEF ThreadTypes, Verdicts
  <2>5. ThreadOk(r)' /\ (task'[<<r, "main">>] = task[<<r, "main">>])
    BY <2>1, <2>4 DEF ThreadOk
  <2> HIDE DEF DaemonInv, ThreadInv, Tasks
  <2> QED
    BY <2>2, <2>3, <2>5, LocalStep
<1>5. ASSUME NEW r \in Requests, RunClose(r) PROVE DaemonInv'
  <2>1. /\ QueueInv' /\ task[<<r, "close">>] = "queued"
        /\ task' = [task EXCEPT ![<<r, "close">>] = "none"]
        /\ UNCHANGED <<kind, handler, answer, stage, box>>
    BY <1>5, TakeKeepsQueue DEF RunClose, http
  <2>2. ThreadTypes' /\ Local(r)
    BY <2>1 DEF ThreadTypes, Local
  <2>3. ThreadOk(r)' /\ task'[<<r, "main">>] = task[<<r, "main">>]
    BY <2>1 DEF ThreadTypes, ThreadOk
  <2> HIDE DEF DaemonInv, ThreadInv, Tasks
  <2> QED
    BY <2>1, <2>2, <2>3, LocalStep
<1>6. ASSUME NEW r \in Requests, Skip(r) PROVE DaemonInv'
  <2> DEFINE after == IF handler[r] = "main" THEN "ended" ELSE "none"
  <2>1. task' = [task EXCEPT ![<<r, "main">>] = after] /\ Take(<<r, "main">>)
    BY <1>6 DEF Skip, Finish
  <2>2. QueueInv' /\ task[<<r, "main">>] = "queued"
    BY <2>1, TakeKeepsQueue
  <2>3. Finish(r, "SKIPPED") /\ "SKIPPED" \in Results
        /\ UNCHANGED <<kind, handler, answer>>
    BY <1>6 DEF Skip, http, Results, Verdicts
  <2> HIDE DEF DaemonInv, ThreadInv, Tasks
  <2> QED
    BY <2>2, <2>3, FinishStep
<1>7. ASSUME NEW r \in Requests, Start(r) PROVE DaemonInv'
  <2>1. /\ QueueInv' /\ task[<<r, "main">>] = "queued" /\ NobodyRuns
        /\ task' = [task EXCEPT ![<<r, "main">>] = "running"]
        /\ stage' = [stage EXCEPT ![r] = "open"]
        /\ UNCHANGED <<kind, handler, answer, box>>
    BY <1>7, TakeKeepsQueue DEF Start, http, Take, WorkerFree, NobodyRuns
  <2>2. ThreadTypes' /\ Local(r)
    BY <2>1 DEF ThreadTypes, Local, Stages
  <2>3. ThreadOk(r)'
    BY <2>1 DEF ThreadTypes, ThreadOk
  <2> HIDE DEF DaemonInv, ThreadInv, Tasks
  <2> QED
    BY <2>1, <2>2, <2>3, LocalStep
<1>8. ASSUME NEW r \in Requests, NEW s \in Stages \ {"none"}, stage[r] # "none",
             stage' = [stage EXCEPT ![r] = s],
             UNCHANGED <<kind, handler, answer, queue, task, box>>
      PROVE  DaemonInv'
  <2>1. ThreadTypes' /\ QueueInv' /\ Local(r)
    BY <1>8 DEF ThreadTypes, QueueInv, Local
  <2>2. ThreadOk(r)' /\ task'[<<r, "main">>] = task[<<r, "main">>]
    BY <1>8 DEF ThreadTypes, ThreadOk
  <2>3. task[<<r, "main">>] = "running"
    BY <1>8 DEF ThreadOk
  <2> HIDE DEF DaemonInv, ThreadInv, Tasks
  <2> QED
    BY <2>1, <2>2, <2>3, LocalStep
<1>9. ASSUME NEW r \in Requests, OpenContext(r) PROVE DaemonInv'
  BY <1>8, <1>9 DEF OpenContext, At, http, Stages
<1>15. ASSUME NEW r \in Requests, NEW v \in Results, Finish(r, v), stage[r] # "none",
              UNCHANGED <<kind, handler, answer, queue>>
       PROVE  DaemonInv'
  <2> DEFINE after == IF handler[r] = "main" THEN "ended" ELSE "none"
  <2>1. task[<<r, "main">>] = "running"
    BY <1>15 DEF ThreadOk
  <2>2. task' = [task EXCEPT ![<<r, "main">>] = after]
    BY <1>15 DEF Finish
  <2>3. <<r, "main">> \in Tasks /\ task[<<r, "main">>] # "queued" /\ queue' = queue
    BY <1>15, <2>1
  <2>4. QueueInv'
    <3> HIDE DEF DaemonInv, ThreadInv, Tasks, after
    <3> QED
      BY <2>2, <2>3, RunningKeepsQueue DEF DaemonInv
  <2> HIDE DEF DaemonInv, ThreadInv, Tasks, after
  <2> QED
    BY <1>15, <2>1, <2>4, FinishStep
<1>14. ASSUME NEW r \in Requests, ContextFails(r) PROVE DaemonInv'
  BY <1>14, <1>15 DEF ContextFails, At, http, Results, Verdicts
<1>10. ASSUME NEW r \in Requests, CheckoutStep(r) \/ LiveStep(r) PROVE DaemonInv'
  <2>1. PageMove(r)
    BY <1>10, StepIsMove
  <2>2. task[<<r, "main">>] = "running" /\ stage[r] # "none"
    BY <2>1 DEF PageMove, ThreadOk
  <2>3. ASSUME NEW s \in Stages \ {"none", "open", "live"}, Goto(r, s) PROVE DaemonInv'
    BY <1>8, <2>1, <2>2, <2>3 DEF Goto, PageMove, PageFrame, http
  <2>4. ASSUME NEW v \in Results, Finish(r, v) PROVE DaemonInv'
    BY <1>15, <2>1, <2>2, <2>4 DEF PageMove, PageFrame, http
  <2> QED
    BY <2>1, <2>3, <2>4 DEF PageMove
<1>11. CASE Restart
  <2>1. ThreadTypes' /\ QueueInv' /\ OneRuns'
    BY <1>11 DEF Restart, ThreadTypes, QueueInv, OneRuns, Stages
  <2>2. ASSUME NEW r \in Requests PROVE ThreadOk(r)'
    BY <1>11 DEF Restart, ThreadTypes, ThreadOk, Verdicts
  <2> QED
    BY <2>1, <2>2
<1>12. ASSUME NEW r \in Requests, RequestAbort(r) PROVE DaemonInv'
  BY <1>1, <1>12 DEF RequestAbort, http, worker
<1>13. CASE UNCHANGED vars \/ Wedge
  BY <1>1, <1>13 DEF vars, Wedge, http
<1> HIDE DEF DaemonInv, ThreadInv, Tasks
<1> QED
  BY <1>2, <1>3, <1>4, <1>5, <1>6, <1>7, <1>9, <1>10, <1>11, <1>12, <1>13, <1>14
     DEF Next, Internal, HandlerStep, WorkerStep, SelfWatchdog, Death
-----------------------------------------------------------------------------
(* What the orders and the aborts rest on.                                  *)

GateInv ==
  /\ orders \in [Requests -> Nat]
  /\ abort \in [Requests -> BOOLEAN]
  /\ \A r \in Requests : abort[r] => kind[r] \in Tracked
  /\ \A r \in Requests : stage[r] = "live" => ~IsCheckout(r)

(* Only the click and the operator's Place Order order anything.            *)
LEMMA OrdersChange ==
  ASSUME [Next]_vars
  PROVE  \/ orders' = orders
         \/ \E r \in Requests : /\ stage[r] \in {"click", "live"}
                                /\ orders' = [orders EXCEPT ![r] = @ + 1]
<1>1. ASSUME NEW r \in Requests, CheckoutStep(r)
      PROVE  \/ orders' = orders
             \/ stage[r] = "click" /\ orders' = [orders EXCEPT ![r] = @ + 1]
  BY <1>1 DEF CheckoutStep, Login, Checkpoint, Navigate, PassLoginWall, PageStage, results,
       EnsureOnProductDetail, AddToCart, AwaitAddResult, MiniCartCheckout, FillQuestions,
       AnswerDropdowns, PickBillingAddress, FillCard, Review, ClickPlaceOrder, ReadPage, At
<1>2. ASSUME NEW r \in Requests, LiveStep(r)
      PROVE  \/ orders' = orders
             \/ stage[r] = "live" /\ orders' = [orders EXCEPT ![r] = @ + 1]
  BY <1>2 DEF LiveStep, LiveScreenshot, LiveNavigate, LivePrepareCheckout, LiveFetchPrice,
       LivePlaceOrder, Live, At
<1>3. ASSUME NEW r \in Requests,
             \/ Arrive(r) \/ HandlerStep(r) \/ RequestAbort(r) \/ RunClose(r) \/ Skip(r)
             \/ Start(r) \/ OpenContext(r) \/ ContextFails(r)
      PROVE  orders' = orders
  BY <1>3 DEF Arrive, Refuse, Accept, Receive, HandlerStep, RemoveStorage, DropContext,
       AfterClose, Reply, GiveUp, RequestAbort, RunClose, Skip, Start, OpenContext,
       ContextFails, results
<1>4. CASE UNCHANGED vars \/ Wedge \/ SelfWatchdog \/ Death
  BY <1>4 DEF vars, Wedge, SelfWatchdog, Death, Restart, results
<1> QED
  BY <1>1, <1>2, <1>3, <1>4 DEF Next, Internal, WorkerStep

(* The stage of a request, in a step of whatever kind: it changes only from  *)
(* where a task may be, "live" only follows "open" when it is no checkout,   *)
(* and "click" only a checkpoint.                                          *)
StageMove(r) ==
  \/ stage' = stage
  \/ stage'[r] \notin {"live", "click"} \/ stage'[r] = stage[r]
  \/ stage'[r] = "live" /\ ~IsCheckout(r)
  \/ stage'[r] = "click" /\ (~abort[r] \/ "abort_read" \in Faults)

LEMMA StagesMove ==
  ASSUME DaemonInv, [Next]_vars, NEW c \in Requests
  PROVE  StageMove(c)
<1> USE DEF StageMove
<1>0. stage \in [Requests -> Stages]
  BY DEF DaemonInv, ThreadTypes
<1>1. ASSUME NEW r \in Requests, NEW s, stage' = [stage EXCEPT ![r] = s],
             s \notin {"live", "click"}
      PROVE  StageMove(c)
  BY <1>0, <1>1
<1>2. ASSUME NEW r \in Requests, NEW v, Finish(r, v) PROVE StageMove(c)
  BY <1>1, <1>2 DEF Finish
<1>3. ASSUME NEW r \in Requests, Checkpoint(r) PROVE StageMove(c)
  <2>1. CASE Finish(r, "ABORTED")
    BY <1>2, <2>1
  <2>2. CASE /\ stage' = [stage EXCEPT ![r] = AfterCheckpoint[stage[r]]]
             /\ ~abort[r] \/ "abort_read" \in Faults
    <3>1. AfterCheckpoint[stage[r]] # "live"
      BY <1>3 DEF Checkpoint, AfterCheckpoint
    <3> QED
      BY <1>0, <2>2, <3>1
  <2> QED
    BY <1>3, <2>1, <2>2 DEF Checkpoint, AbortSeen, Goto
<1>4. ASSUME NEW r \in Requests, NEW s \in DOMAIN NextStage, PageStage(r, s)
      PROVE  StageMove(c)
  <2>1. NextStage[s] \notin {"live", "click"}
    BY <1>4 DEF NextStage
  <2> QED
    BY <1>1, <1>2, <1>4, <2>1 DEF PageStage, OrFailed, Goto
<1>5. ASSUME NEW r \in Requests, CheckoutStep(r) PROVE StageMove(c)
  <2>1. {"detail", "add", "resolve", "mini_cart", "questions", "dropdowns", "billing",
         "card"} \subseteq DOMAIN NextStage
    BY DEF NextStage
  <2>2. CASE \/ EnsureOnProductDetail(r) \/ AddToCart(r) \/ AwaitAddResult(r)
             \/ MiniCartCheckout(r) \/ FillQuestions(r) \/ AnswerDropdowns(r)
             \/ PickBillingAddress(r) \/ FillCard(r)
    BY <1>4, <2>1, <2>2 DEF EnsureOnProductDetail, AddToCart, AwaitAddResult,
       MiniCartCheckout, FillQuestions, AnswerDropdowns, PickBillingAddress, FillCard
  <2>3. CASE Login(r) \/ Navigate(r) \/ PassLoginWall(r) \/ Review(r) \/ ClickPlaceOrder(r)
             \/ ReadPage(r)
    BY <1>1, <1>2, <2>3 DEF Login, Navigate, PassLoginWall, Review, ClickPlaceOrder,
       ReadPage, OrFailed, Goto
  <2> QED
    BY <1>3, <1>5, <2>2, <2>3 DEF CheckoutStep
<1>6. ASSUME NEW r \in Requests, LiveStep(r) PROVE StageMove(c)
  BY <1>2, <1>6 DEF LiveStep, LiveScreenshot, LiveNavigate, LivePrepareCheckout,
     LiveFetchPrice, LivePlaceOrder
<1>7. ASSUME NEW r \in Requests, OpenContext(r) PROVE StageMove(c)
  BY <1>0, <1>7 DEF OpenContext
<1>8. ASSUME NEW r \in Requests, Skip(r) \/ Start(r) \/ ContextFails(r) PROVE StageMove(c)
  BY <1>1, <1>2, <1>8 DEF Skip, Start, ContextFails
<1>9. ASSUME NEW r \in Requests, Arrive(r) \/ HandlerStep(r) \/ RequestAbort(r) \/ RunClose(r)
      PROVE  StageMove(c)
  BY <1>9 DEF Arrive, Refuse, Accept, HandlerStep, RemoveStorage, DropContext, AfterClose,
     Reply, GiveUp, RequestAbort, RunClose, NoSubmit, Submit
<1>10. CASE UNCHANGED vars \/ Wedge
  BY <1>10 DEF vars, Wedge
<1>11. CASE Restart
  BY <1>11 DEF Restart
<1> QED
  BY <1>5, <1>6, <1>7, <1>8, <1>9, <1>10, <1>11
     DEF Next, Internal, WorkerStep, SelfWatchdog, Death

LEMMA AbortMove ==
  ASSUME [Next]_vars
  PROVE  /\ kind' = kind
         /\ \/ abort' = abort
            \/ \E r \in Requests : kind[r] \in Tracked /\ abort' = [abort EXCEPT ![r] = TRUE]
<1>1. ASSUME NEW r \in Requests, CheckoutStep(r) \/ LiveStep(r)
      PROVE  kind' = kind /\ abort' = abort
  BY <1>1 DEF CheckoutStep, Login, Checkpoint, Navigate, PassLoginWall, PageStage, PageFrame,
       EnsureOnProductDetail, AddToCart, AwaitAddResult, MiniCartCheckout, FillQuestions,
       AnswerDropdowns, PickBillingAddress, FillCard, Review, ClickPlaceOrder, ReadPage,
       LiveStep, LiveScreenshot, LiveNavigate, LivePrepareCheckout, LiveFetchPrice,
       LivePlaceOrder, Live
<1>2. ASSUME NEW r \in Requests,
             \/ Arrive(r) \/ HandlerStep(r) \/ RunClose(r) \/ Skip(r) \/ Start(r)
             \/ OpenContext(r) \/ ContextFails(r)
      PROVE  kind' = kind /\ abort' = abort
  BY <1>2 DEF Arrive, Refuse, Accept, Receive, HandlerStep, RemoveStorage, DropContext,
       AfterClose, Reply, GiveUp, RunClose, Skip, Start, OpenContext, ContextFails
<1>3. ASSUME NEW r \in Requests, RequestAbort(r)
      PROVE  kind' = kind /\ kind[r] \in Tracked /\ abort' = [abort EXCEPT ![r] = TRUE]
  BY <1>3 DEF RequestAbort
<1>4. CASE UNCHANGED vars \/ Wedge \/ SelfWatchdog \/ Death
  BY <1>4 DEF vars, Wedge, SelfWatchdog, Death, Restart
<1> QED
  BY <1>1, <1>2, <1>3, <1>4 DEF Next, Internal, WorkerStep

LEMMA GateStep == DaemonInv /\ GateInv /\ [Next]_vars => GateInv'
<1> SUFFICES ASSUME DaemonInv, GateInv, [Next]_vars PROVE GateInv'
  OBVIOUS
<1>1. kind' = kind
  BY AbortMove
<1>2. orders' \in [Requests -> Nat]
  BY OrdersChange DEF GateInv
<1>3. abort' \in [Requests -> BOOLEAN] /\ \A r \in Requests : abort'[r] => kind'[r] \in Tracked
  BY AbortMove DEF GateInv
<1>4. ASSUME NEW r \in Requests, stage'[r] = "live" PROVE ~IsCheckout(r)'
  BY <1>1, <1>4, StagesMove DEF StageMove, GateInv, IsCheckout
<1> QED
  BY <1>2, <1>3, <1>4 DEF GateInv

LEMMA GateInit == Init => GateInv
  BY DEF Init, GateInv

-----------------------------------------------------------------------------
(* A caller that was told how its checkout ended may go on to the next card: *)
(* that checkout orders nothing any more, whatever the faults.             *)
THEOREM VerdictIsFinal == Spec => NoOrderAfterVerdict
<1> DEFINE Kept == \A r \in Requests : answer[r] \in Verdicts => orders'[r] = orders[r]
<1>1. DaemonInv /\ GateInv /\ [Next]_vars => Kept
  <2> SUFFICES ASSUME DaemonInv, GateInv, [Next]_vars, NEW r \in Requests,
                      answer[r] \in Verdicts
               PROVE  orders'[r] = orders[r]
    OBVIOUS
  <2>1. stage[r] = "none"
    BY DEF DaemonInv, ThreadInv, ThreadOk, ThreadTypes
  <2> QED
    BY <2>1, OrdersChange DEF GateInv
<1>2. DaemonInv /\ GateInv /\ [Next]_vars => [Kept]_vars
  BY <1>1
<1>3. Spec => [](DaemonInv /\ GateInv)
  BY DaemonInit, GateInit, DaemonStep, GateStep, PTL DEF Spec
<1> QED
  BY <1>2, <1>3, PTL DEF Spec, NoOrderAfterVerdict

(* Where the daemon can read the flag (no "abort_read" fault), an abort      *)
(* requested before the last checkpoint is passed prevents the order.      *)
THEOREM AbortWins ==
  ASSUME "abort_read" \notin Faults PROVE Spec => AbortPreventsOrder
<1> DEFINE Stopped == \A r \in Requests :
                        abort[r] /\ stage[r] # "click" =>
                          stage'[r] # "click" /\ orders'[r] = orders[r]
<1>1. DaemonInv /\ GateInv /\ [Next]_vars => Stopped
  <2> SUFFICES ASSUME DaemonInv, GateInv, [Next]_vars, NEW r \in Requests,
                      abort[r], stage[r] # "click"
               PROVE  stage'[r] # "click" /\ orders'[r] = orders[r]
    OBVIOUS
  <2>1. stage'[r] # "click"
    BY StagesMove DEF StageMove
  <2>2. stage[r] # "live"
    BY KindsAssumption DEF GateInv, IsCheckout
  <2> QED
    BY <2>1, <2>2, OrdersChange DEF GateInv
<1>2. DaemonInv /\ GateInv /\ [Next]_vars => [Stopped]_vars
  BY <1>1
<1>3. Spec => [](DaemonInv /\ GateInv)
  BY DaemonInit, GateInit, DaemonStep, GateStep, PTL DEF Spec
<1> QED
  BY <1>2, <1>3, PTL DEF Spec, AbortPreventsOrder

-----------------------------------------------------------------------------
(* The contexts.  A context bears the name of the request whose task made    *)
(* it, so it is named after a request that is past making one; it is cached *)
(* under that request's key, or popped and waiting for its close, not both. *)

Maker(c) == /\ handler[c] \in {"main", "done"}
            /\ task[<<c, "main">>] # "queued"
            /\ stage[c] # "open"

ContextTypes ==
  /\ contexts \in [Keys -> Contexts]
  /\ dropped \in [Requests -> Contexts]
  /\ used \in [Requests -> Contexts]
  /\ open \subseteq Requests

CacheInv ==
  /\ \A k \in Keys : contexts[k] # Nobody =>
       contexts[k] \in open /\ Key(contexts[k]) = k
  /\ \A c \in open : Maker(c)
  /\ \A r \in Requests : dropped[r] # Nobody =>
       Maker(dropped[r]) /\ \A k \in Keys : contexts[k] # dropped[r]
  /\ ContextOutlivesTask

ContextInv == ContextTypes /\ CacheInv

(* Steps that leave the contexts alone, and the running task in its context. *)
LEMMA ContextsAlone ==
  ASSUME ContextInv, UNCHANGED <<kind, contexts, dropped, open>>,
         used' \in [Requests -> Contexts],
         \A c \in Requests : Maker(c) => Maker(c)',
         \A c \in Requests : \/ stage'[c] \in {"none", "open"}
                             \/ stage[c] \notin {"none", "open"} /\ used'[c] = used[c]
  PROVE  ContextInv'
<1>1. ContextTypes'
  BY DEF ContextInv, ContextTypes
<1>2. \A k \in Keys : contexts'[k] # Nobody =>
        contexts'[k] \in open' /\ Key(contexts[k])' = k
  BY DEF ContextInv, CacheInv, Key
<1>3. \A c \in open' : Maker(c)'
  BY DEF ContextInv, CacheInv, ContextTypes
<1>4. ASSUME NEW r \in Requests, dropped'[r] # Nobody
      PROVE  Maker(dropped[r])' /\ \A k \in Keys : contexts'[k] # dropped'[r]
  <2>1. dropped[r] \in Requests /\ dropped' = dropped /\ contexts' = contexts
    BY <1>4 DEF ContextInv, ContextTypes, Contexts
  <2>2. Maker(dropped[r])
    BY <1>4 DEF ContextInv, CacheInv
  <2>3. Maker(dropped[r])'
    BY <2>1, <2>2 DEF Maker
  <2> QED
    BY <1>4, <2>1, <2>3 DEF ContextInv, CacheInv
<1>5. ContextOutlivesTask'
  BY DEF ContextInv, CacheInv, ContextOutlivesTask
<1> QED
  BY <1>1, <1>2, <1>3, <1>4, <1>5 DEF ContextInv, CacheInv

(* A thread that is not past making its context may move in any way.        *)
LEMMA MakersStay ==
  ASSUME NEW r \in Requests, DaemonInv, handler[r] \in {"idle", "wipe", "drop", "close"},
         NEW h, handler' = [handler EXCEPT ![r] = h], stage' = stage,
         \/ task' = task
         \/ task' = [task EXCEPT ![<<r, "main">>] = "queued"]
         \/ task' = [task EXCEPT ![<<r, "close">>] = "queued"]
  PROVE  \A c \in Requests : Maker(c) => Maker(c)'
<1> SUFFICES ASSUME NEW c \in Requests, Maker(c) PROVE Maker(c)'
  OBVIOUS
<1>1. c # r
  BY DEF Maker
<1>2. handler'[c] = handler[c] /\ task'[<<c, "main">>] = task[<<c, "main">>]
  BY <1>1 DEF DaemonInv, ThreadTypes, Tasks
<1> QED
  BY <1>2 DEF Maker

LEMMA ContextStep == DaemonInv /\ ContextInv /\ [Next]_vars => ContextInv'
<1> SUFFICES ASSUME DaemonInv, ContextInv, [Next]_vars PROVE ContextInv'
  OBVIOUS
<1>0. /\ handler \in [Requests -> {"idle", "wipe", "drop", "close", "main", "done"}]
      /\ task \in [Tasks -> {"none", "queued", "running", "ended"}]
      /\ stage \in [Requests -> Stages] /\ kind \in [Requests -> Kinds]
      /\ used \in [Requests -> Contexts]
      /\ \A c \in Requests : <<c, "main">> \in Tasks /\ <<c, "close">> \in Tasks
  BY DEF DaemonInv, ThreadTypes, Tasks, ContextInv, ContextTypes
<1>1. ASSUME NEW r \in Requests, Arrive(r) \/ RemoveStorage(r) \/ AfterClose(r)
      PROVE  ContextInv'
  <2>1. /\ UNCHANGED <<kind, contexts, dropped, open, used, stage>>
        /\ handler[r] \in {"idle", "wipe", "drop", "close"}
        /\ \E h : handler' = [handler EXCEPT ![r] = h]
        /\ task' = task \/ task' = [task EXCEPT ![<<r, "main">>] = "queued"]
    BY <1>1 DEF Arrive, Refuse, Accept, Receive, RemoveStorage, AfterClose, NoSubmit, Submit,
                worker, browser
  <2>2. \A c \in Requests : Maker(c) => Maker(c)'
    BY <2>1, MakersStay
  <2> QED
    BY <1>0, <2>1, <2>2, ContextsAlone
<1>2. ASSUME NEW r \in Requests, Reply(r) \/ GiveUp(r) PROVE ContextInv'
  <2>1. /\ UNCHANGED <<kind, contexts, dropped, open, used, stage, task>>
        /\ handler' = [handler EXCEPT ![r] = "done"]
    BY <1>2 DEF Reply, GiveUp, worker, browser
  <2>2. \A c \in Requests : Maker(c) => Maker(c)'
    BY <1>0, <2>1 DEF Maker
  <2> QED
    BY <1>0, <2>1, <2>2, ContextsAlone
<1>3. CASE (\E r \in Requests : RequestAbort(r)) \/ Wedge \/ UNCHANGED vars
  <2>1. UNCHANGED <<kind, contexts, dropped, open, used, stage, task, handler>>
    BY <1>3 DEF RequestAbort, Wedge, vars, worker, browser, http
  <2>2. \A c \in Requests : Maker(c) => Maker(c)'
    BY <2>1 DEF Maker
  <2> QED
    BY <1>0, <2>1, <2>2, ContextsAlone
<1>4. ASSUME NEW r \in Requests, NEW x, NEW s, x # "queued", s # "open",
             task' = [task EXCEPT ![<<r, "main">>] = x],
             stage' = [stage EXCEPT ![r] = s],
             s # "none" => stage[r] \notin {"none", "open"},
             \/ used' = used
             \/ s = "none" /\ used' = [used EXCEPT ![r] = Nobody],
             UNCHANGED <<kind, contexts, dropped, open, handler>>
      PROVE  ContextInv'
  <2>1. \A c \in Requests : Maker(c) => Maker(c)'
    BY <1>0, <1>4 DEF Maker
  <2>2. used' \in [Requests -> Contexts]
    BY <1>0, <1>4 DEF Contexts
  <2>3. \A c \in Requests : \/ stage'[c] \in {"none", "open"}
                            \/ stage[c] \notin {"none", "open"} /\ used'[c] = used[c]
    BY <1>0, <1>4
  <2> QED
    BY <1>4, <2>1, <2>2, <2>3, ContextsAlone
<1>5. ASSUME NEW r \in Requests, NEW v, Finish(r, v),
             UNCHANGED <<kind, contexts, dropped, open, handler>>
      PROVE  ContextInv'
  BY <1>4, <1>5 DEF Finish
<1>6. ASSUME NEW r \in Requests, Skip(r) PROVE ContextInv'
  BY <1>5, <1>6 DEF Skip, http
<1>7. ASSUME NEW r \in Requests, Start(r) PROVE ContextInv'
  <2>1. /\ task' = [task EXCEPT ![<<r, "main">>] = "running"]
        /\ stage' = [stage EXCEPT ![r] = "open"]
        /\ UNCHANGED <<kind, contexts, dropped, open, handler, used>>
        /\ task[<<r, "main">>] = "queued"
    BY <1>7, TakeKeepsQueue, <1>0 DEF Start, http, browser, DaemonInv
  <2>2. \A c \in Requests : Maker(c) => Maker(c)'
    BY <1>0, <2>1 DEF Maker
  <2>3. \A c \in Requests : stage'[c] = "open" \/ stage'[c] = stage[c]
    BY <1>0, <2>1
  <2> QED
    BY <1>0, <2>1, <2>2, <2>3, ContextsAlone
<1>8. ASSUME NEW r \in Requests, CheckoutStep(r) \/ LiveStep(r) PROVE ContextInv'
  <2>1. PageMove(r)
    BY <1>8, StepIsMove
  <2>2. ASSUME NEW s \in Stages \ {"none", "open", "live"}, Goto(r, s) PROVE ContextInv'
    <3>1. /\ UNCHANGED <<kind, contexts, dropped, open, handler, task, used>>
          /\ stage' = [stage EXCEPT ![r] = s]
          /\ stage[r] \notin {"none", "open"}
      BY <2>1, <2>2 DEF PageMove, PageFrame, Goto, http
    <3>2. \A c \in Requests : Maker(c) => Maker(c)'
      BY <1>0, <2>2, <3>1 DEF Maker
    <3> QED
      BY <1>0, <3>1, <3>2, ContextsAlone
  <2>3. ASSUME NEW v \in Results, Finish(r, v) PROVE ContextInv'
    BY <1>5, <2>1, <2>3 DEF PageMove, PageFrame, http
  <2> QED
    BY <2>1, <2>2, <2>3 DEF PageMove
<1>9. ASSUME NEW r \in Requests, DropContext(r) PROVE ContextInv'
  <2>0. PICK k \in Keys, old \in Contexts : k = Key(r) /\ old = contexts[k]
    BY <1>0, KeyAssumption DEF Key, ContextInv, ContextTypes
  <2>1. /\ contexts' = [contexts EXCEPT ![k] = Nobody]
        /\ dropped' = [dropped EXCEPT ![r] = old]
        /\ UNCHANGED <<kind, open, used, stage>>
        /\ handler[r] = "drop" /\ \E h : handler' = [handler EXCEPT ![r] = h]
        /\ \/ task' = [task EXCEPT ![<<r, "main">>] = "queued"]
           \/ task' = [task EXCEPT ![<<r, "close">>] = "queued"]
    BY <1>9, <2>0 DEF DropContext, Submit
  <2>3. \A c \in Requests : Maker(c) => Maker(c)'
    BY <2>1, MakersStay
  <2>4. ContextTypes'
    BY <2>1 DEF ContextInv, ContextTypes, Contexts
  <2>5. ASSUME NEW l \in Keys, contexts'[l] # Nobody
        PROVE  /\ contexts'[l] = contexts[l] /\ l # k
               /\ contexts'[l] \in open' /\ Key(contexts[l])' = l
    BY <2>0, <2>1, <2>5 DEF ContextInv, ContextTypes, CacheInv, Key
  <2>6. \A c \in open' : Maker(c)'
    BY <2>1, <2>3 DEF ContextInv, ContextTypes, CacheInv
  <2>7. ASSUME NEW c \in Requests, dropped'[c] # Nobody
        PROVE  Maker(dropped[c])' /\ \A l \in Keys : contexts'[l] # dropped'[c]
    <3>1. CASE c = r
      <4>1. dropped'[c] = old /\ old # Nobody
        BY <2>1, <2>7, <3>1 DEF ContextInv, ContextTypes
      <4>2. old \in open /\ Key(old) = k
        BY <2>0, <4>1 DEF ContextInv, CacheInv
      <4>3. Maker(old)'
        BY <2>1, <2>6, <4>2
      <4>4. \A l \in Keys : contexts'[l] # old
        BY <2>5, <4>1, <4>2 DEF ContextInv, CacheInv
      <4> QED
        BY <4>1, <4>3, <4>4 DEF Maker
    <3>2. CASE c # r
      <4>1. dropped'[c] = dropped[c] /\ dropped[c] \in Requests
        BY <2>1, <2>7, <3>2 DEF ContextInv, ContextTypes, Contexts
      <4>2. Maker(dropped[c]) /\ \A l \in Keys : contexts[l] # dropped[c]
        BY <2>7, <4>1 DEF ContextInv, CacheInv
      <4>3. Maker(dropped[c])'
        BY <2>3, <4>1, <4>2 DEF Maker
      <4>4. \A l \in Keys : contexts'[l] # dropped'[c]
        BY <2>5, <2>7, <4>1, <4>2
      <4> QED
        BY <4>3, <4>4
    <3> QED
      BY <3>1, <3>2
  <2>8. ContextOutlivesTask'
    BY <2>1 DEF ContextInv, CacheInv, ContextOutlivesTask
  <2>9. \A l \in Keys : contexts'[l] # Nobody =>
          contexts'[l] \in open' /\ Key(contexts[l])' = l
    BY <2>5
  <2> QED
    BY <2>4, <2>6, <2>7, <2>8, <2>9 DEF ContextInv, CacheInv
<1>10. ASSUME NEW r \in Requests, RunClose(r) PROVE ContextInv'
  <2>1. /\ open' = open \ {dropped[r]} /\ dropped' = [dropped EXCEPT ![r] = Nobody]
        /\ UNCHANGED <<kind, handler, stage, contexts, used>>
        /\ task' = [task EXCEPT ![<<r, "close">>] = "none"]
        /\ \A c \in Requests : stage[c] = "none"
    BY <1>10, <1>0 DEF RunClose, Take, WorkerFree, http, DaemonInv, ThreadInv, ThreadOk
  <2>2. \A c \in Requests : Maker(c) => Maker(c)'
    BY <1>0, <2>1 DEF Maker
  <2>3. ContextTypes'
    BY <2>1 DEF ContextInv, ContextTypes, Contexts
  <2>4. ContextOutlivesTask'
    BY <2>1 DEF ContextOutlivesTask
  <2>5. \A l \in Keys : contexts'[l] # Nobody =>
          contexts'[l] \in open' /\ Key(contexts[l])' = l
    BY <2>1 DEF ContextInv, ContextTypes, CacheInv, Key
  <2>6. \A c \in open' : Maker(c)'
    BY <2>1, <2>2 DEF ContextInv, ContextTypes, CacheInv
  <2>7. ASSUME NEW c \in Requests, dropped'[c] # Nobody
        PROVE  Maker(dropped[c])' /\ \A l \in Keys : contexts'[l] # dropped'[c]
    <3>1. dropped'[c] = dropped[c] /\ dropped[c] \in Requests
      BY <2>1, <2>7 DEF ContextInv, ContextTypes, Contexts
    <3>2. Maker(dropped[c]) /\ \A l \in Keys : contexts[l] # dropped[c]
      BY <2>7, <3>1 DEF ContextInv, CacheInv
    <3> QED
      BY <2>1, <2>2, <3>1, <3>2 DEF Maker
  <2> QED
    BY <2>3, <2>4, <2>5, <2>6, <2>7 DEF ContextInv, CacheInv
<1>11. ASSUME NEW r \in Requests, OpenContext(r) PROVE ContextInv'
  <2> DEFINE k == Key(r)
             cached == contexts[Key(r)]
  <2>1. /\ stage[r] = "open" /\ UNCHANGED <<kind, handler, task, dropped>>
        /\ stage' = [stage EXCEPT ![r] = IF IsCheckout(r) THEN "login" ELSE "live"]
        /\ k \in Keys
        /\ \/ /\ cached # Nobody /\ used' = [used EXCEPT ![r] = cached]
              /\ UNCHANGED <<contexts, open>>
           \/ /\ contexts' = [contexts EXCEPT ![k] = r]
              /\ open' = (open \ {cached}) \cup {r}
              /\ used' = [used EXCEPT ![r] = r]
    BY <1>0, <1>11, KeyAssumption DEF OpenContext, At, http, Key
  <2>2. \A c \in Requests : Maker(c) => Maker(c)'
    BY <1>0, <2>1 DEF Maker
  <2>3. ~Maker(r) /\ Maker(r)'
    <3>1. task[<<r, "main">>] = "running" /\ handler[r] \in {"main", "done"}
      BY <1>0, <2>1 DEF DaemonInv, ThreadInv, ThreadOk
    <3> QED
      BY <1>0, <2>1, <3>1 DEF Maker
  <2>4. \A c \in Requests \ {r} : stage'[c] = "none"
    BY <1>0, <2>1 DEF DaemonInv, ThreadInv, ThreadOk, OneRuns
  <2>5. cached # Nobody => cached \in open /\ cached \in Requests
    BY <2>1 DEF ContextInv, ContextTypes, CacheInv
  <2>6. ContextTypes'
    BY <2>1, <2>5 DEF ContextInv, ContextTypes, Contexts
  <2>7. ContextOutlivesTask'
    BY <1>0, <2>1, <2>4, <2>5 DEF ContextOutlivesTask
  <2>8. \A c \in open' : Maker(c)'
    BY <2>1, <2>2, <2>3 DEF ContextInv, ContextTypes, CacheInv
  <2>9. ASSUME NEW l \in Keys, contexts'[l] # Nobody
        PROVE  contexts'[l] \in open' /\ Key(contexts[l])' = l
    <3>0. kind' = kind
      BY <2>1
    <3>1. CASE UNCHANGED <<contexts, open>>
      BY <2>9, <3>0, <3>1 DEF ContextInv, CacheInv, Key
    <3>2. CASE /\ contexts' = [contexts EXCEPT ![k] = r] /\ open' = (open \ {cached}) \cup {r}
               /\ l = k
      BY <3>0, <3>2 DEF ContextInv, ContextTypes, Key
    <3>3. CASE /\ contexts' = [contexts EXCEPT ![k] = r] /\ open' = (open \ {cached}) \cup {r}
               /\ l # k
      <4>1. contexts'[l] = contexts[l]
        BY <3>3 DEF ContextInv, ContextTypes
      <4>2. contexts[l] \in open /\ Key(contexts[l]) = l
        BY <2>9, <4>1 DEF ContextInv, CacheInv
      <4>3. contexts[l] # cached
        <5>1. cached # Nobody => Key(cached) = k
          BY <2>1 DEF ContextInv, CacheInv
        <5> HIDE DEF cached, k
        <5> QED
          BY <2>9, <3>3, <4>1, <4>2, <5>1
      <4> QED
        BY <3>0, <3>3, <4>1, <4>2, <4>3 DEF Key
    <3> QED
      BY <2>1, <3>1, <3>2, <3>3
  <2>10. ASSUME NEW c \in Requests, dropped'[c] # Nobody
         PROVE  Maker(dropped[c])' /\ \A l \in Keys : contexts'[l] # dropped'[c]
    <3>1. dropped'[c] = dropped[c] /\ dropped[c] \in Requests
      BY <2>1, <2>10 DEF ContextInv, ContextTypes, Contexts
    <3>2. Maker(dropped[c]) /\ \A l \in Keys : contexts[l] # dropped[c]
      BY <2>10, <3>1 DEF ContextInv, CacheInv
    <3>3. dropped[c] # r
      BY <2>3, <3>2
    <3>4. \A l \in Keys : contexts'[l] # dropped'[c]
      BY <2>1, <3>1, <3>2, <3>3 DEF ContextInv, ContextTypes
    <3> QED
      BY <2>1, <2>2, <3>1, <3>2, <3>4 DEF Maker
  <2> QED
    BY <2>6, <2>7, <2>8, <2>9, <2>10 DEF ContextInv, CacheInv
<1>13. ASSUME NEW r \in Requests, ContextFails(r) PROVE ContextInv'
  <2> DEFINE k == Key(r)
             cached == contexts[Key(r)]
  <2>1. /\ UNCHANGED <<kind, handler, dropped>> /\ k \in Keys
        /\ contexts' = [contexts EXCEPT ![k] = Nobody] /\ open' = open \ {cached}
        /\ stage[r] = "open" /\ stage' = [stage EXCEPT ![r] = "none"]
        /\ \E x \in {"none", "ended"} : task' = [task EXCEPT ![<<r, "main">>] = x]
        /\ used' = [used EXCEPT ![r] = Nobody]
    BY <1>0, <1>13, KeyAssumption DEF ContextFails, Finish, At, http, Key
  <2>2. \A c \in Requests : Maker(c) => Maker(c)'
    BY <1>0, <2>1 DEF Maker
  <2>3. ContextTypes'
    BY <2>1 DEF ContextInv, ContextTypes, Contexts
  <2>4. ContextOutlivesTask'
    <3>1. \A c \in Requests : stage'[c] = "none"
      BY <1>0, <2>1 DEF DaemonInv, ThreadInv, ThreadOk, OneRuns
    <3> QED
      BY <3>1 DEF ContextOutlivesTask
  <2>5. \A c \in open' : Maker(c)'
    BY <2>1, <2>2 DEF ContextInv, ContextTypes, CacheInv
  <2>6. ASSUME NEW l \in Keys, contexts'[l] # Nobody
        PROVE  contexts'[l] = contexts[l] /\ contexts'[l] \in open' /\ Key(contexts[l])' = l
    <3>1. l # k /\ contexts'[l] = contexts[l]
      BY <2>1, <2>6 DEF ContextInv, ContextTypes
    <3>2. contexts[l] \in open /\ Key(contexts[l]) = l
      BY <2>6, <3>1 DEF ContextInv, CacheInv
    <3>3. cached # Nobody => Key(cached) = k
      BY <2>1 DEF ContextInv, CacheInv
    <3>4. contexts[l] # cached
      <4> HIDE DEF cached, k
      <4> QED
        BY <2>6, <3>1, <3>2, <3>3
    <3> QED
      BY <2>1, <3>1, <3>2, <3>4 DEF Key
  <2>7. ASSUME NEW c \in Requests, dropped'[c] # Nobody
        PROVE  Maker(dropped[c])' /\ \A l \in Keys : contexts'[l] # dropped'[c]
    <3>1. dropped'[c] = dropped[c] /\ dropped[c] \in Requests
      BY <2>1, <2>7 DEF ContextInv, ContextTypes, Contexts
    <3>2. Maker(dropped[c]) /\ \A l \in Keys : contexts[l] # dropped[c]
      BY <2>7, <3>1 DEF ContextInv, CacheInv
    <3>3. \A l \in Keys : contexts'[l] # dropped'[c]
      BY <2>6, <2>7, <3>1, <3>2
    <3> QED
      BY <2>1, <2>2, <3>1, <3>2, <3>3 DEF Maker
  <2> QED
    BY <2>3, <2>4, <2>5, <2>6, <2>7 DEF ContextInv, CacheInv
<1>12. CASE Restart
  BY <1>12 DEF Restart, ContextInv, ContextTypes, CacheInv, Contexts, ContextOutlivesTask
<1> QED
  BY <1>1, <1>2, <1>3, <1>6, <1>7, <1>8, <1>9, <1>10, <1>11, <1>12, <1>13
     DEF Next, Internal, HandlerStep, WorkerStep, SelfWatchdog, Death

LEMMA ContextInit == Init => ContextInv
  BY DEF Init, ContextInv, ContextTypes, CacheInv, Contexts, ContextOutlivesTask

(* No request, forced or not, and no fault short of the end of the process    *)
(* closes the context a running task works in.                             *)
THEOREM ContextsOutliveTasks == Spec => []ContextOutlivesTask
<1>1. ContextInv => ContextOutlivesTask
  BY DEF ContextInv, CacheInv
<1> QED
  BY <1>1, DaemonInit, DaemonStep, ContextInit, ContextStep, PTL DEF Spec

-----------------------------------------------------------------------------
(* What the requests of one org_key share: the storage file, the cached      *)
(* context, the last total.  A request is disturbed only by another one of  *)
(* its key that is there at the same time, and then both know of it.        *)

CompanyInv ==
  \A r, c \in Requests :
    r # c /\ Key(r) = Key(c) /\ Present(r) /\ Present(c) => overlap[r]

Files == {"none", "saved", "kept"}

(* A forced login whose checkout has not opened its context yet.            *)
Early(r) == handler[r] = "close" \/ task[<<r, "main">>] = "queued" \/ stage[r] = "open"

FreshOk(r) ==
  /\ stage[r] \in {"none", "open"} => used[r] = Nobody
  /\ kind[r] \in Forced /\ ~overlap[r] =>
       /\ handler[r] = "drop" \/ Early(r) => saved[Key(r)] # "saved"
       /\ Early(r) => contexts[Key(r)] = Nobody

(* A checkout someone waits for that forgot the total it found.             *)
Counts(r) ==
  /\ handler[r] = "main" /\ IsCheckout(r)
  /\ \/ stage[r] \notin {"none", "open"}
     \/ task[<<r, "main">>] = "ended" /\ box[r] # "SKIPPED"

TotalOk(r) ==
  /\ Counts(r) /\ ~overlap[r] => totals[Key(r)] \in {Nobody, r}
  /\ total[r] # Nobody =>
       /\ handler[r] = "done" /\ Key(total[r]) = Key(r)
       /\ answer[r] # "SKIPPED" /\ ~overlap[r] => total[r] = r

ShareTypes ==
  /\ enabled \in BOOLEAN /\ stuck \in BOOLEAN
  /\ used \in [Requests -> Contexts]
  /\ contexts \in [Keys -> Contexts]
  /\ saved \in [Keys -> Files]
  /\ totals \in [Keys -> Contexts]
  /\ total \in [Requests -> Contexts]
  /\ overlap \in [Requests -> BOOLEAN]
  /\ \A k \in Keys : totals[k] # Nobody => Key(totals[k]) = k

ShareInv == ShareTypes /\ CompanyInv /\ \A r \in Requests : FreshOk(r) /\ TotalOk(r)

(* A step of request q, seen from the others: their own state stays, and    *)
(* what they share changes under q's key only.                             *)
Alone(q) ==
  /\ Local(q)
  /\ \A c \in Requests \ {q} : box'[c] = box[c] /\ used'[c] = used[c] /\ total'[c] = total[c]
  /\ used' \in [Requests -> Contexts] /\ total' \in [Requests -> Contexts]

ShareMove(q) ==
  /\ totals' = totals \/ \E x \in {q, Nobody} : totals' = [totals EXCEPT ![Key(q)] = x]
  /\ saved' = saved \/ \E x \in Files : saved' = [saved EXCEPT ![Key(q)] = x]
  /\ contexts' = contexts \/ \E x \in {q, Nobody} : contexts' = [contexts EXCEPT ![Key(q)] = x]

Acts(q) ==
  \/ Arrive(q) \/ HandlerStep(q) \/ Skip(q) \/ Start(q) \/ OpenContext(q) \/ ContextFails(q)
  \/ CheckoutStep(q) \/ LiveStep(q)

ActorStep(q) ==
  /\ Acts(q) /\ kind' = kind
  /\ Alone(q) /\ ShareMove(q)
  /\ \/ Arrive(q) /\ UNCHANGED <<totals, saved, contexts>>
     \/ Present(q) /\ overlap' = overlap

LEMMA PageEffect ==
  ASSUME NEW q \in Requests, CheckoutStep(q) \/ LiveStep(q)
  PROVE  /\ saved' = saved \/ saved' = [saved EXCEPT ![Key(q)] = "saved"]
         /\ totals' = totals \/ totals' = [totals EXCEPT ![Key(q)] = q]
<1>1. CASE CheckoutStep(q)
  BY <1>1 DEF CheckoutStep, Login, Checkpoint, Navigate, PassLoginWall, PageStage, results,
       EnsureOnProductDetail, AddToCart, AwaitAddResult, MiniCartCheckout, FillQuestions,
       AnswerDropdowns, PickBillingAddress, FillCard, Review, ClickPlaceOrder, ReadPage,
       KeepTotal
<1>2. CASE LiveStep(q)
  BY <1>2 DEF LiveStep, LiveScreenshot, LiveNavigate, LivePrepareCheckout, LiveFetchPrice,
       LivePlaceOrder, Live
<1> QED
  BY <1>1, <1>2

(* A late close of a dropped context, for one, concerns nobody.             *)
Idle ==
  /\ UNCHANGED <<kind, handler, answer, box, stage, used, contexts, saved, totals, total,
                 overlap>>
  /\ \A c \in Requests : task'[<<c, "main">>] = task[<<c, "main">>]

LEMMA EveryStepHasAnActor ==
  ASSUME DaemonInv, ShareTypes, [Next]_vars
  PROVE  Restart \/ Idle \/ \E q \in Requests : ActorStep(q)
<1>0. /\ handler \in [Requests -> {"idle", "wipe", "drop", "close", "main", "done"}]
      /\ answer \in [Requests -> {"none", "refused", "no_verdict"} \cup Verdicts]
      /\ box \in [Requests -> {"none", "no_verdict"} \cup Verdicts]
      /\ task \in [Tasks -> {"none", "queued", "running", "ended"}]
      /\ stage \in [Requests -> Stages] /\ kind \in [Requests -> Kinds]
      /\ used \in [Requests -> Contexts] /\ total \in [Requests -> Contexts]
      /\ totals \in [Keys -> Contexts]
      /\ \A c \in Requests : /\ <<c, "main">> \in Tasks /\ <<c, "close">> \in Tasks
                             /\ Key(c) \in Keys /\ c \in Contexts
      /\ Nobody \in Contexts
  BY KeyAssumption DEF DaemonInv, ThreadTypes, Tasks, ShareTypes, Contexts, Key
<1>1. \A q \in Requests : handler[q] \in {"wipe", "drop", "close", "main"} => Present(q)
  BY DEF Present
<1>2. \A q \in Requests : stage[q] # "none" => Present(q)
  BY DEF Present, DaemonInv, ThreadInv, ThreadOk
<1>3. \A q \in Requests : task[<<q, "main">>] = "queued" => Present(q)
  BY DEF Present
<1>4. ASSUME NEW q \in Requests, Arrive(q) PROVE ActorStep(q)
  <2>1. /\ UNCHANGED <<kind, box, stage, used, total, totals, saved, contexts>>
        /\ \E h : handler' = [handler EXCEPT ![q] = h]
        /\ answer' = answer \/ answer' = [answer EXCEPT ![q] = "refused"]
        /\ task' = task \/ task' = [task EXCEPT ![<<q, "main">>] = "queued"]
    BY <1>4 DEF Arrive, Refuse, Accept, Receive, NoSubmit, Submit, worker, browser, results
  <2>2. Alone(q)
    BY <1>0, <2>1 DEF Alone, Local
  <2> QED
    BY <1>4, <2>1, <2>2 DEF ActorStep, ShareMove, Acts
<1>5. ASSUME NEW q \in Requests, HandlerStep(q) PROVE ActorStep(q)
  <2>1. /\ UNCHANGED <<kind, box, stage, used, totals, overlap>>
        /\ handler[q] \in {"wipe", "drop", "close", "main"}
        /\ \E h : handler' = [handler EXCEPT ![q] = h]
        /\ answer' = answer \/ \E a : answer' = [answer EXCEPT ![q] = a]
        /\ \/ task' = task
           \/ \E w \in {"main", "close"} : task' = [task EXCEPT ![<<q, w>>] = "queued"]
        /\ total' = total \/ total' = [total EXCEPT ![q] = totals[Key(q)]]
        /\ saved' = saved \/ \E x \in Files : saved' = [saved EXCEPT ![Key(q)] = x]
        /\ contexts' = contexts \/ contexts' = [contexts EXCEPT ![Key(q)] = Nobody]
    BY <1>5 DEF HandlerStep, RemoveStorage, DropContext, AfterClose, Reply, GiveUp, Submit,
         worker, browser, results, Files
  <2>2. Alone(q)
    BY <1>0, <2>1 DEF Alone, Local
  <2> QED
    BY <1>1, <1>5, <2>1, <2>2 DEF ActorStep, ShareMove, Acts
<1>6. ASSUME NEW q \in Requests, RunClose(q) PROVE Idle
  BY <1>0, <1>6 DEF RunClose, http, results, Idle
<1>7. ASSUME NEW q \in Requests, Present(q), NEW x, NEW s, NEW u \in Contexts,
             task' = task \/ task' = [task EXCEPT ![<<q, "main">>] = x],
             stage' = [stage EXCEPT ![q] = s],
             used' = used \/ used' = [used EXCEPT ![q] = u],
             box' = box \/ \E v : box' = [box EXCEPT ![q] = v],
             UNCHANGED <<kind, handler, answer, total, overlap>>,
             Acts(q), ShareMove(q)
      PROVE  ActorStep(q)
  <2>1. Alone(q)
    BY <1>0, <1>7 DEF Alone, Local
  <2> QED
    BY <1>7, <2>1 DEF ActorStep
<1>8. ASSUME NEW q \in Requests, Skip(q) \/ Start(q) PROVE ActorStep(q)
  <2>1. Take(<<q, "main">>) /\ \E x : task' = [task EXCEPT ![<<q, "main">>] = x]
    BY <1>8 DEF Skip, Start, Finish
  <2>2. Present(q)
    BY <1>0, <1>3, <2>1, TakeKeepsQueue DEF DaemonInv
  <2>3. ShareMove(q) /\ UNCHANGED <<kind, handler, answer, total, overlap>>
    BY <1>8 DEF Skip, Start, ShareMove, http, browser, results
  <2> QED
    BY <1>0, <1>7, <1>8, <2>2, <2>3 DEF Skip, Start, Finish, browser, Acts
<1>9. ASSUME NEW q \in Requests, OpenContext(q) PROVE ActorStep(q)
  <2>1. ShareMove(q)
    BY <1>9 DEF OpenContext, ForgetTotal, ShareMove
  <2>2. /\ Present(q) /\ contexts[Key(q)] \in Contexts
        /\ used' = [used EXCEPT ![q] = contexts[Key(q)]] \/ used' = [used EXCEPT ![q] = q]
        /\ UNCHANGED <<kind, handler, answer, total, overlap, task, box>>
        /\ \E s : stage' = [stage EXCEPT ![q] = s]
    BY <1>0, <1>2, <1>9 DEF OpenContext, At, http, ShareTypes
  <2> QED
    BY <1>0, <1>7, <1>9, <2>1, <2>2 DEF Acts
<1>12. ASSUME NEW q \in Requests, ContextFails(q) PROVE ActorStep(q)
  <2>1. ShareMove(q)
    BY <1>12 DEF ContextFails, ForgetTotal, ShareMove
  <2>2. Present(q) /\ UNCHANGED <<kind, handler, answer, total, overlap>>
    BY <1>2, <1>12 DEF ContextFails, At, http
  <2> QED
    BY <1>0, <1>7, <1>12, <2>1, <2>2 DEF ContextFails, Finish, Acts
<1>10. ASSUME NEW q \in Requests, CheckoutStep(q) \/ LiveStep(q) PROVE ActorStep(q)
  <2>1. PageMove(q)
    BY <1>10, StepIsMove
  <2>2. ShareMove(q)
    BY <1>10, <2>1, PageEffect DEF ShareMove, PageMove, PageFrame, Files
  <2>3. Present(q) /\ UNCHANGED <<kind, handler, answer, total, overlap>>
    BY <1>2, <2>1 DEF PageMove, PageFrame, http
  <2> QED
    BY <1>0, <1>7, <1>10, <2>1, <2>2, <2>3 DEF PageMove, Goto, Finish, Acts
<1>11. CASE (\E q \in Requests : RequestAbort(q)) \/ Wedge \/ UNCHANGED vars
  BY <1>11 DEF RequestAbort, Wedge, vars, Idle, http, worker, browser, results
<1> QED
  BY <1>4, <1>5, <1>6, <1>8, <1>9, <1>10, <1>11, <1>12
     DEF Next, Internal, WorkerStep, SelfWatchdog, Death

(* The others' view: whoever shares a key with the actor had company.        *)
LEMMA Bystander ==
  ASSUME DaemonInv, ShareInv, NEW q \in Requests, NEW c \in Requests \ {q}, ActorStep(q)
  PROVE  FreshOk(c)' /\ TotalOk(c)'
<1>1. /\ handler'[c] = handler[c] /\ answer'[c] = answer[c] /\ stage'[c] = stage[c]
      /\ task'[<<c, "main">>] = task[<<c, "main">>] /\ box'[c] = box[c]
      /\ used'[c] = used[c] /\ total'[c] = total[c] /\ kind' = kind
  BY DEF ActorStep, Alone, Local
<1>2. overlap[c] => overlap'[c]
  BY DEF ActorStep, Arrive, Refuse, Accept, Receive
<1>3. FreshOk(c) /\ TotalOk(c) /\ ThreadOk(c) /\ Key(q) \in Keys /\ Key(c) \in Keys
  BY KeyAssumption DEF ShareInv, DaemonInv, ThreadInv, ThreadTypes, Key
<1>4. ASSUME Present(c), ~overlap'[c]
      PROVE  /\ totals'[Key(c)] = totals[Key(c)] /\ saved'[Key(c)] = saved[Key(c)]
             /\ contexts'[Key(c)] = contexts[Key(c)]
  <2>1. CASE UNCHANGED <<totals, saved, contexts>>
    BY <2>1
  <2>2. CASE Present(q)
    <3>1. Key(q) # Key(c)
      BY <1>2, <1>4, <2>2 DEF ShareInv, CompanyInv
    <3> QED
      BY <1>3, <3>1 DEF ActorStep, ShareMove, ShareInv, ShareTypes
  <2> QED
    BY <2>1, <2>2 DEF ActorStep
<1>5. Early(c) \/ handler[c] = "drop" \/ Counts(c) => Present(c)
  BY <1>3 DEF Early, Counts, Present, ThreadOk
<1>6. Key(c)' = Key(c) /\ (IsCheckout(c)' <=> IsCheckout(c)) /\ (Early(c)' <=> Early(c))
      /\ (Counts(c)' <=> Counts(c))
  BY <1>1 DEF Key, IsCheckout, Early, Counts
<1>7. FreshOk(c)'
  BY <1>1, <1>2, <1>3, <1>4, <1>5, <1>6 DEF FreshOk
<1>8. TotalOk(c)'
  <2>1. Key(total[c])' = Key(total[c])
    BY <1>1 DEF Key
  <2>2. Counts(c)' /\ ~overlap'[c] => totals'[Key(c)'] \in {Nobody, c}
    BY <1>2, <1>3, <1>4, <1>5, <1>6 DEF TotalOk
  <2>3. total'[c] # Nobody =>
          /\ handler'[c] = "done" /\ Key(total[c])' = Key(c)'
          /\ answer'[c] # "SKIPPED" /\ ~overlap'[c] => total'[c] = c
    BY <1>1, <1>2, <1>3, <1>6, <2>1 DEF TotalOk
  <2> QED
    BY <2>2, <2>3 DEF TotalOk
<1> QED
  BY <1>7, <1>8

(* Nobody enters without being counted as company.                          *)
LEMMA CompanyStep ==
  ASSUME DaemonInv, ShareInv, [Next]_vars PROVE CompanyInv'
<1>0. \A q \in Requests : handler[q] = "idle" => ~Present(q)
  BY DEF Present, DaemonInv, ThreadInv, ThreadOk
<1>1. CASE Restart
  <2>1. \A q \in Requests : ~Present(q)'
    BY <1>1 DEF Restart, Present, Tasks
  <2> QED
    BY <2>1 DEF CompanyInv
<1>2. CASE Idle
  BY <1>2 DEF Idle, ShareInv, CompanyInv, Present, Key
<1>3. ASSUME NEW q \in Requests, ActorStep(q) PROVE CompanyInv'
  <2>1. /\ kind' = kind
        /\ \A c \in Requests \ {q} : Present(c)' <=> Present(c)
    BY <1>3 DEF ActorStep, Alone, Local, Present
  <2>2. CASE Present(q) /\ overlap' = overlap
    BY <2>1, <2>2 DEF ShareInv, CompanyInv, Key
  <2>3. CASE Arrive(q)
    <3>1. /\ \A c \in Requests : overlap[c] \/ c \in Company(q) => overlap'[c]
          /\ Company(q) # {} => overlap'[q]
      BY <2>3 DEF Arrive, Refuse, Accept, Receive
    <3> SUFFICES ASSUME NEW r \in Requests, NEW c \in Requests, r # c, Key(r) = Key(c),
                        Present(r)', Present(c)'
                 PROVE  overlap'[r]
      BY <2>1 DEF CompanyInv, Key
    <3>2. CASE r # q /\ c # q
      BY <2>1, <3>1, <3>2 DEF ShareInv, CompanyInv
    <3>3. CASE r = q
      BY <2>1, <3>1, <3>3 DEF Company
    <3>4. CASE c = q
      BY <2>1, <3>1, <3>4 DEF Company
    <3> QED
      BY <3>2, <3>3, <3>4
  <2> QED
    BY <1>3, <2>2, <2>3 DEF ActorStep
<1> QED
  BY <1>1, <1>2, <1>3, EveryStepHasAnActor DEF ShareInv

LEMMA ShareTypesStep ==
  ASSUME DaemonInv, ShareInv, [Next]_vars PROVE ShareTypes'
<1>1. enabled' = enabled /\ stuck' \in {stuck, TRUE, FALSE}
  <2>1. ASSUME NEW q \in Requests, CheckoutStep(q) \/ LiveStep(q)
        PROVE  enabled' = enabled /\ stuck' = stuck
    BY <2>1, StepIsMove DEF PageMove, PageFrame
  <2>2. ASSUME NEW q \in Requests,
               \/ Arrive(q) \/ HandlerStep(q) \/ RequestAbort(q) \/ RunClose(q) \/ Skip(q)
               \/ Start(q) \/ OpenContext(q) \/ ContextFails(q)
        PROVE  enabled' = enabled /\ stuck' = stuck
    BY <2>2 DEF Arrive, Refuse, Accept, Receive, HandlerStep, RemoveStorage, DropContext,
       AfterClose, Reply, GiveUp, RequestAbort, RunClose, Skip, Start, OpenContext, ContextFails,
       NoSubmit, Submit, worker
  <2>3. CASE UNCHANGED vars \/ Wedge \/ SelfWatchdog \/ Death
    BY <2>3 DEF vars, Wedge, SelfWatchdog, Death, Restart
  <2> QED
    BY <2>1, <2>2, <2>3 DEF Next, Internal, WorkerStep
<1>2. CASE Restart
  BY <1>1, <1>2 DEF Restart, ShareInv, ShareTypes, Contexts
<1>3. CASE Idle
  BY <1>1, <1>3 DEF Idle, ShareInv, ShareTypes, Key
<1>4. ASSUME NEW q \in Requests, ActorStep(q) PROVE ShareTypes'
  <2>1. overlap' \in [Requests -> BOOLEAN]
    BY <1>4 DEF ActorStep, ShareInv, ShareTypes, Arrive, Refuse, Accept, Receive
  <2>2. used' \in [Requests -> Contexts] /\ total' \in [Requests -> Contexts]
        /\ contexts' \in [Keys -> Contexts] /\ saved' \in [Keys -> Files]
        /\ totals' \in [Keys -> Contexts]
    BY <1>4 DEF ActorStep, Alone, ShareMove, ShareInv, ShareTypes, Contexts
  <2>3. ASSUME NEW k \in Keys, totals'[k] # Nobody PROVE Key(totals[k])' = k
    BY <1>4, <2>3 DEF ActorStep, ShareMove, ShareInv, ShareTypes, Key
  <2> QED
    BY <1>1, <2>1, <2>2, <2>3 DEF ShareInv, ShareTypes
<1> QED
  BY <1>2, <1>3, <1>4, EveryStepHasAnActor DEF ShareInv

(* The actor's own view.                                                     *)
LEMMA OwnThreadStep ==
  ASSUME DaemonInv, ShareInv, NEW q \in Requests, Arrive(q) \/ HandlerStep(q)
  PROVE  FreshOk(q)' /\ TotalOk(q)'
<1> USE DEF ThreadOk
<1>0. /\ handler \in [Requests -> {"idle", "wipe", "drop", "close", "main", "done"}]
      /\ answer \in [Requests -> {"none", "refused", "no_verdict"} \cup Verdicts]
      /\ task \in [Tasks -> {"none", "queued", "running", "ended"}]
      /\ <<q, "main">> \in Tasks /\ <<q, "close">> \in Tasks /\ Key(q) \in Keys
      /\ saved \in [Keys -> Files] /\ contexts \in [Keys -> Contexts]
      /\ totals \in [Keys -> Contexts] /\ total \in [Requests -> Contexts]
      /\ overlap \in [Requests -> BOOLEAN]
      /\ ThreadOk(q) /\ FreshOk(q) /\ TotalOk(q)
  BY KeyAssumption DEF DaemonInv, ThreadInv, ThreadTypes, Tasks, ShareInv, ShareTypes, Key
<1>1. UNCHANGED <<kind, stage, used, box, totals>>
  BY DEF Arrive, Refuse, Accept, Receive, HandlerStep, RemoveStorage, DropContext, AfterClose,
     Reply, GiveUp, NoSubmit, Submit, worker, browser, results
<1>2. Key(q)' = Key(q) /\ (IsCheckout(q)' <=> IsCheckout(q))
  BY <1>1 DEF Key, IsCheckout
<1>3. CASE Arrive(q)
  <2>1. /\ handler[q] = "idle" /\ task[<<q, "main">>] = "none" /\ stage[q] = "none"
        /\ total'[q] = Nobody
    BY <1>0, <1>3 DEF Arrive, Refuse, Accept, Receive, TotalOk
  <2>2. \/ handler'[q] \in {"wipe", "done"} /\ task'[<<q, "main">>] = "none"
        \/ /\ handler'[q] = "main" /\ task'[<<q, "main">>] = "queued"
           /\ kind[q] \notin Forced
    BY <1>0, <1>3, <2>1 DEF Arrive, Refuse, Accept, NoSubmit, Submit, worker
  <2> QED
    BY <1>0, <1>1, <2>1, <2>2 DEF FreshOk, TotalOk, Early, Counts
<1>4. CASE RemoveStorage(q)
  <2>1. /\ handler[q] = "wipe" /\ handler'[q] = "drop" /\ saved'[Key(q)] # "saved"
        /\ UNCHANGED <<overlap, total, task>> /\ task[<<q, "main">>] = "none"
        /\ stage[q] = "none"
    BY <1>0, <1>4 DEF RemoveStorage, worker
  <2> QED
    BY <1>0, <1>1, <1>2, <2>1 DEF FreshOk, TotalOk, Counts, Early
<1>5. CASE DropContext(q)
  <2>1. /\ handler[q] = "drop" /\ contexts'[Key(q)] = Nobody
        /\ UNCHANGED <<overlap, total, saved>> /\ stage[q] = "none"
        /\ \/ handler'[q] = "close"
           \/ handler'[q] = "main" /\ task'[<<q, "main">>] = "queued"
    BY <1>0, <1>5 DEF DropContext, Submit
  <2> QED
    BY <1>0, <1>1, <1>2, <2>1 DEF FreshOk, TotalOk, Counts
<1>6. CASE AfterClose(q)
  <2>1. /\ handler[q] = "close" /\ UNCHANGED <<overlap, total, saved, contexts>>
        /\ stage[q] = "none" /\ handler'[q] = "main" /\ task'[<<q, "main">>] = "queued"
    BY <1>0, <1>6 DEF AfterClose, Submit, browser
  <2> QED
    BY <1>0, <1>1, <1>2, <2>1 DEF FreshOk, TotalOk, Counts, Early
<1>7. CASE GiveUp(q)
  <2>1. /\ handler[q] = "main" /\ UNCHANGED <<overlap, total, saved, contexts, task>>
        /\ handler'[q] = "done"
    BY <1>0, <1>7 DEF GiveUp, browser, worker
  <2> QED
    BY <1>0, <1>1, <1>2, <2>1 DEF FreshOk, TotalOk, Counts, Early
<1>8. CASE Reply(q)
  <2>1. /\ handler[q] = "main" /\ UNCHANGED <<overlap, saved, contexts, task>>
        /\ handler'[q] = "done" /\ task[<<q, "main">>] = "ended" /\ stage[q] = "none"
        /\ answer'[q] = box[q]
        /\ IF IsCheckout(q) THEN total'[q] = totals[Key(q)] ELSE total' = total
    BY <1>0, <1>8 DEF Reply, browser, worker
  <2>2. total[q] = Nobody
    BY <1>0, <2>1 DEF TotalOk
  <2>3. FreshOk(q)'
    BY <1>0, <1>1, <2>1 DEF FreshOk, Early
  <2>4. CASE ~IsCheckout(q)
    BY <2>1, <2>2, <2>3, <2>4 DEF TotalOk, Counts
  <2>5. CASE IsCheckout(q)
    <3>1. total'[q] # Nobody => Key(total[q])' = Key(q)'
      BY <1>0, <1>1, <1>2, <2>1, <2>5 DEF ShareInv, ShareTypes, Key
    <3>2. total'[q] # Nobody /\ answer'[q] # "SKIPPED" /\ ~overlap'[q] => total'[q] = q
      BY <1>0, <2>1, <2>5 DEF TotalOk, Counts
    <3> QED
      BY <2>1, <2>3, <3>1, <3>2 DEF TotalOk, Counts
  <2> QED
    BY <2>4, <2>5
<1> QED
  BY <1>3, <1>4, <1>5, <1>6, <1>7, <1>8 DEF HandlerStep

LEMMA OwnTaskStep ==
  ASSUME DaemonInv, ShareInv, NEW q \in Requests,
         \/ Skip(q) \/ Start(q) \/ OpenContext(q) \/ ContextFails(q)
         \/ CheckoutStep(q) \/ LiveStep(q)
  PROVE  FreshOk(q)' /\ TotalOk(q)'
<1> USE DEF ThreadOk
<1>0. /\ handler \in [Requests -> {"idle", "wipe", "drop", "close", "main", "done"}]
      /\ answer \in [Requests -> {"none", "refused", "no_verdict"} \cup Verdicts]
      /\ task \in [Tasks -> {"none", "queued", "running", "ended"}]
      /\ box \in [Requests -> {"none", "no_verdict"} \cup Verdicts]
      /\ stage \in [Requests -> Stages] /\ used \in [Requests -> Contexts]
      /\ <<q, "main">> \in Tasks /\ <<q, "close">> \in Tasks /\ Key(q) \in Keys
      /\ saved \in [Keys -> Files] /\ contexts \in [Keys -> Contexts]
      /\ totals \in [Keys -> Contexts] /\ total \in [Requests -> Contexts]
      /\ overlap \in [Requests -> BOOLEAN]
      /\ ThreadOk(q) /\ FreshOk(q) /\ TotalOk(q)
  BY KeyAssumption DEF DaemonInv, ThreadInv, ThreadTypes, Tasks, ShareInv, ShareTypes, Key
<1>1. UNCHANGED <<kind, handler, answer, total, overlap>>
  BY StepIsMove DEF Skip, Start, OpenContext, ContextFails, PageMove, PageFrame, http
<1>2. Key(q)' = Key(q) /\ (IsCheckout(q)' <=> IsCheckout(q)) /\ Key(total[q])' = Key(total[q])
  BY <1>1 DEF Key, IsCheckout
<1>3. /\ total[q] # Nobody => 
           /\ handler'[q] = "done" /\ Key(total[q])' = Key(q)'
           /\ answer'[q] # "SKIPPED" /\ ~overlap'[q] => total'[q] = q
  BY <1>0, <1>1, <1>2 DEF TotalOk
<1>4. CASE Skip(q)
  <2>1. /\ stage'[q] = "none" /\ used'[q] = Nobody
        /\ task'[<<q, "main">>] \in {"none", "ended"}
        /\ handler[q] = "main" => box'[q] = "SKIPPED"
    BY <1>0, <1>4 DEF Skip, Finish
  <2>2. handler[q] \in {"main", "done"}
    BY <1>0, <1>4, TakeKeepsQueue DEF Skip, Finish, DaemonInv
  <2> QED
    BY <1>1, <1>3, <2>1, <2>2 DEF FreshOk, TotalOk, Early, Counts
<1>5. CASE Start(q)
  <2>1. /\ task[<<q, "main">>] = "queued" /\ stage[q] = "none" /\ stage'[q] = "open"
        /\ task'[<<q, "main">>] = "running" /\ UNCHANGED <<used, saved, contexts>>
    BY <1>0, <1>5, TakeKeepsQueue DEF Start, browser, DaemonInv
  <2> QED
    BY <1>0, <1>1, <1>2, <1>3, <2>1 DEF FreshOk, TotalOk, Early, Counts
<1>6. CASE OpenContext(q)
  <2>1. /\ stage[q] = "open" /\ task' = task /\ task[<<q, "main">>] = "running"
        /\ stage'[q] \notin {"none", "open"} /\ handler[q] \in {"main", "done"}
        /\ IsCheckout(q) => totals'[Key(q)] = Nobody
    BY <1>0, <1>6 DEF OpenContext, At, ForgetTotal
  <2> QED
    BY <1>1, <1>2, <1>3, <2>1 DEF FreshOk, TotalOk, Early, Counts
<1>8. CASE ContextFails(q)
  <2>1. /\ stage[q] = "open" /\ stage'[q] = "none" /\ used'[q] = Nobody
        /\ task'[<<q, "main">>] \in {"none", "ended"} /\ handler[q] \in {"main", "done"}
        /\ IsCheckout(q) => totals'[Key(q)] = Nobody
    BY <1>0, <1>8 DEF ContextFails, Finish, At, ForgetTotal
  <2> QED
    BY <1>1, <1>2, <1>3, <2>1 DEF FreshOk, TotalOk, Early, Counts
<1>7. CASE CheckoutStep(q) \/ LiveStep(q)
  <2>1. PageMove(q) /\ (totals' = totals \/ totals' = [totals EXCEPT ![Key(q)] = q])
    BY <1>7, StepIsMove, PageEffect
  <2>2. /\ stage[q] \notin {"none", "open"} /\ task[<<q, "main">>] = "running"
        /\ handler[q] \in {"main", "done"}
        /\ \/ stage'[q] \notin {"none", "open"} /\ task' = task
           \/ /\ stage'[q] = "none" /\ used'[q] = Nobody
              /\ task'[<<q, "main">>] \in {"none", "ended"}
    BY <1>0, <2>1 DEF PageMove, Goto, Finish
  <2>3. FreshOk(q)'
    BY <1>1, <2>2 DEF FreshOk, Early
  <2>4. Counts(q)' => Counts(q)
    BY <1>1, <1>2, <2>2 DEF Counts
  <2>5. Counts(q)' /\ ~overlap'[q] => totals'[Key(q)'] \in {Nobody, q}
    BY <1>0, <1>1, <1>2, <2>1, <2>4 DEF TotalOk
  <2> QED
    BY <1>1, <1>3, <2>3, <2>5 DEF TotalOk
<1> QED
  BY <1>4, <1>5, <1>6, <1>7, <1>8

LEMMA ShareStep == DaemonInv /\ ShareInv /\ [Next]_vars => ShareInv'
<1> SUFFICES ASSUME DaemonInv, ShareInv, [Next]_vars PROVE ShareInv'
  OBVIOUS
<1> DEFINE Fine == \A r \in Requests : FreshOk(r) /\ TotalOk(r)
<1>1. CASE Restart
  <2>1. ASSUME NEW r \in Requests PROVE FreshOk(r)' /\ TotalOk(r)'
    <3>1. /\ handler'[r] \in {"idle", "done"} /\ task'[<<r, "main">>] = "none"
          /\ stage'[r] = "none" /\ used'[r] = Nobody /\ total' = total
          /\ handler[r] = "done" => handler'[r] = "done" /\ answer'[r] = answer[r]
          /\ UNCHANGED <<kind, overlap>>
      BY <1>1 DEF Restart, Tasks
    <3> QED
      BY <3>1 DEF ShareInv, FreshOk, TotalOk, Early, Counts, Key
  <2> QED
    BY <2>1, ShareTypesStep, CompanyStep DEF ShareInv
<1>2. CASE Idle
  <2>1. ASSUME NEW r \in Requests PROVE FreshOk(r)' /\ TotalOk(r)'
    BY <1>2 DEF Idle, ShareInv, FreshOk, TotalOk, Early, Counts, Key, IsCheckout
  <2> QED
    BY <2>1, ShareTypesStep, CompanyStep DEF ShareInv
<1>3. ASSUME NEW q \in Requests, ActorStep(q) PROVE ShareInv'
  <2>1. FreshOk(q)' /\ TotalOk(q)'
    BY <1>3, OwnThreadStep, OwnTaskStep DEF ActorStep, Acts
  <2>2. \A c \in Requests \ {q} : FreshOk(c)' /\ TotalOk(c)'
    BY <1>3, Bystander
  <2>3. \A c \in Requests : FreshOk(c)' /\ TotalOk(c)'
    BY <2>1, <2>2
  <2> QED
    BY <2>3, ShareTypesStep, CompanyStep DEF ShareInv
<1> QED
  BY <1>1, <1>2, <1>3, EveryStepHasAnActor DEF ShareInv

LEMMA ShareInit == Init => ShareInv
<1> SUFFICES ASSUME Init PROVE ShareInv
  OBVIOUS
<1>1. ShareTypes
  BY DEF Init, ShareTypes, Contexts, Files
<1>2. ASSUME NEW r \in Requests PROVE ~Present(r) /\ FreshOk(r) /\ TotalOk(r)
  <2>1. /\ <<r, "main">> \in Tasks /\ task[<<r, "main">>] = "none" /\ handler[r] = "idle"
        /\ stage[r] = "none" /\ used[r] = Nobody /\ total[r] = Nobody
    BY DEF Init, Tasks
  <2> QED
    BY <2>1 DEF Present, FreshOk, TotalOk, Early, Counts
<1> QED
  BY <1>1, <1>2 DEF ShareInv, CompanyInv

-----------------------------------------------------------------------------
(* Of a request's context only its own OpenContext makes one.                *)
LEMMA ContextTaken ==
  ASSUME DaemonInv, ShareInv, [Next]_vars, NEW r \in Requests, stage[r] = "open",
         used'[r] # Nobody
  PROVE  OpenContext(r)
<1>1. used[r] = Nobody
  BY DEF ShareInv, FreshOk
<1>2. ~Restart /\ ~Idle
  BY <1>1 DEF Restart, Idle
<1>3. PICK q \in Requests : ActorStep(q)
  BY <1>2, EveryStepHasAnActor DEF ShareInv
<1>4. q = r
  BY <1>1, <1>3 DEF ActorStep, Alone
<1>5. task[<<r, "main">>] = "running" /\ handler[r] \in {"main", "done"}
  BY DEF DaemonInv, ThreadInv, ThreadTypes, ThreadOk
<1>6. ~Skip(r) /\ ~Start(r) /\ ~ContextFails(r)
  BY <1>5 DEF Skip, Start, Take, WorkerFree, Tasks, ContextFails, Finish, DaemonInv,
     ThreadTypes, ShareInv, ShareTypes
<1>7. ~CheckoutStep(r) /\ ~LiveStep(r)
  BY StepIsMove DEF PageMove
<1>8. ~Arrive(r) /\ ~HandlerStep(r)
  BY <1>1 DEF Arrive, Refuse, Accept, Receive, HandlerStep, RemoveStorage, DropContext,
     AfterClose, Reply, GiveUp, browser
<1> QED
  BY <1>3, <1>4, <1>6, <1>7, <1>8 DEF ActorStep, Acts

(* A forced login that met nobody of its org_key works in a context of its   *)
(* own, made without a storage file unless one could not be removed,        *)
(* whatever went on before it came.                                        *)
THEOREM ForcedLoginIsFresh == Spec => ForcedIsFresh
<1> DEFINE Fresh == \A r \in Requests :
                      kind[r] \in Forced /\ stage[r] = "open" /\ used'[r] # Nobody =>
                        overlap[r] \/ (used'[r] = r /\ saved[Key(r)] # "saved")
<1>1. DaemonInv /\ ShareInv /\ [Next]_vars => Fresh
  <2> SUFFICES ASSUME DaemonInv, ShareInv, [Next]_vars, NEW r \in Requests,
                      kind[r] \in Forced, stage[r] = "open", used'[r] # Nobody, ~overlap[r]
               PROVE  used'[r] = r /\ saved[Key(r)] # "saved"
    OBVIOUS
  <2>1. OpenContext(r) /\ contexts[Key(r)] = Nobody /\ saved[Key(r)] # "saved"
    BY ContextTaken DEF ShareInv, FreshOk, Early
  <2>2. used \in [Requests -> Contexts]
    BY DEF ShareInv, ShareTypes
  <2> QED
    BY <2>1, <2>2 DEF OpenContext
<1>2. DaemonInv /\ ShareInv /\ [Next]_vars => [Fresh]_vars
  BY <1>1
<1>3. Spec => [](DaemonInv /\ ShareInv)
  BY DaemonInit, ShareInit, DaemonStep, ShareStep, PTL DEF Spec
<1> QED
  BY <1>2, <1>3, PTL DEF Spec, ForcedIsFresh

(* The order_total of an answer is a total of its own org_key, and its own   *)
(* checkout's unless it was skipped or met another request of that key.     *)
THEOREM TotalsAreOwn == Spec => []TotalIsOwn
<1>1. ShareInv => TotalIsOwn
  BY DEF ShareInv, TotalOk, TotalIsOwn
<1> QED
  BY <1>1, DaemonInit, ShareInit, DaemonStep, ShareStep, PTL DEF Spec

THEOREM TypeCorrect == Spec => []TypeOK
<1>1. DaemonInv /\ GateInv /\ ContextInv /\ ShareInv => TypeOK
  BY DEF DaemonInv, ThreadTypes, QueueInv, GateInv, ContextInv, ContextTypes, ShareInv,
         ShareTypes, Files, TypeOK
<1> QED
  BY <1>1, DaemonInit, GateInit, ContextInit, ShareInit, DaemonStep, GateStep, ContextStep,
     ShareStep, PTL DEF Spec
=============================================================================
