---------------------------- MODULE CheckoutDaemon ----------------------------
(***************************************************************************)
(* The browser daemon from the inside.  TruckPurchase sees a checkout as   *)
(* one job with a click in it; here are the threads that carry it: one     *)
(* HTTP handler thread per POST, the queue, the single browser worker that *)
(* owns every Playwright object, the self-watchdog, and the files and      *)
(* dictionaries they share (contexts, storage_state.json, last order       *)
(* totals, the capture buffer).                                            *)
(*                                                                         *)
(* A handler submits a task and waits with a deadline; a task that misses  *)
(* it stays queued or runs on.  A checkout is a chain of page stages, each *)
(* of which may fail; four of them start with an operator-abort            *)
(* checkpoint, the last one just before the Place Order click.             *)
(*                                                                         *)
(* good360_daemon.py.  Definitions named Slip... are plausible slips, as   *)
(* in TruckPurchase.                                                       *)
(***************************************************************************)
EXTENDS Naturals, Sequences

CONSTANTS
  Requests,     \* POSTs to the daemon (each is sent at most once)
  Nobody,       \* not a request
  Kinds,        \* who sends them: endpoint and parameters
  Checkouts,    \* kinds for /checkout and /test_checkout; others go to /live
  Forced,       \* kinds with force_login
  Tracked,      \* kinds with an attempt_id, hence an abort gate
  Keys,         \* org_keys and LIVE_KEY
  KeyOf,        \* KeyOf[k]: the browser context requests of kind k work in
  Faults        \* which of FaultKinds may happen

FaultKinds == {"wedge", "death", "abort_read", "crash", "storage"}

ASSUME NobodyAssumption == Nobody \notin Requests
ASSUME KindsAssumption == /\ Kinds # {} /\ Checkouts \subseteq Kinds
                          /\ Forced \subseteq Checkouts
                          /\ Tracked \subseteq Checkouts
ASSUME KeyAssumption == KeyOf \in [Kinds -> Keys]
ASSUME FaultsAssumption == Faults \subseteq FaultKinds

Tasks == Requests \X {"main", "close"}   \* manager call, context close

(* SUCCESS also stands for READY and OK of the Live View, FAILED for every  *)
(* other end: declined, missed, manual, failed.                            *)
Verdicts == {"SUCCESS", "FAILED", "ABORTED", "SKIPPED"}

Stages == {"none", "open", "login", "after_login", "navigate", "wall", "detail",
           "add", "after_add_to_cart", "resolve", "mini_cart", "questions",
           "dropdowns", "billing", "card", "before_place_order_wait", "review",
           "before_place_order_click", "click", "page", "live"}

VARIABLES
  enabled,   \* ENABLE_AUTO_BUY of this environment
  kind,      \* kind[r]: the kind of request r
  handler,   \* handler[r]: where r's HTTP thread is
  answer,    \* answer[r]: what its client got
  queue,     \* worker.jobs, a FIFO of tasks
  task,      \* task[t]: state of the submitted call t
  box,       \* box[r]: result of r's main task
  stage,     \* stage[r]: where r's running main task is
  stuck,     \* the running task will never return
  contexts,  \* contexts[k]: cached context, named by the request it was made for
  open,      \* contexts open in the browser
  used,      \* used[r]: the context r's running checkout holds
  dropped,   \* dropped[r]: context r's handler popped, for the worker to close
  saved,     \* saved[k]: is there a storage_state.json ("kept": one that could
             \* not be removed)
  totals,    \* totals[k]: whose checkout wrote last_order_totals[k]
  total,     \* total[r]: whose order_total was put in r's answer
  abort,     \* abort[r]: abort_requested of r's purchase_attempts row
  orders,    \* orders[r]: orders r's task placed
  overlap    \* history: another request of r's key was there before r's checkout

http == <<handler, answer, total>>
worker == <<queue, task, box, stuck>>
browser == <<contexts, open, used, dropped, saved>>
results == <<totals, orders>>
vars == <<enabled, kind, handler, answer, queue, task, box, stage, stuck, contexts,
          open, used, dropped, saved, totals, total, abort, orders, overlap>>

Contexts == Requests \cup {Nobody}

TypeOK ==
  /\ enabled \in BOOLEAN
  /\ kind \in [Requests -> Kinds]
  /\ handler \in [Requests -> {"idle", "wipe", "drop", "close", "main", "done"}]
  /\ answer \in [Requests -> {"none", "refused", "no_verdict"} \cup Verdicts]
  /\ queue \in Seq(Tasks)
  /\ task \in [Tasks -> {"none", "queued", "running", "ended"}]
  /\ box \in [Requests -> {"none", "no_verdict"} \cup Verdicts]
  /\ stage \in [Requests -> Stages]
  /\ stuck \in BOOLEAN
  /\ contexts \in [Keys -> Contexts]
  /\ open \subseteq Requests
  /\ used \in [Requests -> Contexts]
  /\ dropped \in [Requests -> Contexts]
  /\ saved \in [Keys -> {"none", "saved", "kept"}]
  /\ totals \in [Keys -> Contexts]
  /\ total \in [Requests -> Contexts]
  /\ abort \in [Requests -> BOOLEAN]
  /\ orders \in [Requests -> Nat]
  /\ overlap \in [Requests -> BOOLEAN]

(* A fresh process; storage files survive from earlier lives.              *)
Init ==
  /\ enabled \in BOOLEAN
  /\ kind \in [Requests -> Kinds]
  /\ handler = [r \in Requests |-> "idle"]
  /\ answer = [r \in Requests |-> "none"]
  /\ queue = <<>>
  /\ task = [t \in Tasks |-> "none"]
  /\ box = [r \in Requests |-> "none"]
  /\ stage = [r \in Requests |-> "none"]
  /\ stuck = FALSE
  /\ contexts = [k \in Keys |-> Nobody]
  /\ open = {}
  /\ used = [r \in Requests |-> Nobody]
  /\ dropped = [r \in Requests |-> Nobody]
  /\ saved \in {[k \in Keys |-> s] : s \in {"none", "saved"}}
  /\ totals = [k \in Keys |-> Nobody]
  /\ total = [r \in Requests |-> Nobody]
  /\ abort = [r \in Requests |-> FALSE]
  /\ orders = [r \in Requests |-> 0]
  /\ overlap = [r \in Requests |-> FALSE]

-----------------------------------------------------------------------------
(* The HTTP handler threads.                                               *)

Key(r) == KeyOf[kind[r]]
IsCheckout(r) == kind[r] \in Checkouts

Submit(t) == /\ queue' = Append(queue, t)
             /\ task' = [task EXCEPT ![t] = "queued"]
             /\ UNCHANGED <<box, stage, stuck>>

(* Nothing was submitted yet.                                              *)
NoSubmit == UNCHANGED <<worker, stage>>

(* r's own thread or its task is somewhere in the daemon.                  *)
Present(r) == \/ handler[r] \notin {"idle", "done"}
              \/ task[<<r, "main">>] \in {"queued", "running"}

Company(r) == {c \in Requests \ {r} : Key(c) = Key(r) /\ Present(c)}

Receive(r) ==
  /\ handler[r] = "idle"
  /\ overlap' = [c \in Requests |->
       overlap[c] \/ c \in Company(r) \/ (c = r /\ Company(r) # {})]
  /\ UNCHANGED <<enabled, kind, total, browser, results, abort>>

(* ENABLE_AUTO_BUY=false: the endpoints that can buy answer 403.           *)
Refuse(r) ==
  /\ ~enabled
  /\ Receive(r)
  /\ handler' = [handler EXCEPT ![r] = "done"]
  /\ answer' = [answer EXCEPT ![r] = "refused"]
  /\ NoSubmit

(* force_login first throws the stored session away.                       *)
Accept(r) ==
  /\ enabled \/ ~IsCheckout(r)
  /\ Receive(r)
  /\ UNCHANGED answer
  /\ \/ /\ kind[r] \in Forced
        /\ handler' = [handler EXCEPT ![r] = "wipe"]
        /\ NoSubmit
     \/ /\ kind[r] \notin Forced
        /\ handler' = [handler EXCEPT ![r] = "main"]
        /\ Submit(<<r, "main">>)

(* Slip: only the cached context is dropped. *)
SlipRemoveStorage(r) ==
  /\ handler[r] = "wipe"
  /\ handler' = [handler EXCEPT ![r] = "drop"]
  /\ UNCHANGED <<enabled, kind, answer, total, worker, stage, browser, results, abort,
                 overlap>>

(* A file that cannot be removed is logged, and the request goes on.       *)
RemoveStorage(r) ==
  /\ handler[r] = "wipe"
  /\ \/ saved' = [saved EXCEPT ![Key(r)] = "none"]
     \/ /\ "storage" \in Faults /\ saved[Key(r)] # "none"
        /\ saved' = [saved EXCEPT ![Key(r)] = "kept"]
  /\ handler' = [handler EXCEPT ![r] = "drop"]
  /\ UNCHANGED <<enabled, kind, answer, total, worker, stage, contexts, open, used,
                 dropped, results, abort, overlap>>

(* Slip: the handler closes the context itself, not on the worker. *)
SlipDropContext(r) ==
  /\ handler[r] = "drop"
  /\ contexts' = [contexts EXCEPT ![Key(r)] = Nobody]
  /\ open' = open \ {contexts[Key(r)]}
  /\ handler' = [handler EXCEPT ![r] = "main"]
  /\ Submit(<<r, "main">>)
  /\ UNCHANGED <<enabled, kind, answer, total, used, dropped, saved, results, abort,
                 overlap>>

(* The context is popped under manager.lock, and handed to the worker to    *)
(* close: Playwright objects belong to its thread.                         *)
DropContext(r) ==
  /\ handler[r] = "drop"
  /\ contexts' = [contexts EXCEPT ![Key(r)] = Nobody]
  /\ dropped' = [dropped EXCEPT ![r] = contexts[Key(r)]]
  /\ \/ /\ contexts[Key(r)] # Nobody
        /\ handler' = [handler EXCEPT ![r] = "close"]
        /\ Submit(<<r, "close">>)
     \/ /\ contexts[Key(r)] = Nobody
        /\ handler' = [handler EXCEPT ![r] = "main"]
        /\ Submit(<<r, "main">>)
  /\ UNCHANGED <<enabled, kind, answer, total, open, used, saved, results, abort,
                 overlap>>

(* The close has twenty seconds; a failure or a timeout is only logged.    *)
AfterClose(r) ==
  /\ handler[r] = "close"
  /\ handler' = [handler EXCEPT ![r] = "main"]
  /\ Submit(<<r, "main">>)
  /\ UNCHANGED <<enabled, kind, answer, total, browser, results, abort, overlap>>

(* The task's result is the answer.  order_total is looked up now, after    *)
(* the task, by org_key.                                                   *)
Reply(r) ==
  /\ handler[r] = "main"
  /\ task[<<r, "main">>] = "ended"
  /\ handler' = [handler EXCEPT ![r] = "done"]
  /\ answer' = [answer EXCEPT ![r] = box[r]]
  /\ total' = IF IsCheckout(r) THEN [total EXCEPT ![r] = totals[Key(r)]]
                                 ELSE total
  /\ UNCHANGED <<enabled, kind, worker, stage, browser, results, abort, overlap>>

(* Slip: a missed deadline is reported as a failed checkout. *)
SlipGiveUp(r) ==
  /\ handler[r] = "main"
  /\ task[<<r, "main">>] # "ended"
  /\ handler' = [handler EXCEPT ![r] = "done"]
  /\ answer' = [answer EXCEPT ![r] = "FAILED"]
  /\ UNCHANGED <<enabled, kind, total, worker, stage, browser, results, abort,
                 overlap>>

(* The worker missed the deadline: 503 (500 for navigate and screenshot).   *)
(* The task stays where it is.                                             *)
GiveUp(r) ==
  /\ handler[r] = "main"
  /\ task[<<r, "main">>] # "ended"
  /\ handler' = [handler EXCEPT ![r] = "done"]
  /\ answer' = [answer EXCEPT ![r] = "no_verdict"]
  /\ UNCHANGED <<enabled, kind, total, worker, stage, browser, results, abort,
                 overlap>>

-----------------------------------------------------------------------------
(* The browser worker takes the tasks in order.                            *)

WorkerFree == \A t \in Tasks : task[t] # "running"

Take(t) == /\ WorkerFree /\ queue # <<>>
           /\ t = Head(queue)
           /\ queue' = Tail(queue)

At(r, s) == stage[r] = s /\ ~stuck

Goto(r, s) == /\ stage' = [stage EXCEPT ![r] = s]
              /\ UNCHANGED <<task, box, used>>

(* The call is done; its result is of interest if its handler still waits.  *)
Finish(r, verdict) ==
  /\ task' = [task EXCEPT ![<<r, "main">>] =
                IF handler[r] = "main" THEN "ended" ELSE "none"]
  /\ box' = IF handler[r] = "main" THEN [box EXCEPT ![r] = verdict] ELSE box
  /\ stage' = [stage EXCEPT ![r] = "none"]
  /\ used' = [used EXCEPT ![r] = Nobody]

RunClose(r) ==
  /\ Take(<<r, "close">>)
  /\ open' = open \ {dropped[r]}
  /\ dropped' = [dropped EXCEPT ![r] = Nobody]
  /\ task' = [task EXCEPT ![<<r, "close">>] = "none"]
  /\ UNCHANGED <<enabled, kind, http, box, stuck, stage, contexts, used, saved,
                 results, abort, overlap>>

(* The purchase lock refuses a URL that is held or was tried in the last    *)
(* minute (PurchaseLock); the checkout never starts.                       *)
Skip(r) ==
  /\ Take(<<r, "main">>)
  /\ IsCheckout(r)
  /\ Finish(r, "SKIPPED")
  /\ UNCHANGED <<enabled, kind, http, stuck, contexts, open, dropped, saved, results,
                 abort, overlap>>

Start(r) ==
  /\ Take(<<r, "main">>)
  /\ task' = [task EXCEPT ![<<r, "main">>] = "running"]
  /\ stage' = [stage EXCEPT ![r] = "open"]
  /\ UNCHANGED <<enabled, kind, http, box, stuck, browser, results, abort, overlap>>

(* What no page stage touches.                                             *)
PageFrame == UNCHANGED <<enabled, kind, http, queue, stuck, contexts, open, dropped,
                         abort, overlap>>

(* Slip: the previous total of the org_key is kept. *)
SlipForgetTotal(r) == totals' = totals

ForgetTotal(r) ==
  totals' = IF IsCheckout(r) THEN [totals EXCEPT ![Key(r)] = Nobody] ELSE totals

(* A checkout forgets the last total of its org_key, then takes the cached  *)
(* context if it still answers, or makes one from the storage file.        *)
OpenContext(r) ==
  /\ At(r, "open")
  /\ stage' = [stage EXCEPT ![r] = IF IsCheckout(r) THEN "login" ELSE "live"]
  /\ ForgetTotal(r)
  /\ LET cached == contexts[Key(r)] IN
     \/ /\ cached # Nobody
        /\ used' = [used EXCEPT ![r] = cached]
        /\ UNCHANGED <<contexts, open>>
     \/ /\ cached = Nobody \/ "crash" \in Faults
        /\ contexts' = [contexts EXCEPT ![Key(r)] = r]
        /\ open' = (open \ {cached}) \cup {r}
        /\ used' = [used EXCEPT ![r] = r]
  /\ UNCHANGED <<enabled, kind, http, queue, task, box, stuck, dropped, saved, orders,
                 abort, overlap>>

(* The cached context is dead and the browser makes no new one.            *)
ContextFails(r) ==
  /\ At(r, "open")
  /\ contexts[Key(r)] = Nobody \/ "crash" \in Faults
  /\ ForgetTotal(r)
  /\ contexts' = [contexts EXCEPT ![Key(r)] = Nobody]
  /\ open' = open \ {contexts[Key(r)]}
  /\ Finish(r, IF IsCheckout(r) THEN "FAILED" ELSE "no_verdict")
  /\ UNCHANGED <<enabled, kind, http, queue, stuck, dropped, saved, orders, abort,
                 overlap>>

-----------------------------------------------------------------------------
(* The stages of a checkout.  At each the page may give up: FAILED.         *)

OrFailed(r, next) == Goto(r, next) \/ Finish(r, "FAILED")

(* ensure_logged_in: a live session is left alone, otherwise the sign-in    *)
(* form is driven and the session saved.                                   *)
Login(r) ==
  /\ At(r, "login")
  /\ \/ /\ OrFailed(r, "after_login")
        /\ UNCHANGED saved
     \/ /\ Goto(r, "after_login")
        /\ saved' = [saved EXCEPT ![Key(r)] = "saved"]
  /\ PageFrame /\ UNCHANGED <<results>>

AfterCheckpoint == [after_login |-> "navigate", after_add_to_cart |-> "resolve",
                    before_place_order_wait |-> "review",
                    before_place_order_click |-> "click"]

(* Slip: the last checkpoint is missing. *)
SlipAbortSeen(r) == abort[r] /\ stage[r] # "before_place_order_click"

AbortSeen(r) == abort[r]

(* _abort_checkpoint; an unreadable flag lets the checkout go on.          *)
Checkpoint(r) ==
  /\ stage[r] \in DOMAIN AfterCheckpoint /\ ~stuck
  /\ \/ /\ AbortSeen(r)
        /\ Finish(r, "ABORTED")
     \/ /\ ~AbortSeen(r) \/ "abort_read" \in Faults
        /\ Goto(r, AfterCheckpoint[stage[r]])
  /\ PageFrame /\ UNCHANGED <<saved, results>>

(* The truck page: a login wall, sold out, or the truck.                   *)
Navigate(r) ==
  /\ At(r, "navigate")
  /\ OrFailed(r, "detail") \/ Goto(r, "wall")
  /\ PageFrame /\ UNCHANGED <<saved, results>>

(* Logged in again, without force, which may not help.                     *)
PassLoginWall(r) ==
  /\ At(r, "wall")
  /\ OrFailed(r, "detail")
  /\ saved' \in {saved, [saved EXCEPT ![Key(r)] = "saved"]}
  /\ PageFrame /\ UNCHANGED <<results>>

NextStage == [detail |-> "add", add |-> "after_add_to_cart",
              resolve |-> "mini_cart", mini_cart |-> "questions",
              questions |-> "dropdowns", dropdowns |-> "billing", billing |-> "card",
              card |-> "before_place_order_wait"]

PageStage(r, s) ==
  /\ At(r, s)
  /\ OrFailed(r, NextStage[s])
  /\ PageFrame /\ UNCHANGED <<saved, results>>

EnsureOnProductDetail(r) == PageStage(r, "detail")

(* Empty a stale cart if possible, then Add to Cart.                       *)
AddToCart(r) == PageStage(r, "add")

(* Up to 45 s for an error, the quote dialog or the mini-cart.             *)
AwaitAddResult(r) == PageStage(r, "resolve")

MiniCartCheckout(r) == PageStage(r, "mini_cart")

FillQuestions(r) == PageStage(r, "questions")

AnswerDropdowns(r) == PageStage(r, "dropdowns")

(* A saved address has to match the customer's.                            *)
PickBillingAddress(r) == PageStage(r, "billing")

FillCard(r) == PageStage(r, "card")

KeepTotal(r) == totals' = [totals EXCEPT ![Key(r)] = r]

(* The review page shows the charge; a total that cannot be parsed is no    *)
(* obstacle.                                                               *)
Review(r) ==
  /\ At(r, "review")
  /\ OrFailed(r, "before_place_order_click")
  /\ KeepTotal(r) \/ UNCHANGED totals
  /\ PageFrame /\ UNCHANGED <<saved, orders>>

(* The click; it may raise before or after the order went through.         *)
ClickPlaceOrder(r) ==
  /\ At(r, "click")
  /\ OrFailed(r, "page")
  /\ orders' \in {orders, [orders EXCEPT ![r] = @ + 1]}
  /\ PageFrame /\ UNCHANGED <<saved, totals>>

(* Success page, or decline phrases, sold out, neither, an exception.      *)
ReadPage(r) ==
  /\ At(r, "page")
  /\ \/ /\ orders[r] > 0
        /\ Finish(r, "SUCCESS")
        /\ \/ UNCHANGED totals
           \/ totals[Key(r)] = Nobody /\ KeepTotal(r)
     \/ /\ Finish(r, "FAILED")
        /\ UNCHANGED totals
  /\ PageFrame /\ UNCHANGED <<saved, orders>>

-----------------------------------------------------------------------------
(* The Live View, driven by the operator in a context of its own, without   *)
(* purchase lock and abort gate.                                           *)

Live(r) == At(r, "live") /\ PageFrame /\ UNCHANGED totals

LiveScreenshot(r) ==
  /\ Live(r)
  /\ Finish(r, "SUCCESS") \/ Finish(r, "no_verdict")
  /\ UNCHANGED <<saved, orders>>

LiveNavigate(r) ==
  /\ Live(r)
  /\ Finish(r, "SUCCESS") \/ Finish(r, "no_verdict")
  /\ UNCHANGED <<saved, orders>>

(* Log in if logged out, add the truck, fill the form.                     *)
LivePrepareCheckout(r) ==
  /\ Live(r) /\ enabled
  /\ Finish(r, "SUCCESS") \/ Finish(r, "FAILED")
  /\ UNCHANGED <<saved, orders>>

(* Prepares a checkout and reads the price off it; the form stays filled.  *)
LiveFetchPrice(r) == LivePrepareCheckout(r)

(* Commits the form the page shows, if it shows one.                       *)
LivePlaceOrder(r) ==
  /\ Live(r) /\ enabled
  /\ Finish(r, "SUCCESS") \/ Finish(r, "FAILED")
  /\ orders' \in {orders, [orders EXCEPT ![r] = @ + 1]}
  /\ UNCHANGED saved

-----------------------------------------------------------------------------
(* The operator, and how the process ends.                                 *)

(* The abort endpoint sets the flag of an attempt in progress, which it is   *)
(* while its caller waits for the answer.                                  *)
RequestAbort(r) ==
  /\ kind[r] \in Tracked /\ ~abort[r]
  /\ handler[r] \notin {"idle", "done"}
  /\ abort' = [abort EXCEPT ![r] = TRUE]
  /\ UNCHANGED <<enabled, kind, http, worker, stage, browser, results, overlap>>

(* A Playwright call hangs for good.                                       *)
Wedge ==
  /\ "wedge" \in Faults
  /\ ~WorkerFree /\ ~stuck
  /\ stuck' = TRUE
  /\ UNCHANGED <<enabled, kind, http, queue, task, box, stage, browser, results, abort,
                 overlap>>

(* The process ends and docker starts it again: connections are reset,      *)
(* tasks, contexts and totals are gone, storage files stay.                *)
Restart ==
  /\ handler' = [r \in Requests |-> IF handler[r] = "idle" THEN "idle" ELSE "done"]
  /\ answer' = [r \in Requests |->
                  IF handler[r] \in {"idle", "done"} THEN answer[r] ELSE "no_verdict"]
  /\ queue' = <<>>
  /\ task' = [t \in Tasks |-> "none"]
  /\ box' = [r \in Requests |-> "none"]
  /\ stage' = [r \in Requests |-> "none"]
  /\ stuck' = FALSE
  /\ contexts' = [k \in Keys |-> Nobody]
  /\ open' = {}
  /\ used' = [r \in Requests |-> Nobody]
  /\ dropped' = [r \in Requests |-> Nobody]
  /\ totals' = [k \in Keys |-> Nobody]
  /\ UNCHANGED <<enabled, kind, total, saved, abort, orders, overlap>>

(* A task over JOB_HARD_CAP_SECONDS ends the process.                      *)
SelfWatchdog == stuck /\ Restart

(* A crash, or self-heal restarting the container.                         *)
Death == "death" \in Faults /\ ~WorkerFree /\ Restart

-----------------------------------------------------------------------------
HandlerStep(r) ==
  \/ RemoveStorage(r) \/ DropContext(r) \/ AfterClose(r) \/ Reply(r) \/ GiveUp(r)

CheckoutStep(r) ==
  \/ Login(r) \/ Checkpoint(r) \/ Navigate(r) \/ PassLoginWall(r)
  \/ EnsureOnProductDetail(r) \/ AddToCart(r) \/ AwaitAddResult(r)
  \/ MiniCartCheckout(r) \/ FillQuestions(r) \/ AnswerDropdowns(r)
  \/ PickBillingAddress(r) \/ FillCard(r) \/ Review(r) \/ ClickPlaceOrder(r)
  \/ ReadPage(r)

LiveStep(r) ==
  \/ LiveScreenshot(r) \/ LiveNavigate(r) \/ LivePrepareCheckout(r)
  \/ LiveFetchPrice(r) \/ LivePlaceOrder(r)

WorkerStep ==
  \E r \in Requests :
    \/ RunClose(r) \/ Skip(r) \/ Start(r) \/ OpenContext(r) \/ ContextFails(r)
    \/ CheckoutStep(r) \/ LiveStep(r)

Arrive(r) == Refuse(r) \/ Accept(r)

Internal ==
  \/ \E r \in Requests : HandlerStep(r) \/ RequestAbort(r)
  \/ WorkerStep \/ Wedge \/ SelfWatchdog \/ Death

Next == Internal \/ \E r \in Requests : Arrive(r)

Spec == Init /\ [][Next]_vars

-----------------------------------------------------------------------------
(* A verdict is final: once a caller has been told how its checkout ended,  *)
(* that checkout places no order any more, so the caller may go on to the   *)
(* next card.  A caller that gave up gets 503 instead of a verdict.        *)
NoOrderAfterVerdict ==
  [][\A r \in Requests : answer[r] \in Verdicts => orders'[r] = orders[r]]_vars

(* An abort requested at any time before the last checkpoint is passed      *)
(* prevents the order, wherever the checkout is at that moment, still       *)
(* queued included: no checkout comes to its click with the flag set.      *)
AbortPreventsOrder ==
  [][\A r \in Requests :
       abort[r] /\ stage[r] # "click" =>
         stage'[r] # "click" /\ orders'[r] = orders[r]]_vars

(* The context a running task works in is open: neither a forced login of   *)
(* another request for the same org_key nor anyone else closes it under it. *)
ContextOutlivesTask ==
  \A r \in Requests : stage[r] \notin {"none", "open"} => used[r] \in open

(* force_login means a session of its own: only a request that met another  *)
(* one of its org_key in the daemon can start from a context or a storage   *)
(* file that is not its own, short of a file that could not be removed.    *)
ForcedIsFresh ==
  [][\A r \in Requests :
       kind[r] \in Forced /\ stage[r] = "open" /\ used'[r] # Nobody =>
         overlap[r] \/ (used'[r] = r /\ saved[Key(r)] # "saved")]_vars

(* The order_total of an answer comes from a checkout of the same org_key,  *)
(* and from the answered one unless it was skipped or had company.         *)
TotalIsOwn ==
  \A r \in Requests : total[r] # Nobody =>
    /\ Key(total[r]) = Key(r)
    /\ answer[r] # "SKIPPED" /\ ~overlap[r] => total[r] = r
=============================================================================
