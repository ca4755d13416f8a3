--------------------------- MODULE TruckPurchase ---------------------------
(***************************************************************************)
(* How one available truck is bought for one organisation.                 *)
(*                                                                         *)
(* A dispatch is one call into the roster engine: the monitor's            *)
(* handle_truck_event for a truck it just saw, or a background thread of   *)
(* the dashboard started by the redirect and initiate-autobuy endpoints.   *)
(* A walk (handle_truck_event) goes down the roster under the QUEUE_LOCK   *)
(* of its own process; a redirect to one organisation calls                *)
(* attempt_purchase directly, without that lock.  attempt_purchase checks  *)
(* the approval gate, records a purchase_attempts row and posts one        *)
(* checkout per card to the browser daemon, whose single worker thread     *)
(* drives them one after the other and gives up at the operator-abort      *)
(* checkpoints, but never after the Place Order click.  A caller may stop  *)
(* waiting while its checkout runs on, and every process may die.          *)
(*                                                                         *)
(* roster_orchestrator.py, good360_autobuy_v2.py, good360_daemon.py and    *)
(* the endpoints of missioncontrol/admin_routes.py.                        *)
(*                                                                         *)
(* Definitions named Slip... are plausible slips in the definition that    *)
(* follows them; no behaviour of Spec uses them.  Each makes TLC refute    *)
(* the property PROJECT.json pairs it with.                                *)
(***************************************************************************)
EXTENDS Integers, FiniteSets

CONSTANTS
  Orgs,             \* nonprofits of the roster
  Events,           \* truck_events rows
  Urls,             \* truck URLs, the keys of the purchase lock
  UrlOf,            \* UrlOf[e]: truck_url of event e
  Dispatches,       \* calls into the roster engine (each happens once)
  Processes,        \* "monitor" and the workers of the dashboard
  Process,          \* Process[d]: the process dispatch d runs in
  Cards,            \* Cards[o]: number of o's active payment methods
  MaxOrgsPerTruck,  \* config max_orgs_per_truck
  SteppedOver,      \* orgs that exclude the category or cap the price below
  AlertOnly,        \* orgs whose category preference has auto-buy off
  OperatorActs,     \* which of OperatorKinds the operator may do
  Toggled,          \* bound: orgs whose Autobuy toggle the operator may flip
  Faults            \* which of FaultKinds may happen

FaultKinds == {"context", "timeout", "unreachable", "garbled", "misread",
               "daemon_death", "caller_death", "bookkeeping", "walk", "unlist",
               "abort_read"}

OperatorKinds == {"redirect", "initiate", "abort"}

ASSUME OrgsNonEmpty == Orgs # {}
ASSUME EventsNonEmpty == Events # {}
ASSUME UrlAssumption == UrlOf \in [Events -> Urls]
ASSUME ProcessAssumption == Process \in [Dispatches -> Processes]
ASSUME CardsAssumption == Cards \in [Orgs -> Nat]
ASSUME MaxOrgsAssumption == MaxOrgsPerTruck \in Nat \ {0}
ASSUME FlagsAssumption == /\ OperatorActs \subseteq OperatorKinds
                          /\ Toggled \subseteq Orgs
                          /\ Faults \subseteq FaultKinds

VARIABLES
  truck,     \* truck[e]: truck_events.status, "new" before the row exists
  autoBuy,   \* autoBuy[o]: roster nonprofits.auto_buy_global
  approved,  \* approved[o]: dashboard customer is active and in rotation
  cooling,   \* cooling[o]: roster status is 'cooldown'
  suspended, \* suspended[o]: history, card verdict not lifted by the operator
  halved,    \* halved[o]: history, a write of that suspension was lost
  pc,        \* pc[d]: where dispatch d is
  direct,    \* direct[d]: d is a redirect to one organisation
  event,     \* event[d]: the truck event d is about
  org,       \* org[d]: the organisation d is trying
  tried,     \* tried[d]: tried_org_ids
  attempts,  \* attempts[d]: attempts_made
  card,      \* card[d]: position in the card ladder
  declined,  \* declined[d]: saw_card_decline
  row,       \* row[d]: status of d's latest purchase_attempts row
  abort,     \* abort[d]: abort_requested of that row
  job,       \* job[d]: d's checkout in the daemon
  reply,     \* reply[d]: what the POST gave d
  recent,    \* recent[u]: the lock's dedup window over u is open
  orders,    \* orders[d]: orders placed on Good360 by d's checkouts
  denied,    \* denied[d]: history, those of them d was told did not happen
  billed     \* billed[d]: finding fee recorded for d's success

roster == <<autoBuy, approved, cooling, suspended, halved>>
stores == <<truck, roster, billed>>
walk == <<direct, event, org, tried, attempts>>
ladder == <<card, declined, row, abort>>
daemon == <<job, reply, recent, orders, denied>>
vars == <<truck, autoBuy, approved, cooling, suspended, halved, pc, direct,
          event, org, tried, attempts, card, declined, row, abort, job, reply,
          recent, orders, denied, billed>>

Stages == {"idle", "queued", "pick", "enter", "record", "record_alert",
           "alert", "ladder", "waiting", "cooldown", "mark", "bill",
           "suspend", "unlist", "miss", "advance", "done", "raised", "dead"}
Finished == {"idle", "done", "raised", "dead"}
Suspending == {"suspend", "unlist"}
RowStatus == {"none", "in_progress", "success", "failed_payment",
              "failed_checkout", "truck_gone", "alerted_manual",
              "aborted_operator"}
Verdicts == {"SUCCESS", "CARD_DECLINED", "MISSED", "MANUAL", "FAILED",
             "ABORTED", "SKIPPED"}

TypeOK ==
  /\ truck \in [Events -> {"new", "detected", "assigned", "purchased", "missed"}]
  /\ autoBuy \in [Orgs -> BOOLEAN]
  /\ approved \in [Orgs -> BOOLEAN]
  /\ cooling \in [Orgs -> BOOLEAN]
  /\ suspended \in [Orgs -> BOOLEAN]
  /\ halved \in [Orgs -> BOOLEAN]
  /\ pc \in [Dispatches -> Stages]
  /\ direct \in [Dispatches -> BOOLEAN]
  /\ event \in [Dispatches -> Events]
  /\ org \in [Dispatches -> Orgs]
  /\ tried \in [Dispatches -> SUBSET Orgs]
  /\ attempts \in [Dispatches -> Nat]
  /\ card \in [Dispatches -> Nat]
  /\ declined \in [Dispatches -> BOOLEAN]
  /\ row \in [Dispatches -> RowStatus]
  /\ abort \in [Dispatches -> BOOLEAN]
  /\ job \in [Dispatches -> {"none", "queued", "running", "placed", "unplaced"}]
  /\ reply \in [Dispatches -> {"none", "unreachable", "garbled"} \cup Verdicts]
  /\ recent \in [Urls -> BOOLEAN]
  /\ orders \in [Dispatches -> Nat]
  /\ denied \in [Dispatches -> Nat]
  /\ billed \in [Dispatches -> BOOLEAN]

(* Event and org of an idle dispatch are placeholders; the roster starts    *)
(* with every organisation approved and in rotation.                       *)
Init ==
  /\ truck = [e \in Events |-> "new"]
  /\ autoBuy = [o \in Orgs |-> TRUE]
  /\ approved = [o \in Orgs |-> TRUE]
  /\ cooling = [o \in Orgs |-> FALSE]
  /\ suspended = [o \in Orgs |-> FALSE]
  /\ halved = [o \in Orgs |-> FALSE]
  /\ pc = [d \in Dispatches |-> "idle"]
  /\ direct = [d \in Dispatches |-> FALSE]
  /\ event = [d \in Dispatches |-> CHOOSE e \in Events : TRUE]
  /\ org = [d \in Dispatches |-> CHOOSE o \in Orgs : TRUE]
  /\ tried = [d \in Dispatches |-> {}]
  /\ attempts = [d \in Dispatches |-> 0]
  /\ card = [d \in Dispatches |-> 0]
  /\ declined = [d \in Dispatches |-> FALSE]
  /\ row = [d \in Dispatches |-> "none"]
  /\ abort = [d \in Dispatches |-> FALSE]
  /\ job = [d \in Dispatches |-> "none"]
  /\ reply = [d \in Dispatches |-> "none"]
  /\ recent = [u \in Urls |-> FALSE]
  /\ orders = [d \in Dispatches |-> 0]
  /\ denied = [d \in Dispatches |-> 0]
  /\ billed = [d \in Dispatches |-> FALSE]

-----------------------------------------------------------------------------
(* Dispatching.                                                            *)

Goto(d, stage) == pc' = [pc EXCEPT ![d] = stage]
SetTruck(e, status) == truck' = [truck EXCEPT ![e] = status]
Sibling(d) == {c \in Dispatches \ {d} : Process[c] = Process[d]}

(* A walk holds the QUEUE_LOCK of its process from the status check on.    *)
Walking(d) == ~direct[d] /\ pc[d] \notin Finished \cup {"queued"}

(* REDIRECT_INFLIGHT_SQL counts in_progress rows of the truck.             *)
NoAttemptInFlight(e) ==
  \A d \in Dispatches : ~(event[d] = e /\ row[d] = "in_progress")

Begin(d, e, stage) ==
  /\ pc[d] = "idle"
  /\ Goto(d, stage)
  /\ event' = [event EXCEPT ![d] = e]
  /\ UNCHANGED <<roster, billed, tried, attempts, ladder, daemon>>

(* The monitor's scan loop logs a truck event and walks the roster before   *)
(* it looks at the next truck: one thread, one dispatch at a time.         *)
MonitorDispatch(d, e) ==
  /\ Process[d] = "monitor"
  /\ \A c \in Sibling(d) : pc[c] \in Finished
  /\ truck[e] = "new"
  /\ SetTruck(e, "detected")
  /\ Begin(d, e, "queued")
  /\ UNCHANGED <<direct, org>>

(* initiate-autobuy for a URL without a live event inserts one.            *)
InitiateFresh(d, e) ==
  /\ "initiate" \in OperatorActs
  /\ Process[d] # "monitor"
  /\ truck[e] = "new"
  /\ \A f \in Events :
       UrlOf[f] = UrlOf[e] => truck[f] \notin {"detected", "assigned"}
  /\ SetTruck(e, "detected")
  /\ Begin(d, e, "queued")
  /\ UNCHANGED <<direct, org>>

(* redirect next_in_queue, and initiate-autobuy for a URL with a live       *)
(* event: no attempt in flight, the event goes back to detected, a thread   *)
(* walks the roster.                                                       *)
RedirectToQueue(d, e) ==
  /\ OperatorActs \cap {"redirect", "initiate"} # {}
  /\ Process[d] # "monitor"
  /\ truck[e] \in {"detected", "assigned"}
  /\ NoAttemptInFlight(e)
  /\ SetTruck(e, "detected")
  /\ Begin(d, e, "queued")
  /\ UNCHANGED <<direct, org>>

(* redirect to one approved organisation: the event keeps its status.      *)
RedirectToOrg(d, e, o) ==
  /\ "redirect" \in OperatorActs
  /\ Process[d] # "monitor"
  /\ truck[e] \in {"detected", "assigned"}
  /\ NoAttemptInFlight(e)
  /\ approved[o]
  /\ Begin(d, e, "enter")
  /\ direct' = [direct EXCEPT ![d] = TRUE]
  /\ org' = [org EXCEPT ![d] = o]
  /\ UNCHANGED truck

-----------------------------------------------------------------------------
(* handle_truck_event: the walk down the roster.                           *)

(* with QUEUE_LOCK, then the status check under it.                        *)
EnterQueue(d) ==
  /\ pc[d] = "queued"
  /\ \A c \in Sibling(d) : ~Walking(c)
  /\ Goto(d, IF truck[event[d]] = "detected" THEN "pick" ELSE "done")
  /\ UNCHANGED <<stores, walk, ladder, daemon>>

(* find_next_available_org, in whatever order the queue is (RosterQueue     *)
(* models that order).                                                     *)
Eligible(d) ==
  {o \in Orgs \ tried[d] : autoBuy[o] /\ ~cooling[o]}

Exhausted(d) ==
  /\ pc[d] = "pick"
  /\ Eligible(d) = {}
  /\ SetTruck(event[d], "missed")
  /\ Goto(d, "done")
  /\ UNCHANGED <<roster, billed, walk, ladder, daemon>>

StepOver(d, o) ==
  /\ pc[d] = "pick"
  /\ o \in Eligible(d) \cap SteppedOver
  /\ tried' = [tried EXCEPT ![d] = @ \cup {o}]
  /\ UNCHANGED <<stores, pc, direct, event, org, attempts, ladder, daemon>>

(* The truck is left assigned to the organisation, which buys by hand.     *)
HandOver(d, o) ==
  /\ pc[d] = "pick"
  /\ o \in Eligible(d) \cap AlertOnly
  /\ SetTruck(event[d], "assigned")
  /\ Goto(d, "done")
  /\ UNCHANGED <<roster, billed, walk, ladder, daemon>>

Assign(d, o) ==
  /\ pc[d] = "pick"
  /\ o \in Eligible(d) \ (SteppedOver \cup AlertOnly)
  /\ SetTruck(event[d], "assigned")
  /\ org' = [org EXCEPT ![d] = o]
  /\ Goto(d, "enter")
  /\ UNCHANGED <<roster, billed, direct, event, tried, attempts, ladder,
                 daemon>>

(* Slip: the organisation is not excluded from the next pick. *)
SlipAdvance(d) ==
  /\ pc[d] = "advance"
  /\ \/ /\ direct[d]
        /\ Goto(d, "done")
        /\ UNCHANGED <<truck, tried, attempts>>
     \/ /\ ~direct[d]
        /\ attempts' = [attempts EXCEPT ![d] = @ + 1]
        /\ tried' = tried
        /\ \/ /\ attempts[d] + 1 >= MaxOrgsPerTruck
              /\ SetTruck(event[d], "missed")
              /\ Goto(d, "done")
           \/ /\ attempts[d] + 1 < MaxOrgsPerTruck
              /\ Goto(d, "pick")
              /\ UNCHANGED truck
  /\ UNCHANGED <<roster, billed, direct, event, org, ladder, daemon>>

(* A retryable result: a redirect ends there, a walk excludes the           *)
(* organisation and goes on unless it has made its last attempt.           *)
Advance(d) ==
  /\ pc[d] = "advance"
  /\ \/ /\ direct[d]
        /\ Goto(d, "done")
        /\ UNCHANGED <<truck, tried, attempts>>
     \/ /\ ~direct[d]
        /\ attempts' = [attempts EXCEPT ![d] = @ + 1]
        /\ tried' = [tried EXCEPT ![d] = @ \cup {org[d]}]
        /\ \/ /\ attempts[d] + 1 >= MaxOrgsPerTruck
              /\ SetTruck(event[d], "missed")
              /\ Goto(d, "done")
           \/ /\ attempts[d] + 1 < MaxOrgsPerTruck
              /\ Goto(d, "pick")
              /\ UNCHANGED truck
  /\ UNCHANGED <<roster, billed, direct, event, org, ladder, daemon>>

-----------------------------------------------------------------------------
(* attempt_purchase: context, approval gate, purchase_attempts row.        *)

(* _live_purchase_approval_blocker: the dashboard has the last word.        *)
Blocked(o) == ~approved[o]

(* load_org_context finds no customer, credentials or usable card: a        *)
(* ValueError.  The queries of the approval gate fail closed likewise.     *)
ContextRefused == "context" \in Faults

(* The request for a QuickBeed customer's data raises something else.       *)
ContextRaises == "context" \in Faults

(* A refusal gives failed_checkout without a row, any other exception       *)
(* leaves the whole call.                                                  *)
EnterAttempt(d) ==
  /\ pc[d] = "enter"
  /\ \/ /\ ~Blocked(org[d])
        /\ Goto(d, IF autoBuy[org[d]] THEN "record" ELSE "record_alert")
     \/ /\ Blocked(org[d]) \/ ContextRefused
        /\ Goto(d, "advance")
     \/ /\ ContextRaises
        /\ Goto(d, "raised")
  /\ UNCHANGED <<stores, walk, ladder, daemon>>

(* One transaction: the event is assigned, whatever its status was, and    *)
(* the row inserted in_progress.                                           *)
Record(d) ==
  /\ pc[d] \in {"record", "record_alert"}
  /\ SetTruck(event[d], "assigned")
  /\ row' = [row EXCEPT ![d] = "in_progress"]
  /\ abort' = [abort EXCEPT ![d] = FALSE]
  /\ card' = [card EXCEPT ![d] = 1]
  /\ declined' = [declined EXCEPT ![d] = FALSE]
  /\ Goto(d, IF pc[d] = "record" THEN "ladder" ELSE "alert")
  /\ UNCHANGED <<roster, billed, walk, daemon>>

(* The transaction fails and rolls back.                                   *)
RecordFails(d) ==
  /\ "bookkeeping" \in Faults
  /\ pc[d] \in {"record", "record_alert"}
  /\ Goto(d, "advance")
  /\ UNCHANGED <<stores, walk, ladder, daemon>>

(* auto_buy_global was off when the context was loaded: alert, no checkout. *)
Alert(d) ==
  /\ pc[d] = "alert"
  /\ row' = [row EXCEPT ![d] = "alerted_manual"]
  /\ Goto(d, "done")
  /\ UNCHANGED <<stores, walk, card, declined, abort, daemon>>

-----------------------------------------------------------------------------
(* The card ladder: one POST per card, the row rewritten after each.       *)

PostCheckout(d) ==
  /\ pc[d] = "ladder"
  /\ card[d] <= Cards[org[d]]
  /\ Goto(d, "waiting")
  /\ \/ /\ job' = [job EXCEPT ![d] = "queued"]
        /\ UNCHANGED reply
     \/ /\ "unreachable" \in Faults
        /\ reply' = [reply EXCEPT ![d] = "unreachable"]
        /\ UNCHANGED job
  /\ UNCHANGED <<stores, walk, ladder, recent, orders, denied>>

(* Slip: a read timeout counts as a failed checkout. *)
SlipCallerTimeout(d) ==
  /\ "timeout" \in Faults
  /\ pc[d] = "waiting" /\ reply[d] = "none"
  /\ reply' = [reply EXCEPT ![d] = "FAILED"]
  /\ UNCHANGED <<stores, pc, walk, ladder, job, recent, orders, denied>>

(* The read timeout of the POST: the caller gives up, the checkout goes on. *)
CallerTimeout(d) ==
  /\ "timeout" \in Faults
  /\ pc[d] = "waiting" /\ reply[d] = "none"
  /\ reply' = [reply EXCEPT ![d] = "unreachable"]
  /\ UNCHANGED <<stores, pc, walk, ladder, job, recent, orders, denied>>

SetRow(d, status) == row' = [row EXCEPT ![d] = status]
TakeReply(d) == reply' = [reply EXCEPT ![d] = "none"]

(* Slip: an unclear result page is taken for a purchase. *)
SlipBought(d) ==
  /\ pc[d] = "waiting" /\ reply[d] \in {"SUCCESS", "MANUAL"}
  /\ SetRow(d, "success")
  /\ TakeReply(d)
  /\ Goto(d, "cooldown")
  /\ UNCHANGED <<stores, walk, card, declined, abort, job, recent, orders,
                 denied>>

Bought(d) ==
  /\ pc[d] = "waiting" /\ reply[d] = "SUCCESS"
  /\ SetRow(d, "success")
  /\ TakeReply(d)
  /\ Goto(d, "cooldown")
  /\ UNCHANGED <<stores, walk, card, declined, abort, job, recent, orders,
                 denied>>

(* Slip: an abort is a retryable result. *)
SlipAbortedByOperator(d) ==
  /\ pc[d] = "waiting" /\ reply[d] = "ABORTED"
  /\ SetRow(d, "aborted_operator")
  /\ TakeReply(d)
  /\ Goto(d, "advance")
  /\ UNCHANGED <<stores, walk, card, declined, abort, job, recent, orders,
                 denied>>

(* An operator abort stops the ladder and the walk; the truck stays         *)
(* assigned for the operator.                                              *)
AbortedByOperator(d) ==
  /\ pc[d] = "waiting" /\ reply[d] = "ABORTED"
  /\ SetRow(d, "aborted_operator")
  /\ TakeReply(d)
  /\ Goto(d, "done")
  /\ UNCHANGED <<stores, walk, card, declined, abort, job, recent, orders,
                 denied>>

(* Slip: an unknown order state is one more failed card. *)
SlipUnreachable(d) ==
  /\ pc[d] = "waiting" /\ reply[d] = "unreachable"
  /\ SetRow(d, "failed_checkout")
  /\ card' = [card EXCEPT ![d] = @ + 1]
  /\ TakeReply(d)
  /\ Goto(d, "ladder")
  /\ UNCHANGED <<stores, walk, declined, abort, job, recent, orders, denied>>

(* daemon_unreachable: the order state is unknown, so neither another card  *)
(* nor another organisation is tried.  The reply is kept as a mark.        *)
Unreachable(d) ==
  /\ pc[d] = "waiting" /\ reply[d] = "unreachable"
  /\ SetRow(d, "failed_checkout")
  /\ Goto(d, "done")
  /\ UNCHANGED <<stores, walk, card, declined, abort, daemon>>

Refusal == {"CARD_DECLINED", "MISSED", "MANUAL", "FAILED", "SKIPPED", "garbled"}

(* _is_card_decline looks for words in the message, so the text of an       *)
(* exception (a selector of the cvv field, say) may pass for a decline.    *)
ReadsAsDecline(verdict) ==
  CASE verdict = "CARD_DECLINED" -> {TRUE}
    [] verdict = "FAILED" -> BOOLEAN
    [] OTHER -> {FALSE}

(* Any other verdict, sold out and needs-review included, fails the card:   *)
(* the row gets the mapped status and the ladder goes on.  So does a reply  *)
(* that cannot be read, whatever the checkout came to.                     *)
FailedRow(verdict) ==
  CASE verdict = "MISSED" -> "truck_gone"
    [] verdict = "MANUAL" -> "alerted_manual"
    [] OTHER -> "failed_payment"

(* Slip: the ladder never moves to the next card. *)
SlipCardFails(d) ==
  /\ pc[d] = "waiting"
  /\ reply[d] \in Refusal
  /\ SetRow(d, FailedRow(reply[d]))
  /\ \E said \in ReadsAsDecline(reply[d]) :
       declined' = [declined EXCEPT ![d] = @ \/ said]
  /\ card' = [card EXCEPT ![d] = @]
  /\ TakeReply(d)
  /\ Goto(d, "ladder")
  /\ UNCHANGED <<stores, walk, abort, job, recent, orders, denied>>

CardFails(d) ==
  /\ pc[d] = "waiting"
  /\ reply[d] \in Refusal
  /\ SetRow(d, FailedRow(reply[d]))
  /\ \E said \in ReadsAsDecline(reply[d]) :
       declined' = [declined EXCEPT ![d] = @ \/ said]
  /\ card' = [card EXCEPT ![d] = @ + 1]
  /\ TakeReply(d)
  /\ Goto(d, "ladder")
  /\ UNCHANGED <<stores, walk, abort, job, recent, orders, denied>>

(* A card verdict in this ladder is one suspension due.                    *)
LadderEnds(d) ==
  /\ pc[d] = "ladder"
  /\ card[d] > Cards[org[d]]
  /\ SetRow(d, "failed_payment")
  /\ suspended' = [suspended EXCEPT ![org[d]] = @ \/ declined[d]]
  /\ Goto(d, IF declined[d] THEN "suspend" ELSE "miss")
  /\ UNCHANGED <<truck, autoBuy, approved, cooling, halved, billed, walk, card,
                 declined, abort, daemon>>

Lose(o) == halved' = [halved EXCEPT ![o] = TRUE]

(* One-failure policy: the roster half of the suspension.  A write that     *)
(* raises is only logged; then the dashboard is not told either.           *)
SuspendRoster(d) ==
  /\ pc[d] = "suspend"
  /\ \/ /\ autoBuy' = [autoBuy EXCEPT ![org[d]] = FALSE]
        /\ Goto(d, "unlist")
        /\ UNCHANGED halved
     \/ /\ "unlist" \in Faults
        /\ Lose(org[d])
        /\ Goto(d, "miss")
        /\ UNCHANGED autoBuy
  /\ UNCHANGED <<truck, approved, cooling, suspended, billed, walk, ladder,
                 daemon>>

(* Slip: only the roster is told. *)
SlipSuspendDashboard(d) ==
  /\ pc[d] = "unlist"
  /\ Goto(d, "miss")
  /\ UNCHANGED <<truck, roster, billed, walk, ladder, daemon>>

(* The dashboard half, best effort.                                        *)
SuspendDashboard(d) ==
  /\ pc[d] = "unlist"
  /\ \/ approved' = [approved EXCEPT ![org[d]] = FALSE] /\ UNCHANGED halved
     \/ "unlist" \in Faults /\ Lose(org[d]) /\ UNCHANGED approved
  /\ Goto(d, "miss")
  /\ UNCHANGED <<truck, autoBuy, cooling, suspended, billed, walk, ladder,
                 daemon>>

MarkMissed(d) ==
  /\ pc[d] = "miss"
  /\ SetTruck(event[d], "missed")
  /\ Goto(d, "advance")
  /\ UNCHANGED <<roster, billed, walk, ladder, daemon>>

-----------------------------------------------------------------------------
(* Bookkeeping of a success: three commits after the row's own.            *)

(* Slip: the cooldown is not written. *)
SlipApplyCooldown(d) ==
  /\ pc[d] = "cooldown"
  /\ cooling' = cooling
  /\ Goto(d, "mark")
  /\ UNCHANGED <<truck, autoBuy, approved, suspended, halved, billed, walk,
                 ladder, daemon>>

ApplyCooldown(d) ==
  /\ pc[d] = "cooldown"
  /\ cooling' = [cooling EXCEPT ![org[d]] = TRUE]
  /\ Goto(d, "mark")
  /\ UNCHANGED <<truck, autoBuy, approved, suspended, halved, billed, walk,
                 ladder, daemon>>

(* Slip: the fee is forgotten. *)
SlipMarkPurchased(d) ==
  /\ pc[d] = "mark"
  /\ SetTruck(event[d], "purchased")
  /\ Goto(d, "done")
  /\ UNCHANGED <<roster, billed, walk, ladder, daemon>>

MarkPurchased(d) ==
  /\ pc[d] = "mark"
  /\ SetTruck(event[d], "purchased")
  /\ Goto(d, "bill")
  /\ UNCHANGED <<roster, billed, walk, ladder, daemon>>

(* Slip: no return after the success branch. *)
SlipRecordFindingFee(d) ==
  /\ pc[d] = "bill"
  /\ billed' = [billed EXCEPT ![d] = TRUE]
  /\ Goto(d, "miss")
  /\ UNCHANGED <<truck, roster, walk, ladder, daemon>>

RecordFindingFee(d) ==
  /\ pc[d] = "bill"
  /\ billed' = [billed EXCEPT ![d] = TRUE]
  /\ Goto(d, "done")
  /\ UNCHANGED <<truck, roster, walk, ladder, daemon>>

(* A commit raises (database locked), the one that records the result on    *)
(* the attempt's row among them: nothing catches it inside the engine, the *)
(* whole call ends there and what it had not written stays unwritten.      *)
BookkeepingFails(d) ==
  /\ \/ /\ "bookkeeping" \in Faults
        /\ \/ pc[d] \in {"alert", "miss", "cooldown", "mark", "bill"}
           \/ pc[d] = "waiting" /\ reply[d] # "none"
           \/ pc[d] = "ladder" /\ card[d] > Cards[org[d]]
     \/ /\ "walk" \in Faults
        /\ pc[d] = "pick" \/ (pc[d] = "advance" /\ ~direct[d])
  /\ Goto(d, "raised")
  /\ UNCHANGED <<stores, walk, ladder, daemon>>

-----------------------------------------------------------------------------
(* The daemon: one browser worker; jobs of callers that have gone run too.  *)

WorkerIdle == \A d \in Dispatches : job[d] \in {"none", "queued"}

Waits(d) == pc[d] = "waiting" /\ reply[d] = "none"

(* A checkout leaves the purchase lock, which opens the dedup window, and   *)
(* its verdict reaches the caller if the caller still waits: unless the     *)
(* response breaks off or cannot be parsed.                                *)
EndJob(d, verdict) ==
  /\ job' = [job EXCEPT ![d] = "none"]
  /\ recent' = [recent EXCEPT ![UrlOf[event[d]]] = TRUE]
  /\ \/ /\ ~Waits(d)
        /\ UNCHANGED <<reply, denied>>
     \/ /\ Waits(d)
        /\ \E answer \in {verdict} \cup ({"garbled"} \cap Faults) :
             /\ reply' = [reply EXCEPT ![d] = answer]
             /\ denied' = IF job[d] = "placed" /\ answer # "SUCCESS"
                             THEN [denied EXCEPT ![d] = @ + 1] ELSE denied
  /\ UNCHANGED <<stores, pc, walk, ladder, orders>>

(* The worker takes a job; inside an open window the lock refuses it.      *)
StartJob(d) ==
  /\ job[d] = "queued" /\ WorkerIdle
  /\ ~recent[UrlOf[event[d]]]
  /\ job' = [job EXCEPT ![d] = "running"]
  /\ UNCHANGED <<stores, pc, walk, ladder, reply, recent, orders, denied>>

SkipJob(d) ==
  /\ job[d] = "queued" /\ WorkerIdle
  /\ recent[UrlOf[event[d]]]
  /\ EndJob(d, "SKIPPED")

(* Login, page or form trouble, or sold out, before Place Order.           *)
FailJob(d) ==
  /\ job[d] = "running"
  /\ \E verdict \in {"FAILED", "MISSED"} : EndJob(d, verdict)

(* An abort checkpoint sees the flag.                                      *)
AbortJob(d) ==
  /\ job[d] = "running"
  /\ abort[d]
  /\ EndJob(d, "ABORTED")

(* The last checkpoint, then the click, which places the order or not.  The *)
(* checkpoint fails open: an unreadable flag counts as no abort.           *)
ClickPlaceOrder(d) ==
  /\ job[d] = "running"
  /\ ~abort[d] \/ "abort_read" \in Faults
  /\ \/ /\ job' = [job EXCEPT ![d] = "placed"]
        /\ orders' = [orders EXCEPT ![d] = @ + 1]
     \/ /\ job' = [job EXCEPT ![d] = "unplaced"]
        /\ UNCHANGED orders
  /\ UNCHANGED <<stores, pc, walk, ladder, reply, recent, denied>>

(* The page after the click.  An order that went through normally shows a   *)
(* success page, but it may go unrecognised: a page without the marks is    *)
(* read as anything else, and an exception of the click is FAILED.         *)
ReadPage(d) ==
  \/ /\ job[d] = "placed"
     /\ EndJob(d, "SUCCESS")
  \/ /\ job[d] = "unplaced" \/ (job[d] = "placed" /\ "misread" \in Faults)
     /\ \E verdict \in {"CARD_DECLINED", "MISSED", "MANUAL", "FAILED"} :
          EndJob(d, verdict)

(* The container restarts (self-watchdog, self-heal): jobs vanish, flocks   *)
(* are dropped without touching the window, waiting callers get a           *)
(* ConnectionError.                                                        *)
DaemonDeath ==
  /\ "daemon_death" \in Faults
  /\ \E d \in Dispatches : job[d] # "none"
  /\ job' = [d \in Dispatches |-> "none"]
  /\ reply' = [d \in Dispatches |->
                 IF Waits(d) THEN "unreachable" ELSE reply[d]]
  /\ UNCHANGED <<stores, pc, walk, ladder, recent, orders, denied>>

WindowExpires(u) ==
  /\ recent[u]
  /\ recent' = [recent EXCEPT ![u] = FALSE]
  /\ UNCHANGED <<stores, pc, walk, ladder, job, reply, orders, denied>>

-----------------------------------------------------------------------------
(* The operator, the sync and the repair jobs.                             *)

(* A process restarts: its dispatches are gone, their rows stay, and a      *)
(* suspension that was due is lost.                                        *)
CallerDeath(p) ==
  /\ "caller_death" \in Faults
  /\ \E d \in Dispatches : Process[d] = p /\ pc[d] \notin Finished
  /\ pc' = [d \in Dispatches |->
              IF Process[d] = p /\ pc[d] \notin Finished THEN "dead" ELSE pc[d]]
  /\ halved' = [o \in Orgs |->
                  \/ halved[o]
                  \/ \E d \in Dispatches :
                       Process[d] = p /\ pc[d] \in Suspending /\ org[d] = o]
  /\ UNCHANGED <<truck, autoBuy, approved, cooling, suspended, billed, walk,
                 ladder, daemon>>

(* self_heal.py fails attempts left in_progress for hours.                 *)
HealStaleAttempt(d) ==
  /\ pc[d] \in {"dead", "raised"} /\ job[d] = "none"
  /\ row[d] = "in_progress"
  /\ SetRow(d, "failed_checkout")
  /\ UNCHANGED <<stores, pc, walk, card, declined, abort, daemon>>

(* The abort endpoint: only while the row is in_progress.                  *)
RequestAbort(d) ==
  /\ "abort" \in OperatorActs
  /\ row[d] = "in_progress" /\ ~abort[d]
  /\ abort' = [abort EXCEPT ![d] = TRUE]
  /\ UNCHANGED <<stores, pc, walk, card, declined, row, daemon>>

(* The customer's Autobuy toggle, dashboard side; turning it on is what     *)
(* lifts a suspension.                                                     *)
ToggleRotation(o) ==
  /\ o \in Toggled
  /\ approved' = [approved EXCEPT ![o] = ~@]
  /\ suspended' = [suspended EXCEPT ![o] = @ /\ approved[o]]
  /\ halved' = [halved EXCEPT ![o] = FALSE]
  /\ UNCHANGED <<truck, autoBuy, cooling, billed, pc, walk, ladder, daemon>>

(* sync_to_roster copies the dashboard's eligibility to the roster.        *)
SyncRoster ==
  /\ autoBuy # approved
  /\ autoBuy' = approved
  /\ UNCHANGED <<truck, approved, cooling, suspended, halved, billed, pc,
                 walk, ladder, daemon>>

-----------------------------------------------------------------------------
Dispatch(d) ==
  \E e \in Events :
    \/ MonitorDispatch(d, e) \/ InitiateFresh(d, e) \/ RedirectToQueue(d, e)
    \/ \E o \in Orgs : RedirectToOrg(d, e, o)

(* What the thread of dispatch d does by itself.                           *)
CallerStep(d) ==
  \/ EnterQueue(d) \/ Exhausted(d)
  \/ \E o \in Orgs : StepOver(d, o) \/ HandOver(d, o) \/ Assign(d, o)
  \/ Advance(d) \/ EnterAttempt(d) \/ Record(d) \/ Alert(d)
  \/ PostCheckout(d) \/ Bought(d) \/ AbortedByOperator(d) \/ Unreachable(d)
  \/ CardFails(d) \/ LadderEnds(d) \/ SuspendRoster(d) \/ SuspendDashboard(d)
  \/ MarkMissed(d) \/ ApplyCooldown(d) \/ MarkPurchased(d)
  \/ RecordFindingFee(d)

JobStep(d) ==
  StartJob(d) \/ SkipJob(d) \/ FailJob(d) \/ AbortJob(d)
  \/ ClickPlaceOrder(d) \/ ReadPage(d)

Failure(d) == CallerTimeout(d) \/ RecordFails(d) \/ BookkeepingFails(d)

Operator ==
  \/ \E d \in Dispatches : RequestAbort(d)
  \/ \E o \in Orgs : ToggleRotation(o)

Next ==
  \/ \E d \in Dispatches :
       Dispatch(d) \/ CallerStep(d) \/ JobStep(d) \/ Failure(d)
       \/ HealStaleAttempt(d)
  \/ \E p \in Processes : CallerDeath(p)
  \/ \E u \in Urls : WindowExpires(u)
  \/ DaemonDeath \/ Operator \/ SyncRoster

(* A live thread runs on, and the daemon's worker ends every job (the       *)
(* self-watchdog kills one that exceeds the cap).  Nothing else is forced:  *)
(* dispatches, faults, the operator and the sync happen or not.            *)
Fairness == \A d \in Dispatches : WF_vars(CallerStep(d)) /\ WF_vars(JobStep(d))

Spec == Init /\ [][Next]_vars /\ Fairness

-----------------------------------------------------------------------------
(* A dispatch orders a second time only after the browser told it of an     *)
(* order that it had not happened, however many cards and organisations it *)
(* goes through and although callers give up while their checkout still    *)
(* runs: the double purchase the daemon_unreachable branch of              *)
(* attempt_purchase is there to prevent.                                   *)
AtMostOneOrder == \A d \in Dispatches : orders[d] <= 1 + denied[d]

(* No order is lost in silence: unless its caller was told it had not       *)
(* happened, the checkout that placed it is still on the result page, or   *)
(* its verdict is on its way, or the row says success, or the dispatch      *)
(* visibly lost the daemon, raised or died.                                *)
OrderIsAccountedFor ==
  \A d \in Dispatches : orders[d] > denied[d] =>
    \/ job[d] = "placed" \/ reply[d] \in {"SUCCESS", "unreachable"}
    \/ row[d] = "success" \/ pc[d] \in {"dead", "raised"}

(* A truck the roster shows as purchased was bought by somebody: one of its *)
(* dispatches placed an order and recorded it.                             *)
PurchasedTruckHasOrder ==
  \A e \in Events : truck[e] = "purchased" =>
    \E d \in Dispatches : event[d] = e /\ row[d] = "success" /\ orders[d] > 0

(* What a dispatch has told its caller so far.                             *)
Answer(d) ==
  IF pc[d] = "idle" THEN "idle"
  ELSE IF pc[d] \in {"dead", "raised"} THEN "unsure"
  ELSE IF pc[d] # "done" THEN "open"
  ELSE IF row[d] = "success" THEN "bought"
  ELSE IF reply[d] = "unreachable" THEN "unsure" ELSE "notbought"

Sale == INSTANCE TruckSale
          WITH Calls <- Dispatches, sold <- orders, withheld <- denied,
               answer <- [d \in Dispatches |-> Answer(d)]

(* The engine keeps the promise of TruckSale to the monitor and the        *)
(* dashboard: "bought" means an order, "not bought" means none to come and *)
(* none but those the browser denied, and only a lost daemon, an exception *)
(* or a death leaves it open.                                              *)
KeepsSalePromise == Sale!Spec

(* Two walks of one process never run at the same time.                    *)
OneWalkPerProcess ==
  \A c, d \in Dispatches :
    Process[c] = Process[d] /\ Walking(c) /\ Walking(d) => c = d

(* A walk neither tries an organisation twice nor more organisations than   *)
(* configured, although its failures leave no trace in the queue.          *)
WalkAdvances ==
  \A d \in Dispatches :
    /\ attempts[d] <= Cardinality(tried[d])
    /\ pc[d] \in {"enter", "ladder", "waiting", "miss", "advance"} /\ ~direct[d]
       => org[d] \notin tried[d] /\ attempts[d] < MaxOrgsPerTruck

(* An operator abort is final: no order was placed by that attempt but what *)
(* the browser denied before, and the dispatch tries neither another card  *)
(* nor another organisation.                                               *)
AbortIsFinal ==
  [][\A d \in Dispatches : row[d] = "aborted_operator" =>
       /\ orders[d] = denied[d]
       /\ row'[d] = row[d] /\ job'[d] = "none" /\ tried'[d] = tried[d]
     ]_vars

(* One-failure policy: an organisation suspended for a card verdict does    *)
(* not pass the approval gate again before the operator lifts it, whatever  *)
(* concurrent syncs did to the roster's own flag in the meantime, unless a  *)
(* write of the suspension is still to come or was lost.                   *)
SuspensionHolds ==
  [][\A d \in Dispatches :
       pc[d] = "enter" /\ pc'[d] \in {"record", "record_alert"}
       /\ suspended[org[d]] =>
         \/ halved[org[d]]
         \/ \E c \in Dispatches : pc[c] \in Suspending /\ org[c] = org[d]
     ]_vars

(* A purchased truck loses that status only to another attempt on the same  *)
(* event that was under way when it was bought; never to the one that       *)
(* bought it, nor to a new dispatch.                                       *)
PurchasedIsFinal ==
  [][\A e \in Events : truck[e] = "purchased" /\ truck'[e] # "purchased" =>
       \E d \in Dispatches :
         event[d] = e /\ pc[d] \notin Finished \cup {"queued"} /\ row[d] # "success"
     ]_vars

(* An organisation rests after a purchase: no walk of any process assigns   *)
(* it another truck, unless its cooldown is not written yet or the call     *)
(* that bought for it did not live to write it.                            *)
RestAfterPurchase ==
  [][\A c, d \in Dispatches :
       /\ pc[d] = "pick" /\ pc'[d] = "enter"
       /\ row[c] = "success" /\ org[c] = org'[d]
       => pc[c] \in {"cooldown", "raised", "dead"}
     ]_vars

BrokeOff(d) == pc[d] \in {"raised", "dead"}

(* Every dispatch ends.                                                    *)
DispatchEnds ==
  \A d \in Dispatches : pc[d] # "idle" ~> pc[d] = "done" \/ BrokeOff(d)

(* A success that is not booked completely is still being booked or lost    *)
(* its call in the middle: whoever comes back with one has left the         *)
(* organisation cooling, the fee recorded and the truck purchased, unless   *)
(* another dispatch over the event has rewritten its status.               *)
SuccessIsBooked ==
  \A d \in Dispatches : row[d] = "success" /\ pc[d] = "done" =>
    /\ cooling[org[d]] /\ billed[d]
    /\ \/ truck[event[d]] = "purchased"
       \/ \E c \in Dispatches \ {d} : event[c] = event[d] /\ pc[c] # "idle"

-----------------------------------------------------------------------------
(* What the repository says of the engine, and the code does not do.       *)

(* "the next eligible org is tried immediately" (handle_truck_event), and   *)
(* the dedup window is there to block what was "just retriggered by         *)
(* overlapping scans" (purchase_lock.py): only another dispatch over the    *)
(* truck gets a checkout refused, never the walk's own previous one.       *)
WalkIsNotItsOwnDuplicate ==
  \A d \in Dispatches : reply[d] = "SKIPPED" =>
    \E c \in Dispatches \ {d} : pc[c] # "idle" /\ UrlOf[event[c]] = UrlOf[event[d]]
=============================================================================
