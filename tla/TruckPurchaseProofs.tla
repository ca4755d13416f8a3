------------------------ MODULE TruckPurchaseProofs ------------------------
(***************************************************************************)
(* What the purchase engine guarantees for any number of organisations,    *)
(* cards, trucks and concurrent dispatches: one dispatch never orders      *)
(* twice, no order disappears from the books unnoticed, a purchased truck  *)
(* has an order behind it, the QUEUE_LOCK serialises walks, and a card     *)
(* verdict keeps an organisation out until the operator lifts it.  The     *)
(* engine implements TruckSale; a walk gets on, an abort ends it, and a    *)
(* purchased truck stays purchased.                                        *)
(***************************************************************************)
EXTENDS TruckPurchase, FiniteSetTheorems, TLAPS

-----------------------------------------------------------------------------
(* Every step keeps every variable in its range.                           *)
LEMMA TypeStep == TypeOK /\ [Next]_vars => TypeOK'
<1> SUFFICES ASSUME TypeOK, [Next]_vars PROVE TypeOK'
  OBVIOUS
<1> USE UrlAssumption, CardsAssumption, MaxOrgsAssumption, FlagsAssumption
<1> USE DEF TypeOK, Stages, RowStatus, Verdicts, Finished, roster, stores, walk,
            ladder, daemon, Goto, SetTruck, SetRow, TakeReply, Waits, Lose
<1>1. ASSUME NEW d \in Dispatches, Dispatch(d) PROVE TypeOK'
  <2>1. ASSUME NEW e \in Events, MonitorDispatch(d, e) PROVE TypeOK'
    BY <2>1 DEF MonitorDispatch, Begin
  <2>2. ASSUME NEW e \in Events, InitiateFresh(d, e) PROVE TypeOK'
    BY <2>2 DEF InitiateFresh, Begin
  <2>3. ASSUME NEW e \in Events, RedirectToQueue(d, e) PROVE TypeOK'
    BY <2>3 DEF RedirectToQueue, Begin
  <2>4. ASSUME NEW e \in Events, NEW o \in Orgs, RedirectToOrg(d, e, o)
        PROVE  TypeOK'
    BY <2>4 DEF RedirectToOrg, Begin
  <2> QED
    BY <1>1, <2>1, <2>2, <2>3, <2>4 DEF Dispatch
<1>2. ASSUME NEW d \in Dispatches, CallerStep(d) PROVE TypeOK'
  <2>1. CASE EnterQueue(d)        BY <2>1 DEF EnterQueue
  <2>2. CASE Exhausted(d)         BY <2>2 DEF Exhausted
  <2>3. ASSUME NEW o \in Orgs, StepOver(d, o) PROVE TypeOK'
    BY <2>3 DEF StepOver
  <2>4. ASSUME NEW o \in Orgs, HandOver(d, o) PROVE TypeOK'
    BY <2>4 DEF HandOver
  <2>5. ASSUME NEW o \in Orgs, Assign(d, o) PROVE TypeOK'
    BY <2>5 DEF Assign
  <2>6. CASE Advance(d)
    <3>1. CASE direct[d]
      BY <2>6, <3>1 DEF Advance
    <3>2. CASE ~direct[d]
      <4>a. /\ attempts' = [attempts EXCEPT ![d] = @ + 1]
            /\ tried' = [tried EXCEPT ![d] = @ \cup {org[d]}]
        BY <2>6, <3>2 DEF Advance
      <4>b. /\ attempts \in [Dispatches -> Nat] /\ org[d] \in Orgs
            /\ tried \in [Dispatches -> SUBSET Orgs]
        OBVIOUS
      <4>1. attempts' \in [Dispatches -> Nat] /\ tried' \in [Dispatches -> SUBSET Orgs]
        <5> HIDE DEF TypeOK
        <5>1. attempts' \in [Dispatches -> Nat]
          BY <4>a, <4>b
        <5>2. tried' \in [Dispatches -> SUBSET Orgs]
          BY <4>a, <4>b
        <5> QED
          BY <5>1, <5>2
      <4>2. truck' \in [Events -> {"new", "detected", "assigned", "purchased",
                                   "missed"}]
        BY <2>6, <3>2 DEF Advance
      <4>3. pc' \in [Dispatches -> Stages]
        <5>1. pc' = [pc EXCEPT ![d] = "done"] \/ pc' = [pc EXCEPT ![d] = "pick"]
          BY <2>6, <3>2 DEF Advance
        <5>2. pc \in [Dispatches -> Stages] /\ {"done", "pick"} \subseteq Stages
          OBVIOUS
        <5> HIDE DEF TypeOK, Stages
        <5> QED
          BY <5>1, <5>2
      <4> QED
        BY <2>6, <3>2, <4>1, <4>2, <4>3 DEF Advance
    <3> QED
      BY <3>1, <3>2
  <2>7. CASE EnterAttempt(d)      BY <2>7 DEF EnterAttempt, Blocked, ContextRefused, ContextRaises
  <2>8. CASE Record(d)            BY <2>8 DEF Record
  <2>9. CASE Alert(d)             BY <2>9 DEF Alert
  <2>10. CASE PostCheckout(d)     BY <2>10 DEF PostCheckout
  <2>11. CASE Bought(d)           BY <2>11 DEF Bought
  <2>12. CASE AbortedByOperator(d) BY <2>12 DEF AbortedByOperator
  <2>13. CASE Unreachable(d)      BY <2>13 DEF Unreachable
  <2>14. CASE CardFails(d)
    <3>1. FailedRow(reply[d]) \in RowStatus
      BY DEF FailedRow
    <3>2. ReadsAsDecline(reply[d]) \subseteq BOOLEAN
      BY DEF ReadsAsDecline
    <3>3. PICK said \in ReadsAsDecline(reply[d]) :
            declined' = [declined EXCEPT ![d] = @ \/ said]
      BY <2>14 DEF CardFails
    <3>4. declined' \in [Dispatches -> BOOLEAN]
      BY <3>2, <3>3
    <3> QED
      BY <2>14, <3>1, <3>4 DEF CardFails
  <2>15. CASE LadderEnds(d)       BY <2>15 DEF LadderEnds
  <2>16. CASE SuspendRoster(d)    BY <2>16 DEF SuspendRoster
  <2>17. CASE SuspendDashboard(d) BY <2>17 DEF SuspendDashboard
  <2>18. CASE MarkMissed(d)       BY <2>18 DEF MarkMissed
  <2>19. CASE ApplyCooldown(d)    BY <2>19 DEF ApplyCooldown
  <2>20. CASE MarkPurchased(d)    BY <2>20 DEF MarkPurchased
  <2>21. CASE RecordFindingFee(d) BY <2>21 DEF RecordFindingFee
  <2> QED
    BY <1>2, <2>1, <2>2, <2>3, <2>4, <2>5, <2>6, <2>7, <2>8, <2>9, <2>10,
       <2>11, <2>12, <2>13, <2>14, <2>15, <2>16, <2>17, <2>18, <2>19, <2>20,
       <2>21 DEF CallerStep
<1>3. ASSUME NEW d \in Dispatches, JobStep(d) PROVE TypeOK'
  <2>e. ASSUME NEW verdict \in Verdicts, EndJob(d, verdict) PROVE TypeOK'
    <3>1. reply' \in [Dispatches -> {"none", "unreachable", "garbled"} \cup Verdicts]
      <4>1. \A a \in {verdict} \cup ({"garbled"} \cap Faults) :
              a \in {"none", "unreachable", "garbled"} \cup Verdicts
        OBVIOUS
      <4>2. \/ reply' = reply
            \/ \E a \in {verdict} \cup ({"garbled"} \cap Faults) :
                 reply' = [reply EXCEPT ![d] = a]
        BY <2>e DEF EndJob
      <4>3. reply \in [Dispatches -> {"none", "unreachable", "garbled"} \cup Verdicts]
        OBVIOUS
      <4> HIDE DEF TypeOK, Verdicts
      <4> QED
        BY <4>1, <4>2, <4>3
    <3>2. recent' \in [Urls -> BOOLEAN]
      BY <2>e DEF EndJob
    <3>3. denied' \in [Dispatches -> Nat]
      BY <2>e DEF EndJob
    <3>4. job' \in [Dispatches -> {"none", "queued", "running", "placed", "unplaced"}]
      BY <2>e DEF EndJob
    <3> QED
      BY <2>e, <3>1, <3>2, <3>3, <3>4 DEF EndJob
  <2>1. CASE StartJob(d)          BY <2>1 DEF StartJob
  <2>2. CASE SkipJob(d)           BY <2>2, <2>e DEF SkipJob
  <2>3. CASE FailJob(d)           BY <2>3, <2>e DEF FailJob
  <2>4. CASE AbortJob(d)          BY <2>4, <2>e DEF AbortJob
  <2>5. CASE ClickPlaceOrder(d)
    <3>1. orders' \in [Dispatches -> Nat]
      BY <2>5 DEF ClickPlaceOrder
    <3> QED
      BY <2>5, <3>1 DEF ClickPlaceOrder
  <2>6. CASE ReadPage(d)          BY <2>6, <2>e DEF ReadPage
  <2> QED
    BY <1>3, <2>1, <2>2, <2>3, <2>4, <2>5, <2>6 DEF JobStep
<1>4. ASSUME NEW d \in Dispatches, Failure(d) PROVE TypeOK'
  <2>1. CASE CallerTimeout(d)     BY <2>1 DEF CallerTimeout
  <2>2. CASE RecordFails(d)       BY <2>2 DEF RecordFails
  <2>3. CASE BookkeepingFails(d)  BY <2>3 DEF BookkeepingFails
  <2> QED
    BY <1>4, <2>1, <2>2, <2>3 DEF Failure
<1>5. ASSUME NEW d \in Dispatches, HealStaleAttempt(d) PROVE TypeOK'
  BY <1>5 DEF HealStaleAttempt
<1>6. ASSUME NEW p \in Processes, CallerDeath(p) PROVE TypeOK'
  BY <1>6 DEF CallerDeath
<1>7. ASSUME NEW u \in Urls, WindowExpires(u) PROVE TypeOK'
  BY <1>7 DEF WindowExpires
<1>8. CASE DaemonDeath
  BY <1>8 DEF DaemonDeath
<1>9. CASE Operator
  <2>1. ASSUME NEW d \in Dispatches, RequestAbort(d) PROVE TypeOK'
    BY <2>1 DEF RequestAbort
  <2>2. ASSUME NEW o \in Orgs, ToggleRotation(o) PROVE TypeOK'
    BY <2>2 DEF ToggleRotation
  <2> QED
    BY <1>9, <2>1, <2>2 DEF Operator
<1>10. CASE SyncRoster
  BY <1>10 DEF SyncRoster
<1>11. CASE UNCHANGED vars
  BY <1>11 DEF vars
<1> QED
  BY <1>1, <1>2, <1>3, <1>4, <1>5, <1>6, <1>7, <1>8, <1>9, <1>10, <1>11
  DEF Next

(* The variables stay in their ranges; in particular a walk never counts   *)
(* more attempts than max_orgs_per_truck.                                  *)
THEOREM TypeCorrect == Spec => []TypeOK
<1>1. Init => TypeOK
  <2> SUFFICES ASSUME Init PROVE TypeOK
    OBVIOUS
  <2>1. event \in [Dispatches -> Events]
    BY EventsNonEmpty DEF Init
  <2>2. org \in [Dispatches -> Orgs]
    BY OrgsNonEmpty DEF Init
  <2> QED
    BY <2>1, <2>2 DEF Init, TypeOK, Stages, RowStatus, Verdicts
<1> QED
  BY <1>1, TypeStep, PTL DEF Spec

-----------------------------------------------------------------------------
(* Orders.                                                                 *)

(* Where a dispatch has yet to post a checkout, or may post another one.   *)
MayPost == {"idle", "queued", "pick", "enter", "record", "record_alert",
            "alert", "ladder", "suspend", "unlist", "miss", "advance"}
Booking == {"cooldown", "mark", "bill"}
Refusals == (Verdicts \ {"SUCCESS"}) \cup {"garbled"}

(* The inductive core, per dispatch: whoever may still post has no order    *)
(* but those it was told had not happened, and nothing running; so has      *)
(* whoever got a verdict other than SUCCESS; what outlives the wait of its *)
(* caller is marked unreachable, unless the call itself broke off.         *)
OneOrder(d) ==
  /\ pc[d] \in MayPost =>
       /\ orders[d] = denied[d]
       /\ job[d] = "none" /\ reply[d] = "none" /\ row[d] # "success"
  /\ pc[d] = "waiting" =>
       /\ row[d] # "success"
       /\ reply[d] = "none" => job[d] # "none"
       /\ reply[d] \in Refusals => orders[d] = denied[d] /\ job[d] = "none"
       /\ reply[d] = "SUCCESS" => orders[d] = denied[d] + 1 /\ job[d] = "none"
  /\ pc[d] \in Booking => row[d] = "success"
  /\ pc[d] = "done" =>
       /\ job[d] # "none" => reply[d] = "unreachable"
       /\ orders[d] # denied[d] => row[d] = "success" \/ reply[d] = "unreachable"
  /\ row[d] = "success" => orders[d] = denied[d] + 1 /\ job[d] = "none"
  /\ job[d] \in {"queued", "running", "unplaced"} => orders[d] = denied[d]
  /\ job[d] = "placed" => orders[d] = denied[d] + 1
  /\ orders[d] \in {denied[d], denied[d] + 1}

OrderInv == TypeOK /\ \A d \in Dispatches : OneOrder(d)

LEMMA InitOrderInv == TypeOK /\ Init => OrderInv
  BY DEF Init, OrderInv, OneOrder, MayPost, Booking, Refusals, Verdicts

(* Every step keeps the invariant: one step of one dispatch, its job, or a  *)
(* death.                                                                  *)
LEMMA StepOrderInv == OrderInv /\ [Next]_vars => OrderInv'
<1> SUFFICES ASSUME OrderInv, [Next]_vars, TypeOK', NEW d \in Dispatches
             PROVE  OneOrder(d)'
  BY TypeStep DEF OrderInv
<1> USE DEF OrderInv, OneOrder, MayPost, Booking, Refusals, TypeOK, Stages,
            RowStatus, Verdicts, Finished, roster, stores, walk, ladder, daemon,
            Goto, SetTruck, SetRow, TakeReply, Waits, Lose
<1>1. ASSUME NEW c \in Dispatches, Dispatch(c) PROVE OneOrder(d)'
  BY <1>1 DEF Dispatch, MonitorDispatch, InitiateFresh, RedirectToQueue,
              RedirectToOrg, Begin
<1>2. ASSUME NEW c \in Dispatches, CallerStep(c) PROVE OneOrder(d)'
  <2>1. CASE EnterQueue(c)        BY <2>1 DEF EnterQueue
  <2>2. CASE Exhausted(c)         BY <2>2 DEF Exhausted
  <2>3. ASSUME NEW o \in Orgs, StepOver(c, o) \/ HandOver(c, o) \/ Assign(c, o)
        PROVE  OneOrder(d)'
    BY <2>3 DEF StepOver, HandOver, Assign
  <2>4. CASE Advance(c)           BY <2>4 DEF Advance
  <2>5. CASE EnterAttempt(c)      BY <2>5 DEF EnterAttempt, Blocked, ContextRefused, ContextRaises
  <2>6. CASE Record(c)            BY <2>6 DEF Record
  <2>7. CASE Alert(c)             BY <2>7 DEF Alert
  <2>8. CASE PostCheckout(c)      BY <2>8 DEF PostCheckout
  <2>9. CASE Bought(c)            BY <2>9 DEF Bought
  <2>10. CASE AbortedByOperator(c) BY <2>10 DEF AbortedByOperator
  <2>11. CASE Unreachable(c)      BY <2>11 DEF Unreachable
  <2>12. CASE CardFails(c)
    <3>1. FailedRow(reply[c]) # "success"
      BY <2>12 DEF CardFails, Refusal, FailedRow
    <3>2. /\ pc[c] = "waiting" /\ reply[c] \in Refusals
          /\ pc' = [pc EXCEPT ![c] = "ladder"]
          /\ reply' = [reply EXCEPT ![c] = "none"]
          /\ row' = [row EXCEPT ![c] = FailedRow(reply[c])]
          /\ UNCHANGED <<job, orders, denied>>
      BY <2>12 DEF CardFails, Refusal
    <3> QED
      BY <3>1, <3>2
  <2>13. CASE LadderEnds(c)       BY <2>13 DEF LadderEnds
  <2>14. CASE SuspendRoster(c)    BY <2>14 DEF SuspendRoster
  <2>15. CASE SuspendDashboard(c) BY <2>15 DEF SuspendDashboard
  <2>16. CASE MarkMissed(c)       BY <2>16 DEF MarkMissed
  <2>17. CASE ApplyCooldown(c)    BY <2>17 DEF ApplyCooldown
  <2>18. CASE MarkPurchased(c)    BY <2>18 DEF MarkPurchased
  <2>19. CASE RecordFindingFee(c) BY <2>19 DEF RecordFindingFee
  <2> QED
    BY <1>2, <2>1, <2>2, <2>3, <2>4, <2>5, <2>6, <2>7, <2>8, <2>9, <2>10,
       <2>11, <2>12, <2>13, <2>14, <2>15, <2>16, <2>17, <2>18, <2>19
    DEF CallerStep
<1>3. ASSUME NEW c \in Dispatches, JobStep(c) PROVE OneOrder(d)'
  <2>1. CASE StartJob(c)          BY <2>1 DEF StartJob
  <2>2. CASE SkipJob(c)           BY <2>2 DEF SkipJob, EndJob
  <2>3. CASE FailJob(c)           BY <2>3 DEF FailJob, EndJob
  <2>4. CASE AbortJob(c)          BY <2>4 DEF AbortJob, EndJob
  <2>5. CASE ClickPlaceOrder(c)   BY <2>5 DEF ClickPlaceOrder
  <2>6. CASE ReadPage(c)
    <3>1. CASE job[c] = "placed"
      (* SUCCESS, or an order more that is denied: misread or garbled.     *)
      BY <2>6, <3>1 DEF ReadPage, EndJob
    <3>2. CASE job[c] = "unplaced"
      BY <2>6, <3>2 DEF ReadPage, EndJob
    <3> QED
      BY <2>6, <3>1, <3>2 DEF ReadPage
  <2> QED
    BY <1>3, <2>1, <2>2, <2>3, <2>4, <2>5, <2>6 DEF JobStep
<1>4. ASSUME NEW c \in Dispatches, Failure(c) PROVE OneOrder(d)'
  <2>1. CASE CallerTimeout(c)     BY <2>1 DEF CallerTimeout
  <2>2. CASE RecordFails(c)       BY <2>2 DEF RecordFails
  <2>3. CASE BookkeepingFails(c)  BY <2>3 DEF BookkeepingFails
  <2> QED
    BY <1>4, <2>1, <2>2, <2>3 DEF Failure
<1>5. ASSUME NEW c \in Dispatches, HealStaleAttempt(c) PROVE OneOrder(d)'
  BY <1>5 DEF HealStaleAttempt
<1>6. ASSUME NEW p \in Processes, CallerDeath(p)
      PROVE  OneOrder(d)'
  BY <1>6 DEF CallerDeath
<1>7. CASE DaemonDeath
  BY <1>7 DEF DaemonDeath
<1>8. CASE \/ \E u \in Urls : WindowExpires(u)
           \/ Operator \/ SyncRoster \/ UNCHANGED vars
  BY <1>8 DEF WindowExpires, Operator, RequestAbort, ToggleRotation, SyncRoster,
              vars
<1> QED
  BY <1>1, <1>2, <1>3, <1>4, <1>5, <1>6, <1>7, <1>8 DEF Next

THEOREM OrderInvariant == Spec => []OrderInv
<1>1. OrderInv /\ [Next]_vars => OrderInv'
  BY StepOrderInv
<1> QED
  BY <1>1, TypeCorrect, InitOrderInv, PTL DEF Spec

(* One dispatch places at most one order, however many organisations and    *)
(* cards it tries and whatever dies or times out on the way: the guarantee  *)
(* the daemon_unreachable branch of attempt_purchase is written for.       *)
THEOREM SingleOrder == Spec => []AtMostOneOrder
<1>1. OrderInv => AtMostOneOrder
  BY DEF OrderInv, OneOrder, AtMostOneOrder, TypeOK
<1>2. Spec => []OrderInv
  BY OrderInvariant
<1> QED
  BY <1>1, <1>2, PTL

(* An order is on the result page, on its way to the caller, recorded as a  *)
(* success, or its dispatch visibly lost the daemon or died.               *)
THEOREM NoSilentOrder == Spec => []OrderIsAccountedFor
<1>1. OrderInv => OrderIsAccountedFor
  BY DEF OrderInv, OneOrder, OrderIsAccountedFor, TypeOK, MayPost, Booking,
         Refusals, Stages, Verdicts
<1>2. Spec => []OrderInv
  BY OrderInvariant
<1> QED
  BY <1>1, <1>2, PTL

(* A recorded success stays recorded, for the same event.                  *)
LEMMA SuccessStays ==
  ASSUME OrderInv, [Next]_vars, NEW d \in Dispatches, row[d] = "success"
  PROVE  row'[d] = "success" /\ event'[d] = event[d]
<1> USE DEF OrderInv, OneOrder, MayPost, TypeOK, roster, stores, walk, ladder, daemon,
            SetRow
<1>1. pc[d] \notin MayPost \cup {"waiting"}
  OBVIOUS
<1>2. ASSUME NEW c \in Dispatches, Dispatch(c)
      PROVE  row'[d] = row[d] /\ event'[d] = event[d]
  BY <1>1, <1>2 DEF Dispatch, MonitorDispatch, InitiateFresh, RedirectToQueue,
                    RedirectToOrg, Begin
<1>3. ASSUME NEW c \in Dispatches, CallerStep(c)
      PROVE  row'[d] = row[d] /\ event'[d] = event[d]
  BY <1>1, <1>3
  DEF CallerStep, EnterQueue, Exhausted, StepOver, HandOver, Assign, Advance,
      EnterAttempt, Blocked, Record, Alert, PostCheckout, Bought, AbortedByOperator,
      Unreachable, CardFails, LadderEnds, SuspendRoster, SuspendDashboard,
      MarkMissed, ApplyCooldown, MarkPurchased, RecordFindingFee
<1>4. ASSUME NEW c \in Dispatches, JobStep(c)
      PROVE  row'[d] = row[d] /\ event'[d] = event[d]
  BY <1>4 DEF JobStep, StartJob, SkipJob, FailJob, AbortJob, ClickPlaceOrder,
              ReadPage, EndJob
<1>5. ASSUME NEW c \in Dispatches, Failure(c) \/ HealStaleAttempt(c)
      PROVE  row'[d] = row[d] /\ event'[d] = event[d]
  BY <1>5 DEF Failure, CallerTimeout, RecordFails, BookkeepingFails,
              HealStaleAttempt
<1>6. CASE \/ \E p \in Processes : CallerDeath(p)
           \/ \E u \in Urls : WindowExpires(u)
           \/ DaemonDeath \/ Operator \/ SyncRoster \/ UNCHANGED vars
  BY <1>6 DEF CallerDeath, WindowExpires, DaemonDeath, Operator, RequestAbort,
              ToggleRotation, SyncRoster, vars
<1> QED
  BY <1>2, <1>3, <1>4, <1>5, <1>6 DEF Next

(* Only MarkPurchased makes a truck purchased.                             *)
LEMMA PurchasedByMark ==
  ASSUME TypeOK, [Next]_vars, NEW e \in Events, truck'[e] = "purchased"
  PROVE  \/ truck[e] = "purchased"
         \/ \E d \in Dispatches : pc[d] = "mark" /\ event[d] = e
<1> USE DEF TypeOK, roster, stores, SetTruck
<1>1. ASSUME NEW c \in Dispatches, Dispatch(c) PROVE truck[e] = "purchased"
  BY <1>1 DEF Dispatch, MonitorDispatch, InitiateFresh, RedirectToQueue,
              RedirectToOrg
<1>2. ASSUME NEW c \in Dispatches, CallerStep(c), ~MarkPurchased(c)
      PROVE  truck[e] = "purchased"
  BY <1>2
  DEF CallerStep, EnterQueue, Exhausted, StepOver, HandOver, Assign, Advance,
      EnterAttempt, Blocked, Record, Alert, PostCheckout, Bought, AbortedByOperator,
      Unreachable, CardFails, LadderEnds, SuspendRoster, SuspendDashboard,
      MarkMissed, ApplyCooldown, RecordFindingFee
<1>3. ASSUME NEW c \in Dispatches, MarkPurchased(c)
      PROVE  truck[e] = "purchased" \/ (pc[c] = "mark" /\ event[c] = e)
  BY <1>3 DEF MarkPurchased
<1>4. ASSUME NEW c \in Dispatches,
             JobStep(c) \/ Failure(c) \/ HealStaleAttempt(c)
      PROVE  truck[e] = "purchased"
  BY <1>4 DEF JobStep, StartJob, SkipJob, FailJob, AbortJob, ClickPlaceOrder,
              ReadPage, EndJob, Failure, CallerTimeout, RecordFails,
              BookkeepingFails, HealStaleAttempt
<1>5. CASE \/ \E p \in Processes : CallerDeath(p)
           \/ \E u \in Urls : WindowExpires(u)
           \/ DaemonDeath \/ Operator \/ SyncRoster \/ UNCHANGED vars
  BY <1>5 DEF CallerDeath, WindowExpires, DaemonDeath, Operator, RequestAbort,
              ToggleRotation, SyncRoster, vars
<1> QED
  BY <1>1, <1>2, <1>3, <1>4, <1>5 DEF Next

(* A truck shown as purchased has a dispatch that ordered it and recorded   *)
(* the success, although every other dispatch may rewrite its status.      *)
THEOREM PurchasedMeansOrdered == Spec => []PurchasedTruckHasOrder
<1>1. Init => PurchasedTruckHasOrder
  BY DEF Init, PurchasedTruckHasOrder
<1>2. OrderInv /\ OrderInv' /\ PurchasedTruckHasOrder /\ [Next]_vars
      => PurchasedTruckHasOrder'
  <2> SUFFICES ASSUME OrderInv, OrderInv', PurchasedTruckHasOrder, [Next]_vars,
                      NEW e \in Events, truck'[e] = "purchased"
               PROVE  \E d \in Dispatches :
                        event'[d] = e /\ row'[d] = "success" /\ orders'[d] > 0
    BY DEF PurchasedTruckHasOrder
  <2>1. PICK d \in Dispatches : event[d] = e /\ row[d] = "success"
    <3>1. CASE truck[e] = "purchased"
      BY <3>1 DEF PurchasedTruckHasOrder
    <3>2. CASE \E c \in Dispatches : pc[c] = "mark" /\ event[c] = e
      BY <3>2 DEF OrderInv, OneOrder, Booking
    <3> QED
      BY <3>1, <3>2, PurchasedByMark DEF OrderInv
  <2>2. event'[d] = e /\ row'[d] = "success"
    BY <2>1, SuccessStays
  <2>3. orders'[d] > 0
    BY <2>2 DEF OrderInv, OneOrder, TypeOK
  <2> QED
    BY <2>2, <2>3
<1>3. Spec => []OrderInv
  BY OrderInvariant
<1> QED
  BY <1>1, <1>2, <1>3, PTL DEF Spec

-----------------------------------------------------------------------------
(* The QUEUE_LOCK.                                                         *)

(* Only entering the queue makes a dispatch start walking.                 *)
LEMMA WalkStartsInQueue ==
  ASSUME TypeOK, [Next]_vars, NEW d \in Dispatches, Walking(d)', ~Walking(d)
  PROVE  EnterQueue(d)
<1> USE DEF Walking, Finished, TypeOK, walk, roster, stores, Goto
<1>1. ASSUME NEW c \in Dispatches, Dispatch(c) PROVE FALSE
  BY <1>1 DEF Dispatch, MonitorDispatch, InitiateFresh, RedirectToQueue,
              RedirectToOrg, Begin
<1>2. ASSUME NEW c \in Dispatches, CallerStep(c), ~EnterQueue(c) PROVE FALSE
  BY <1>2
  DEF CallerStep, Exhausted, StepOver, HandOver, Assign, Advance,
      EnterAttempt, Blocked, Record, Alert, PostCheckout, Bought, AbortedByOperator,
      Unreachable, CardFails, LadderEnds, SuspendRoster, SuspendDashboard,
      MarkMissed, ApplyCooldown, MarkPurchased, RecordFindingFee
<1>3. ASSUME NEW c \in Dispatches, EnterQueue(c) PROVE c = d
  BY <1>3 DEF EnterQueue
<1>4. ASSUME NEW c \in Dispatches,
             JobStep(c) \/ Failure(c) \/ HealStaleAttempt(c)
      PROVE  FALSE
  BY <1>4 DEF JobStep, StartJob, SkipJob, FailJob, AbortJob, ClickPlaceOrder,
              ReadPage, EndJob, Failure, CallerTimeout, RecordFails,
              BookkeepingFails, HealStaleAttempt
<1>5. CASE \/ \E p \in Processes : CallerDeath(p)
           \/ \E u \in Urls : WindowExpires(u)
           \/ DaemonDeath \/ Operator \/ SyncRoster \/ UNCHANGED vars
  BY <1>5 DEF CallerDeath, WindowExpires, DaemonDeath, Operator, RequestAbort,
              ToggleRotation, SyncRoster, vars
<1> QED
  BY <1>1, <1>2, <1>3, <1>4, <1>5 DEF Next

(* Walks of one process are serialised, although attempts redirected to one *)
(* organisation run beside them and threads die holding the lock.          *)
THEOREM WalksAreSerial == Spec => []OneWalkPerProcess
<1>1. Init => OneWalkPerProcess
  BY DEF Init, OneWalkPerProcess, Walking, Finished
<1>2. TypeOK /\ OneWalkPerProcess /\ [Next]_vars => OneWalkPerProcess'
  <2> SUFFICES ASSUME TypeOK, OneWalkPerProcess, [Next]_vars,
                      NEW c \in Dispatches, NEW d \in Dispatches,
                      Process[c] = Process[d], Walking(c)', Walking(d)'
               PROVE  c = d
    BY DEF OneWalkPerProcess
  <2>1. CASE Walking(c) /\ Walking(d)
    BY <2>1 DEF OneWalkPerProcess
  <2>2. CASE ~Walking(c)
    <3>1. EnterQueue(c)
      BY <2>2, WalkStartsInQueue
    <3>2. c # d => ~Walking(d) /\ pc'[d] = pc[d] /\ direct'[d] = direct[d]
      BY <3>1 DEF EnterQueue, Sibling, Goto, TypeOK, walk
    <3> QED
      BY <3>2 DEF Walking
  <2>3. CASE ~Walking(d)
    <3>1. EnterQueue(d)
      BY <2>3, WalkStartsInQueue
    <3>2. c # d => ~Walking(c) /\ pc'[c] = pc[c] /\ direct'[c] = direct[c]
      BY <3>1 DEF EnterQueue, Sibling, Goto, TypeOK, walk
    <3> QED
      BY <3>2 DEF Walking
  <2> QED
    BY <2>1, <2>2, <2>3
<1> QED
  BY <1>1, <1>2, TypeCorrect, PTL DEF Spec

-----------------------------------------------------------------------------
(* The one-failure policy.                                                 *)

(* A suspension is at the dashboard's gate, on its way there, or lost.     *)
Held(o) ==
  \/ ~approved[o] \/ halved[o]
  \/ \E d \in Dispatches : pc[d] \in Suspending /\ org[d] = o

GateInv == \A o \in Orgs : suspended[o] => Held(o)

(* Only the thread that writes the suspension, the operator and a death     *)
(* touch any of this.                                                      *)
LEMMA StepGateInv == TypeOK /\ GateInv /\ [Next]_vars => GateInv'
<1> SUFFICES ASSUME TypeOK, GateInv, [Next]_vars, NEW o \in Orgs, suspended'[o]
             PROVE  Held(o)'
  BY DEF GateInv
<1> USE DEF TypeOK, roster, stores, walk, Goto, GateInv, Held, Suspending
<1>1. ASSUME NEW c \in Dispatches, Dispatch(c) PROVE Held(o)'
  BY <1>1 DEF Dispatch, MonitorDispatch, InitiateFresh, RedirectToQueue,
              RedirectToOrg, Begin
<1>2. ASSUME NEW c \in Dispatches, CallerStep(c), ~LadderEnds(c),
             ~SuspendRoster(c), ~SuspendDashboard(c)
      PROVE  Held(o)'
  <2>1. /\ pc[c] \notin Suspending /\ UNCHANGED <<approved, halved, suspended>>
        /\ \A d \in Dispatches \ {c} : pc'[d] = pc[d] /\ org'[d] = org[d]
    BY <1>2
    DEF CallerStep, EnterQueue, Exhausted, StepOver, HandOver, Assign, Advance,
        EnterAttempt, Record, Alert, PostCheckout, Bought, AbortedByOperator,
        Unreachable, CardFails, MarkMissed, ApplyCooldown, MarkPurchased,
        RecordFindingFee
  <2> QED
    BY <2>1
<1>3. ASSUME NEW c \in Dispatches, LadderEnds(c) PROVE Held(o)'
  <2>1. /\ suspended' = [suspended EXCEPT ![org[c]] = @ \/ declined[c]]
        /\ pc[c] = "ladder" /\ UNCHANGED <<approved, halved, org>>
        /\ pc' = [pc EXCEPT ![c] = IF declined[c] THEN "suspend" ELSE "miss"]
    BY <1>3 DEF LadderEnds
  <2>2. CASE suspended[o]
    BY <2>1, <2>2
  <2>3. CASE ~suspended[o]
    <3>1. o = org[c] /\ declined[c]
      BY <2>1, <2>3
    <3> QED
      BY <2>1, <3>1
  <2> QED
    BY <2>2, <2>3
<1>4. ASSUME NEW c \in Dispatches, SuspendRoster(c) PROVE Held(o)'
  <2>1. UNCHANGED <<approved, suspended, org>>
    BY <1>4 DEF SuspendRoster
  <2>2. CASE pc' = [pc EXCEPT ![c] = "unlist"] /\ halved' = halved
    BY <2>1, <2>2
  <2>3. CASE pc' = [pc EXCEPT ![c] = "miss"] /\ halved' = [halved EXCEPT ![org[c]] = TRUE]
    BY <2>1, <2>3
  <2> QED
    BY <1>4, <2>2, <2>3 DEF SuspendRoster, Lose
<1>5. ASSUME NEW c \in Dispatches, SuspendDashboard(c) PROVE Held(o)'
  BY <1>5 DEF SuspendDashboard, Lose
<1>6. ASSUME NEW c \in Dispatches,
             JobStep(c) \/ Failure(c) \/ HealStaleAttempt(c)
      PROVE  Held(o)'
  BY <1>6 DEF JobStep, StartJob, SkipJob, FailJob, AbortJob, ClickPlaceOrder,
              ReadPage, EndJob, Failure, CallerTimeout, RecordFails,
              BookkeepingFails, HealStaleAttempt
<1>7. ASSUME NEW p \in Processes, CallerDeath(p) PROVE Held(o)'
  BY <1>7 DEF CallerDeath
<1>8. CASE \/ \E u \in Urls : WindowExpires(u)
           \/ DaemonDeath \/ SyncRoster \/ UNCHANGED vars
  BY <1>8 DEF WindowExpires, DaemonDeath, SyncRoster, vars
<1>9. CASE Operator
  <2>1. ASSUME NEW c \in Dispatches, RequestAbort(c) PROVE Held(o)'
    BY <2>1 DEF RequestAbort
  <2>2. ASSUME NEW t \in Orgs, ToggleRotation(t) PROVE Held(o)'
    (* Turning on lifts the suspension, turning off closes the gate.       *)
    <3>1. /\ approved' = [approved EXCEPT ![t] = ~approved[t]]
          /\ suspended' = [suspended EXCEPT ![t] = suspended[t] /\ approved[t]]
          /\ halved' = [halved EXCEPT ![t] = FALSE]
          /\ UNCHANGED <<pc, org>>
      BY <2>2 DEF ToggleRotation
    <3>2. CASE o = t
      BY <3>1, <3>2
    <3>3. CASE o # t
      BY <3>1, <3>3
    <3> QED
      BY <3>2, <3>3
  <2> QED
    BY <1>9, <2>1, <2>2 DEF Operator
<1> QED
  BY <1>1, <1>2, <1>3, <1>4, <1>5, <1>6, <1>7, <1>8, <1>9 DEF Next

(* Whoever passes the gate was approved when it looked.                    *)
LEMMA GateLooks ==
  ASSUME TypeOK, [Next]_vars, NEW d \in Dispatches, pc[d] = "enter",
         pc'[d] \in {"record", "record_alert"}
  PROVE  approved[org[d]]
<1> USE DEF TypeOK, Goto
<1>1. ASSUME NEW c \in Dispatches, Dispatch(c) PROVE FALSE
  BY <1>1 DEF Dispatch, MonitorDispatch, InitiateFresh, RedirectToQueue,
              RedirectToOrg, Begin
<1>2. ASSUME NEW c \in Dispatches, CallerStep(c) PROVE approved[org[d]]
  BY <1>2
  DEF CallerStep, EnterQueue, Exhausted, StepOver, HandOver, Assign, Advance,
      EnterAttempt, Blocked, Record, Alert, PostCheckout, Bought, AbortedByOperator,
      Unreachable, CardFails, LadderEnds, SuspendRoster, SuspendDashboard,
      MarkMissed, ApplyCooldown, MarkPurchased, RecordFindingFee
<1>3. ASSUME NEW c \in Dispatches, JobStep(c) \/ Failure(c) \/ HealStaleAttempt(c)
      PROVE  FALSE
  BY <1>3 DEF JobStep, StartJob, SkipJob, FailJob, AbortJob, ClickPlaceOrder,
              ReadPage, EndJob, Failure, CallerTimeout, RecordFails,
              BookkeepingFails, HealStaleAttempt
<1>4. CASE \/ \E p \in Processes : CallerDeath(p)
           \/ \E u \in Urls : WindowExpires(u)
           \/ DaemonDeath \/ Operator \/ SyncRoster \/ UNCHANGED vars
  BY <1>4 DEF CallerDeath, WindowExpires, DaemonDeath, Operator, RequestAbort,
              ToggleRotation, SyncRoster, vars
<1> QED
  BY <1>1, <1>2, <1>3, <1>4 DEF Next

(* A suspension keeps the organisation from the gate until the operator     *)
(* turns the customer on again, for any roster and any faults: only one     *)
(* that is still being written, or of which a write failed or was cut off  *)
(* by a death, may be passed.                                              *)
THEOREM SuspensionReachesGate == Spec => SuspensionHolds
<1>1. Init => GateInv
  BY DEF Init, GateInv
<1>2. TypeOK /\ GateInv /\ [Next]_vars => GateInv'
  BY StepGateInv
<1>3. TypeOK /\ GateInv /\ [Next]_vars =>
        \A d \in Dispatches :
          pc[d] = "enter" /\ pc'[d] \in {"record", "record_alert"}
          /\ suspended[org[d]] =>
            \/ halved[org[d]]
            \/ \E c \in Dispatches : pc[c] \in Suspending /\ org[c] = org[d]
  BY GateLooks DEF GateInv, Held, TypeOK
<1> QED
  BY <1>1, <1>2, <1>3, TypeCorrect, PTL DEF Spec, SuspensionHolds

-----------------------------------------------------------------------------
(* The engine implements TruckSale for any number of organisations, cards, *)
(* trucks and dispatches: whoever may still say "not bought" has neither a *)
(* checkout in the daemon nor an order but those it was told had not        *)
(* happened.                                                               *)

(* The abstract view of a step, for one dispatch and for all the others.   *)
SaleStep(d) ==
  \/ UNCHANGED <<Answer(d), orders[d], denied[d]>>
  \/ /\ Answer(d) \in {"open", "unsure"} /\ orders[d] = denied[d]
     /\ orders'[d] = orders[d] + 1 /\ UNCHANGED <<Answer(d), denied[d]>>
  \/ /\ Answer(d) = "open" /\ orders[d] = denied[d] + 1
     /\ denied'[d] = denied[d] + 1 /\ UNCHANGED <<Answer(d), orders[d]>>
  \/ /\ Answer(d) = "idle" /\ Answer(d)' = "open"
     /\ UNCHANGED <<orders[d], denied[d]>>
  \/ /\ Answer(d) = "open" /\ Answer(d)' = "bought"
     /\ orders[d] = denied[d] + 1 /\ UNCHANGED <<orders[d], denied[d]>>
  \/ /\ Answer(d) = "open" /\ Answer(d)' = "notbought"
     /\ orders[d] = denied[d] /\ UNCHANGED <<orders[d], denied[d]>>
  \/ /\ Answer(d) = "open" /\ Answer(d)' = "unsure"
     /\ UNCHANGED <<orders[d], denied[d]>>

Untouched(d) ==
  Answer(d)' = Answer(d) /\ orders'[d] = orders[d] /\ denied'[d] = denied[d]

Lost(d) ==
  /\ Answer(d) = "open" /\ Answer(d)' = "unsure"
  /\ orders'[d] = orders[d] /\ denied'[d] = denied[d]

(* Every dispatch makes a step of the promise, and only a death touches    *)
(* more than one of them.                                                  *)
LEMMA EachStepsAlone ==
  ASSUME OrderInv, OrderInv', [Next]_vars
  PROVE  \/ \E c \in Dispatches : SaleStep(c) /\ \A d \in Dispatches \ {c} : Untouched(d)
         \/ \A d \in Dispatches : Untouched(d) \/ Lost(d)
<1> USE DEF OrderInv, OneOrder, TypeOK, roster, stores, walk, ladder, daemon, Goto, SetTruck,
            SetRow, TakeReply, Answer, Untouched, MayPost, Booking, Refusals, Waits, Lose
<1> DEFINE Alone(c) == SaleStep(c) /\ \A d \in Dispatches \ {c} : Untouched(d)
<1>1. ASSUME NEW c \in Dispatches, Dispatch(c) PROVE Alone(c)
  BY <1>1 DEF Dispatch, MonitorDispatch, InitiateFresh, RedirectToQueue, RedirectToOrg,
              Begin, SaleStep
<1>2. ASSUME NEW c \in Dispatches, CallerStep(c) PROVE Alone(c)
  <2> USE DEF SaleStep
  <2>1. CASE EnterQueue(c)        BY <2>1 DEF EnterQueue
  <2>2. CASE Exhausted(c)         BY <2>2 DEF Exhausted
  <2>3. ASSUME NEW o \in Orgs, StepOver(c, o) \/ HandOver(c, o) \/ Assign(c, o)
        PROVE  Alone(c)
    BY <2>3 DEF StepOver, HandOver, Assign
  <2>4. CASE Advance(c)           BY <2>4 DEF Advance
  <2>5. CASE EnterAttempt(c)      BY <2>5 DEF EnterAttempt, Blocked, ContextRefused, ContextRaises
  <2>6. CASE Record(c)            BY <2>6 DEF Record
  <2>7. CASE Alert(c)             BY <2>7 DEF Alert
  <2>8. CASE PostCheckout(c)      BY <2>8 DEF PostCheckout
  <2>9. CASE Bought(c)            BY <2>9 DEF Bought
  <2>10. CASE AbortedByOperator(c) BY <2>10 DEF AbortedByOperator
  <2>11. CASE Unreachable(c)      BY <2>11 DEF Unreachable
  <2>12. CASE CardFails(c)        BY <2>12 DEF CardFails, Refusal
  <2>13. CASE LadderEnds(c)       BY <2>13 DEF LadderEnds
  <2>14. CASE SuspendRoster(c)    BY <2>14 DEF SuspendRoster
  <2>15. CASE SuspendDashboard(c) BY <2>15 DEF SuspendDashboard
  <2>16. CASE MarkMissed(c)       BY <2>16 DEF MarkMissed
  <2>17. CASE ApplyCooldown(c)    BY <2>17 DEF ApplyCooldown
  <2>18. CASE MarkPurchased(c)    BY <2>18 DEF MarkPurchased
  <2>19. CASE RecordFindingFee(c) BY <2>19 DEF RecordFindingFee
  <2> QED
    BY <1>2, <2>1, <2>2, <2>3, <2>4, <2>5, <2>6, <2>7, <2>8, <2>9, <2>10, <2>11,
       <2>12, <2>13, <2>14, <2>15, <2>16, <2>17, <2>18, <2>19 DEF CallerStep
<1>3. ASSUME NEW c \in Dispatches, JobStep(c) PROVE Alone(c)
  <2> USE DEF SaleStep
  <2>1. CASE StartJob(c)          BY <2>1 DEF StartJob
  <2>2. CASE SkipJob(c)           BY <2>2 DEF SkipJob, EndJob
  <2>3. CASE FailJob(c)           BY <2>3 DEF FailJob, EndJob
  <2>4. CASE AbortJob(c)          BY <2>4 DEF AbortJob, EndJob
  <2>5. CASE ClickPlaceOrder(c)   BY <2>5 DEF ClickPlaceOrder
  <2>6. CASE ReadPage(c)          BY <2>6 DEF ReadPage, EndJob
  <2> QED
    BY <1>3, <2>1, <2>2, <2>3, <2>4, <2>5, <2>6 DEF JobStep
<1>4. ASSUME NEW c \in Dispatches, Failure(c) PROVE Alone(c)
  <2> USE DEF SaleStep
  <2>1. CASE CallerTimeout(c)     BY <2>1 DEF CallerTimeout
  <2>2. CASE RecordFails(c)       BY <2>2 DEF RecordFails
  <2>3. CASE BookkeepingFails(c)  BY <2>3 DEF BookkeepingFails
  <2> QED
    BY <1>4, <2>1, <2>2, <2>3 DEF Failure
<1>5. ASSUME NEW c \in Dispatches, HealStaleAttempt(c) PROVE Alone(c)
  BY <1>5 DEF HealStaleAttempt, SaleStep
<1>6. ASSUME NEW p \in Processes, CallerDeath(p), NEW d \in Dispatches
      PROVE  Untouched(d) \/ Lost(d)
  BY <1>6 DEF CallerDeath, Finished, Lost
<1>7. ASSUME DaemonDeath, NEW d \in Dispatches PROVE Untouched(d)
  BY <1>7 DEF DaemonDeath
<1>8. ASSUME \/ \E u \in Urls : WindowExpires(u)
             \/ Operator \/ SyncRoster \/ UNCHANGED vars,
             NEW d \in Dispatches
      PROVE  Untouched(d)
  BY <1>8 DEF WindowExpires, Operator, RequestAbort, ToggleRotation, SyncRoster, vars
<1> QED
  BY <1>1, <1>2, <1>3, <1>4, <1>5, <1>6, <1>7, <1>8 DEF Next

(* A step of the engine is a step of the promise, or none.                 *)
LEMMA StepKeepsPromise ==
  ASSUME OrderInv, OrderInv', [Next]_vars
  PROVE  [Sale!Next]_(Sale!saleVars)
<1> DEFINE told == [d \in Dispatches |-> Answer(d)]
<1>0. /\ orders \in [Dispatches -> Nat] /\ orders' \in [Dispatches -> Nat]
      /\ denied \in [Dispatches -> Nat] /\ denied' \in [Dispatches -> Nat]
      /\ told' = [d \in Dispatches |-> Answer(d)']
  BY DEF OrderInv, TypeOK
<1>1. ASSUME NEW c \in Dispatches, SaleStep(c),
             \A d \in Dispatches \ {c} : Untouched(d)
      PROVE  [Sale!Next]_(Sale!saleVars)
  <2> DEFINE here == Answer(c)
             next == Answer(c)'
             n == orders'[c]
             m == denied'[c]
  <2>1. /\ told' = [told EXCEPT ![c] = next]
        /\ orders' = [orders EXCEPT ![c] = n]
        /\ denied' = [denied EXCEPT ![c] = m]
    <3>1. \A d \in Dispatches \ {c} :
            Answer(d)' = Answer(d) /\ orders'[d] = orders[d] /\ denied'[d] = denied[d]
      BY <1>1 DEF Untouched
    <3> HIDE DEF here, next, n, m
    <3>2. next = Answer(c)' /\ n = orders'[c] /\ m = denied'[c]
      BY DEF next, n, m
    <3> QED
      BY <1>0, <3>1, <3>2
  <2>2. /\ next = here => told' = told
        /\ n = orders[c] => orders' = orders
        /\ m = denied[c] => denied' = denied
    BY <1>0, <2>1
  <2>3. CASE next = here /\ n = orders[c] /\ m = denied[c]
    BY <2>2, <2>3 DEF Sale!saleVars
  <2>4. CASE /\ here \in {"open", "unsure"} /\ orders[c] = denied[c]
             /\ next = here /\ n = orders[c] + 1 /\ m = denied[c]
    BY <2>1, <2>2, <2>4 DEF Sale!Next, Sale!Order
  <2>5. CASE /\ here = "open" /\ orders[c] = denied[c] + 1
             /\ next = here /\ n = orders[c] /\ m = denied[c] + 1
    BY <2>1, <2>2, <2>5 DEF Sale!Next, Sale!Withhold
  <2>6. CASE here = "idle" /\ next = "open" /\ n = orders[c] /\ m = denied[c]
    BY <2>1, <2>2, <2>6 DEF Sale!Next, Sale!Begin
  <2>7. CASE /\ here = "open" /\ next = "bought" /\ orders[c] = denied[c] + 1
             /\ n = orders[c] /\ m = denied[c]
    BY <2>1, <2>2, <2>7 DEF Sale!Next, Sale!SayBought
  <2>8. CASE /\ here = "open" /\ next = "notbought" /\ orders[c] = denied[c]
             /\ n = orders[c] /\ m = denied[c]
    BY <2>1, <2>2, <2>8 DEF Sale!Next, Sale!SayNotBought
  <2>9. CASE here = "open" /\ next = "unsure" /\ n = orders[c] /\ m = denied[c]
    <3>1. told' = [d \in Dispatches |-> IF d \in {c} THEN "unsure" ELSE told[d]]
      BY <2>1, <2>9
    <3>2. Sale!LoseSight({c})
      BY <2>2, <2>9, <3>1 DEF Sale!LoseSight
    <3> QED
      BY <3>2 DEF Sale!Next
  <2> QED
    BY <1>1, <2>3, <2>4, <2>5, <2>6, <2>7, <2>8, <2>9 DEF SaleStep
<1>2. ASSUME \A d \in Dispatches : Untouched(d) \/ Lost(d)
      PROVE  [Sale!Next]_(Sale!saleVars)
  <2> DEFINE lost == {d \in Dispatches : Lost(d)}
  <2>1. orders' = orders /\ denied' = denied
    BY <1>0, <1>2 DEF Untouched, Lost
  <2>2. told' = [d \in Dispatches |-> IF d \in lost THEN "unsure" ELSE told[d]]
    BY <1>0, <1>2 DEF Untouched, Lost
  <2>3. Sale!LoseSight(lost)
    BY <2>1, <2>2 DEF Sale!LoseSight, Lost
  <2> QED
    BY <2>3 DEF Sale!Next
<1> QED
  BY <1>1, <1>2, EachStepsAlone

(* handle_truck_event and attempt_purchase keep the promise of TruckSale:   *)
(* one order at a time, "bought" only of an order, and after "not bought"   *)
(* none to come, whatever times out, is misread, raises or dies.           *)
THEOREM ImplementsTruckSale == Spec => KeepsSalePromise
<1>1. Init => Sale!Init
  BY DEF Init, Sale!Init, Answer
<1>2. OrderInv /\ OrderInv' /\ [Next]_vars => [Sale!Next]_(Sale!saleVars)
  BY StepKeepsPromise
<1>3. Spec => []OrderInv
  BY OrderInvariant
<1> QED
  BY <1>1, <1>2, <1>3, PTL DEF Spec, KeepsSalePromise, Sale!Spec
-----------------------------------------------------------------------------
(* The walk down the roster comes to an end for a reason: every failed     *)
(* attempt leaves the organisation in the set of the tried ones, which is  *)
(* what find_next_available_org leaves out, and the count of attempts never *)
(* runs ahead of that set nor past max_orgs_per_truck.  And an operator's  *)
(* abort is the last thing a dispatch does.                                *)

(* From the assignment of an organisation to the end of its attempt.       *)
Trying == {"enter", "record", "record_alert", "alert", "ladder", "waiting", "suspend",
           "unlist", "miss", "advance"}

Walks(d) ==
  /\ IsFiniteSet(tried[d]) /\ attempts[d] <= Cardinality(tried[d])
  /\ pc[d] \in {"idle", "queued"} => attempts[d] = 0
  /\ ~direct[d] /\ pc[d] = "pick" => attempts[d] < MaxOrgsPerTruck
  /\ ~direct[d] /\ pc[d] \in Trying =>
       org[d] \notin tried[d] /\ attempts[d] < MaxOrgsPerTruck

WalkInv == TypeOK /\ \A d \in Dispatches : Walks(d)

(* A step that leaves tried and attempts alone, at most starts an           *)
(* organisation that was not tried, and does not come back to picking.     *)
Harmless(d) ==
  /\ tried'[d] = tried[d] /\ attempts'[d] = attempts[d]
  /\ pc'[d] \in {"idle", "queued"} => pc[d] \in {"idle", "queued"}
  /\ ~direct'[d] /\ pc'[d] = "pick" =>
       \/ pc[d] = "queued"
       \/ ~direct[d] /\ pc[d] = "pick"
  /\ ~direct'[d] /\ pc'[d] \in Trying =>
       \/ ~direct[d] /\ pc[d] \in Trying /\ org'[d] = org[d]
       \/ ~direct[d] /\ pc[d] = "pick" /\ org'[d] \notin tried[d]

LEMMA HarmlessKeepsWalks ==
  ASSUME NEW d \in Dispatches, Walks(d), Harmless(d), TypeOK
  PROVE  Walks(d)'
BY MaxOrgsAssumption DEF Walks, Harmless, Trying, TypeOK

LEMMA OthersAreHarmless ==
  ASSUME TypeOK, NEW c \in Dispatches, NEW d \in Dispatches,
         tried'[d] = tried[d], attempts'[d] = attempts[d], pc'[d] = pc[d],
         org'[d] = org[d], direct'[d] = direct[d]
  PROVE  Harmless(d)
BY DEF Harmless, Trying

(* Most steps of a thread only move it on within or out of an attempt.     *)
Moves(c) ==
  /\ UNCHANGED walk
  /\ pc[c] \in Trying \cup Booking \cup {"pick", "queued"}
  /\ \E s \in Trying \cup Booking \cup {"done", "raised"} :
       /\ pc' = [pc EXCEPT ![c] = s]
       /\ s \in Trying => pc[c] \in Trying

LEMMA MovesAreHarmless ==
  ASSUME TypeOK, NEW c \in Dispatches, NEW d \in Dispatches, Moves(c)
  PROVE  Harmless(d)
BY DEF Moves, Harmless, Trying, Booking, walk, TypeOK

LEMMA StepWalkInv == WalkInv /\ [Next]_vars => WalkInv'
<1> SUFFICES ASSUME WalkInv, [Next]_vars, TypeOK', NEW d \in Dispatches
             PROVE  Walks(d)'
  BY TypeStep DEF WalkInv
<1>0. Walks(d) /\ TypeOK
  BY DEF WalkInv
<1>h. ASSUME Harmless(d) PROVE Walks(d)'
  BY <1>0, <1>h, HarmlessKeepsWalks
<1> USE DEF TypeOK, roster, stores, walk, ladder, daemon, Goto, SetTruck, SetRow, TakeReply
<1>1. ASSUME NEW c \in Dispatches, Dispatch(c) PROVE Harmless(d)
  BY <1>0, <1>1 DEF Dispatch, MonitorDispatch, InitiateFresh, RedirectToQueue,
                    RedirectToOrg, Begin, Harmless, Trying
<1>2. ASSUME NEW c \in Dispatches, CallerStep(c) PROVE Walks(d)'
  <2>1. ASSUME NEW o \in Orgs, StepOver(c, o) PROVE Walks(d)'
    <3>1. CASE c = d
      <4>1. tried'[d] = tried[d] \cup {o} /\ o \notin tried[d] /\ attempts'[d] = attempts[d]
            /\ pc'[d] = "pick" /\ direct'[d] = direct[d] /\ pc[d] = "pick"
        BY <1>0, <2>1, <3>1 DEF StepOver, Eligible
      <4>2. IsFiniteSet(tried[d])
        BY <1>0 DEF Walks
      <4>4. /\ IsFiniteSet(tried[d] \cup {o})
            /\ Cardinality(tried[d] \cup {o}) = Cardinality(tried[d]) + 1
        <5> HIDE DEF TypeOK
        <5> QED
          BY <4>1, <4>2, FS_AddElement
      <4>3. Cardinality(tried[d]) \in Nat
        BY <1>0, FS_CardinalityType DEF Walks
      <4> QED
        BY <1>0, <4>1, <4>2, <4>3, <4>4 DEF Walks, Trying
    <3>2. CASE c # d
      BY <1>0, <1>h, <2>1, <3>2, OthersAreHarmless DEF StepOver
    <3> QED
      BY <3>1, <3>2
  <2>2. CASE Advance(c)
    <3>1. CASE c = d /\ ~direct[d]
      <4>1. /\ tried'[d] = tried[d] \cup {org[d]} /\ attempts'[d] = attempts[d] + 1
            /\ pc[d] = "advance" /\ direct'[d] = direct[d]
            /\ \/ pc'[d] = "done"
               \/ pc'[d] = "pick" /\ attempts[d] + 1 < MaxOrgsPerTruck
        BY <1>0, <2>2, <3>1 DEF Advance
      <4>2. org[d] \notin tried[d]
        BY <1>0, <3>1, <4>1 DEF Walks, Trying
      <4>3. /\ IsFiniteSet(tried[d] \cup {org[d]})
            /\ Cardinality(tried[d] \cup {org[d]}) = Cardinality(tried[d]) + 1
        <5>1. IsFiniteSet(tried[d])
          BY <1>0 DEF Walks
        <5> HIDE DEF TypeOK
        <5> QED
          BY <4>2, <5>1, FS_AddElement
      <4>4. Cardinality(tried[d]) \in Nat
        BY <1>0, FS_CardinalityType DEF Walks
      <4> QED
        BY <1>0, <3>1, <4>1, <4>3, <4>4, MaxOrgsAssumption DEF Walks, Trying
    <3>2. CASE c # d \/ direct[d]
      <4>1. Harmless(d)
        BY <1>0, <2>2, <3>2 DEF Advance, Harmless, Trying
      <4> QED
        BY <1>h, <4>1
    <3> QED
      BY <3>1, <3>2
  <2>3. ASSUME NEW o \in Orgs, HandOver(c, o) PROVE Moves(c)
    <3>1. pc[c] = "pick" /\ pc' = [pc EXCEPT ![c] = "done"] /\ UNCHANGED walk
      BY <2>3 DEF HandOver
    <3>2. "done" \notin Trying
      BY DEF Trying
    <3> QED
      BY <3>1, <3>2, Zenon DEF Moves
  <2>4. ASSUME NEW o \in Orgs, Assign(c, o) PROVE Harmless(d)
    BY <1>0, <2>4 DEF Assign, Eligible, Harmless, Trying
  <2>5. ASSUME EnterQueue(c) PROVE Harmless(d)
    <3>1. CASE c = d
      BY <1>0, <2>5, <3>1 DEF EnterQueue, Harmless, Trying
    <3>2. CASE c # d
      BY <1>0, <1>h, <2>5, <3>2, OthersAreHarmless DEF EnterQueue
    <3> QED
      BY <3>1, <3>2
  <2>6. ASSUME Exhausted(c) PROVE Moves(c)
    <3>1. pc[c] = "pick" /\ pc' = [pc EXCEPT ![c] = "done"] /\ UNCHANGED walk
      BY <2>6 DEF Exhausted
    <3>2. "done" \notin Trying
      BY DEF Trying
    <3> QED
      BY <3>1, <3>2, Zenon DEF Moves
  <2>7. EnterAttempt(c) => Moves(c)
    BY DEF EnterAttempt, Blocked, ContextRefused, ContextRaises, Moves, Trying
  <2>8. (Record(c) => Moves(c)) /\ (Alert(c) => Moves(c)) /\ (PostCheckout(c) => Moves(c))
    BY DEF Record, Alert, PostCheckout, Moves, Trying
  <2>9. (Bought(c) => Moves(c)) /\ (AbortedByOperator(c) => Moves(c))
    BY DEF Bought, AbortedByOperator, Moves, Trying, Booking
  <2>10. (Unreachable(c) => Moves(c)) /\ (CardFails(c) => Moves(c))
    BY DEF Unreachable, CardFails, Moves, Trying
  <2>11. (LadderEnds(c) => Moves(c)) /\ (SuspendRoster(c) => Moves(c))
    BY DEF LadderEnds, SuspendRoster, Moves, Trying
  <2>12. (SuspendDashboard(c) => Moves(c)) /\ (MarkMissed(c) => Moves(c))
    BY DEF SuspendDashboard, MarkMissed, Moves, Trying
  <2>13. (ApplyCooldown(c) => Moves(c)) /\ (MarkPurchased(c) => Moves(c))
    BY DEF ApplyCooldown, MarkPurchased, Moves, Trying, Booking
  <2>14. RecordFindingFee(c) => Moves(c)
    BY DEF RecordFindingFee, Moves, Trying, Booking
  <2>15. Moves(c) => Harmless(d)
    BY <1>0, MovesAreHarmless
  <2> QED
    BY <1>2, <1>h, <2>1, <2>2, <2>3, <2>4, <2>5, <2>6, <2>7, <2>8, <2>9, <2>10, <2>11,
       <2>12, <2>13, <2>14, <2>15 DEF CallerStep
<1>3. ASSUME NEW c \in Dispatches, JobStep(c) PROVE Harmless(d)
  <2>1. pc' = pc /\ UNCHANGED walk
    BY <1>3 DEF JobStep, StartJob, SkipJob, FailJob, AbortJob, ClickPlaceOrder, ReadPage,
                EndJob
  <2> QED
    BY <1>0, <2>1, OthersAreHarmless
<1>4. ASSUME NEW c \in Dispatches, Failure(c) PROVE Harmless(d)
  BY <1>0, <1>4 DEF Failure, CallerTimeout, RecordFails, BookkeepingFails, Harmless, Trying
<1>5. ASSUME NEW p \in Processes, CallerDeath(p) PROVE Harmless(d)
  BY <1>0, <1>5 DEF CallerDeath, Harmless, Trying
<1>6. CASE \/ \E c \in Dispatches : HealStaleAttempt(c)
           \/ \E u \in Urls : WindowExpires(u)
           \/ DaemonDeath \/ Operator \/ SyncRoster \/ UNCHANGED vars
  <2>1. pc' = pc /\ UNCHANGED walk
    BY <1>6 DEF HealStaleAttempt, WindowExpires, DaemonDeath, Operator, RequestAbort,
                ToggleRotation, SyncRoster, vars
  <2> QED
    BY <1>0, <1>h, <2>1, OthersAreHarmless
<1> QED
  BY <1>h, <1>1, <1>2, <1>3, <1>4, <1>5, <1>6 DEF Next

(* handle_truck_event neither tries an organisation twice nor more of them  *)
(* than max_orgs_per_truck.                                                *)
THEOREM WalksAdvance == Spec => []WalkAdvances
<1>1. Init /\ TypeOK => WalkInv
  BY FS_EmptySet, MaxOrgsAssumption DEF Init, WalkInv, Walks, Trying
<1>2. WalkInv => WalkAdvances
  BY DEF WalkInv, Walks, WalkAdvances, Trying
<1> QED
  BY <1>1, <1>2, StepWalkInv, TypeCorrect, PTL DEF Spec

-----------------------------------------------------------------------------
(* The abort of the operator.                                              *)

Quiet(d) == pc[d] = "done" /\ job[d] = "none" /\ orders[d] = denied[d]

AbortInv == \A d \in Dispatches : row[d] = "aborted_operator" => Quiet(d)

(* Nothing moves a dispatch any more that is done and has no checkout.     *)
LEMMA QuietStays ==
  ASSUME TypeOK, [Next]_vars, NEW d \in Dispatches, Quiet(d)
  PROVE  Quiet(d)' /\ row'[d] = row[d] /\ tried'[d] = tried[d]
<1> USE DEF TypeOK, roster, stores, walk, ladder, daemon, Goto, SetRow, TakeReply, Quiet
<1> DEFINE Still == Quiet(d)' /\ row'[d] = row[d] /\ tried'[d] = tried[d]
<1>1. ASSUME NEW c \in Dispatches, Dispatch(c) PROVE Still
  BY <1>1 DEF Dispatch, MonitorDispatch, InitiateFresh, RedirectToQueue, RedirectToOrg,
              Begin
<1>2. ASSUME NEW c \in Dispatches, CallerStep(c) PROVE Still
  BY <1>2
  DEF CallerStep, EnterQueue, Exhausted, StepOver, HandOver, Assign, Advance,
      EnterAttempt, Blocked, Record, Alert, PostCheckout, Bought, AbortedByOperator,
      Unreachable, CardFails, LadderEnds, SuspendRoster, SuspendDashboard,
      MarkMissed, ApplyCooldown, MarkPurchased, RecordFindingFee
<1>3. ASSUME NEW c \in Dispatches, JobStep(c) PROVE Still
  BY <1>3 DEF JobStep, StartJob, SkipJob, FailJob, AbortJob, ClickPlaceOrder, ReadPage,
              EndJob
<1>4. ASSUME NEW c \in Dispatches, Failure(c) \/ HealStaleAttempt(c) PROVE Still
  BY <1>4 DEF Failure, CallerTimeout, RecordFails, BookkeepingFails, HealStaleAttempt
<1>5. CASE \/ \E p \in Processes : CallerDeath(p)
           \/ \E u \in Urls : WindowExpires(u)
           \/ DaemonDeath \/ Operator \/ SyncRoster \/ UNCHANGED vars
  BY <1>5 DEF CallerDeath, Finished, WindowExpires, DaemonDeath, Operator, RequestAbort,
              ToggleRotation, SyncRoster, vars
<1> QED
  BY <1>1, <1>2, <1>3, <1>4, <1>5 DEF Next

(* A row only becomes aborted_operator when the daemon answered ABORTED.   *)
LEMMA AbortedByAnswer ==
  ASSUME TypeOK, [Next]_vars, NEW d \in Dispatches, row'[d] = "aborted_operator",
         row[d] # "aborted_operator"
  PROVE  AbortedByOperator(d)
<1> USE DEF TypeOK, roster, stores, walk, ladder, daemon, SetRow
<1>1. ASSUME NEW c \in Dispatches, Dispatch(c) PROVE FALSE
  BY <1>1 DEF Dispatch, MonitorDispatch, InitiateFresh, RedirectToQueue, RedirectToOrg,
              Begin
<1>2. ASSUME NEW c \in Dispatches, CallerStep(c) PROVE AbortedByOperator(c) /\ c = d
  BY <1>2
  DEF CallerStep, EnterQueue, Exhausted, StepOver, HandOver, Assign, Advance,
      EnterAttempt, Blocked, Record, Alert, PostCheckout, Bought, AbortedByOperator,
      Unreachable, CardFails, FailedRow, LadderEnds, SuspendRoster, SuspendDashboard,
      MarkMissed, ApplyCooldown, MarkPurchased, RecordFindingFee
<1>3. ASSUME NEW c \in Dispatches, JobStep(c) PROVE FALSE
  BY <1>3 DEF JobStep, StartJob, SkipJob, FailJob, AbortJob, ClickPlaceOrder, ReadPage,
              EndJob
<1>4. ASSUME NEW c \in Dispatches, Failure(c) \/ HealStaleAttempt(c) PROVE FALSE
  BY <1>4 DEF Failure, CallerTimeout, RecordFails, BookkeepingFails, HealStaleAttempt
<1>5. CASE \/ \E p \in Processes : CallerDeath(p)
           \/ \E u \in Urls : WindowExpires(u)
           \/ DaemonDeath \/ Operator \/ SyncRoster \/ UNCHANGED vars
  BY <1>5 DEF CallerDeath, WindowExpires, DaemonDeath, Operator, RequestAbort,
              ToggleRotation, SyncRoster, vars
<1> QED
  BY <1>1, <1>2, <1>3, <1>4, <1>5 DEF Next

(* An operator's abort is final, whatever else times out or dies: no order  *)
(* but those denied before, no further card, no further organisation.      *)
THEOREM AbortsAreFinal == Spec => AbortIsFinal
<1>1. Init => AbortInv
  BY DEF Init, AbortInv
<1>2. OrderInv /\ AbortInv /\ [Next]_vars => AbortInv'
  <2> SUFFICES ASSUME OrderInv, AbortInv, [Next]_vars, NEW d \in Dispatches,
                      row'[d] = "aborted_operator"
               PROVE  Quiet(d)'
    BY DEF AbortInv
  <2>1. CASE row[d] = "aborted_operator"
    BY <2>1, QuietStays DEF AbortInv, OrderInv
  <2>2. CASE row[d] # "aborted_operator"
    <3>1. AbortedByOperator(d)
      BY <2>2, AbortedByAnswer DEF OrderInv
    <3>2. orders[d] = denied[d] /\ job[d] = "none"
      BY <3>1 DEF AbortedByOperator, OrderInv, OneOrder, Refusals, Verdicts
    <3> QED
      BY <3>1, <3>2 DEF AbortedByOperator, Quiet, Goto, OrderInv, TypeOK
  <2> QED
    BY <2>1, <2>2
<1>3. OrderInv /\ AbortInv /\ [Next]_vars =>
        \A d \in Dispatches : row[d] = "aborted_operator" =>
          /\ orders[d] = denied[d]
          /\ row'[d] = row[d] /\ job'[d] = "none" /\ tried'[d] = tried[d]
  BY QuietStays DEF AbortInv, OrderInv, Quiet
<1>4. Spec => []OrderInv
  BY OrderInvariant
<1> QED
  BY <1>1, <1>2, <1>3, <1>4, PTL DEF Spec, AbortIsFinal

-----------------------------------------------------------------------------
(* Rest after a purchase.                                                  *)

(* A dispatch that bought tries nobody any more; its organisation is in     *)
(* cooldown, unless that is yet to be written or will not be.              *)
Rests(d) ==
  row[d] = "success" =>
    /\ pc[d] \in Booking \cup {"done", "raised", "dead"}
    /\ cooling[org[d]] \/ pc[d] \in {"cooldown", "raised", "dead"}

RestInv == \A d \in Dispatches : Rests(d)

(* What a step of thread c does to another dispatch and to its own success. *)
Leaves(c) ==
  /\ \A d \in Dispatches \ {c} :
       pc'[d] = pc[d] /\ row'[d] = row[d] /\ org'[d] = org[d]
  /\ \A o \in Orgs : cooling[o] => cooling'[o]

LEMMA CallerRests ==
  ASSUME TypeOK, NEW c \in Dispatches, Rests(c), CallerStep(c)
  PROVE  Leaves(c) /\ Rests(c)'
<1> USE DEF TypeOK, roster, stores, walk, ladder, daemon, Goto, SetRow, TakeReply,
            Rests, Leaves, Booking
<1>1. CASE EnterQueue(c)        BY <1>1 DEF EnterQueue
<1>2. CASE Exhausted(c)         BY <1>2 DEF Exhausted
<1>3. ASSUME NEW o \in Orgs, StepOver(c, o) \/ HandOver(c, o) \/ Assign(c, o)
      PROVE  Leaves(c) /\ Rests(c)'
  BY <1>3 DEF StepOver, HandOver, Assign
<1>4. CASE Advance(c)
  <2>1. /\ pc[c] = "advance" /\ row' = row /\ org' = org /\ cooling' = cooling
        /\ \A d \in Dispatches \ {c} : pc'[d] = pc[d]
    BY <1>4 DEF Advance
  <2> QED
    BY <2>1
<1>5. CASE EnterAttempt(c)
  BY <1>5 DEF EnterAttempt, Blocked, ContextRefused, ContextRaises
<1>6. CASE Record(c)            BY <1>6 DEF Record
<1>7. CASE Alert(c)             BY <1>7 DEF Alert
<1>8. CASE PostCheckout(c)      BY <1>8 DEF PostCheckout
<1>9. CASE Bought(c)            BY <1>9 DEF Bought
<1>10. CASE AbortedByOperator(c) BY <1>10 DEF AbortedByOperator
<1>11. CASE Unreachable(c)      BY <1>11 DEF Unreachable
<1>12. CASE CardFails(c)        BY <1>12 DEF CardFails, FailedRow
<1>13. CASE LadderEnds(c)       BY <1>13 DEF LadderEnds
<1>14. CASE SuspendRoster(c)    BY <1>14 DEF SuspendRoster
<1>15. CASE SuspendDashboard(c) BY <1>15 DEF SuspendDashboard
<1>16. CASE MarkMissed(c)       BY <1>16 DEF MarkMissed
<1>17. CASE ApplyCooldown(c)    BY <1>17 DEF ApplyCooldown
<1>18. CASE MarkPurchased(c)    BY <1>18 DEF MarkPurchased
<1>19. CASE RecordFindingFee(c) BY <1>19 DEF RecordFindingFee
<1> QED
  BY <1>1, <1>2, <1>3, <1>4, <1>5, <1>6, <1>7, <1>8, <1>9, <1>10, <1>11, <1>12,
     <1>13, <1>14, <1>15, <1>16, <1>17, <1>18, <1>19 DEF CallerStep

LEMMA StepRestInv == TypeOK /\ RestInv /\ [Next]_vars => RestInv'
<1> SUFFICES ASSUME TypeOK, RestInv, [Next]_vars, NEW d \in Dispatches
             PROVE  Rests(d)'
  BY DEF RestInv
<1>0. Rests(d)
  BY DEF RestInv
<1> USE DEF TypeOK, roster, stores, walk, ladder, Goto, SetRow, Rests, Booking
<1>1. ASSUME NEW c \in Dispatches, Dispatch(c) PROVE Rests(d)'
  BY <1>0, <1>1 DEF Dispatch, MonitorDispatch, InitiateFresh, RedirectToQueue,
                    RedirectToOrg, Begin
<1>2. ASSUME NEW c \in Dispatches, CallerStep(c) PROVE Rests(d)'
  <2>1. Leaves(c) /\ Rests(c)'
    BY <1>2, CallerRests DEF RestInv
  <2> QED
    BY <1>0, <2>1 DEF Leaves
<1>3. ASSUME NEW c \in Dispatches, JobStep(c) PROVE Rests(d)'
  BY <1>0, <1>3 DEF JobStep, StartJob, SkipJob, FailJob, AbortJob,
                    ClickPlaceOrder, ReadPage, EndJob
<1>4. ASSUME NEW c \in Dispatches, Failure(c) \/ HealStaleAttempt(c)
      PROVE  Rests(d)'
  BY <1>0, <1>4 DEF Failure, CallerTimeout, RecordFails, BookkeepingFails,
                    HealStaleAttempt
<1>5. CASE \/ \E p \in Processes : CallerDeath(p)
           \/ \E u \in Urls : WindowExpires(u)
           \/ DaemonDeath \/ Operator \/ SyncRoster \/ UNCHANGED vars
  BY <1>0, <1>5 DEF CallerDeath, WindowExpires, DaemonDeath, Operator,
                    RequestAbort, ToggleRotation, SyncRoster, vars
<1> QED
  BY <1>1, <1>2, <1>3, <1>4, <1>5 DEF Next

(* Whom a walk assigns was not in cooldown when it looked.                 *)
LEMMA PickLooks ==
  ASSUME TypeOK, [Next]_vars, NEW d \in Dispatches, pc[d] = "pick", pc'[d] = "enter"
  PROVE  ~cooling[org'[d]] /\ \A c \in Dispatches \ {d} : org'[c] = org[c]
<1> USE DEF TypeOK, Goto
<1>1. ASSUME NEW c \in Dispatches, Dispatch(c) PROVE FALSE
  BY <1>1 DEF Dispatch, MonitorDispatch, InitiateFresh, RedirectToQueue,
              RedirectToOrg, Begin
<1>2. ASSUME NEW c \in Dispatches, CallerStep(c)
      PROVE  \E o \in Orgs : Assign(d, o)
  BY <1>2
  DEF CallerStep, EnterQueue, Exhausted, StepOver, HandOver, Assign, Advance,
      EnterAttempt, Record, Alert, PostCheckout, Bought, AbortedByOperator,
      Unreachable, CardFails, LadderEnds, SuspendRoster, SuspendDashboard,
      MarkMissed, ApplyCooldown, MarkPurchased, RecordFindingFee
<1>3. ASSUME NEW c \in Dispatches, JobStep(c) \/ Failure(c) \/ HealStaleAttempt(c)
      PROVE  FALSE
  BY <1>3 DEF JobStep, StartJob, SkipJob, FailJob, AbortJob, ClickPlaceOrder,
              ReadPage, EndJob, Failure, CallerTimeout, RecordFails,
              BookkeepingFails, HealStaleAttempt
<1>4. CASE \/ \E p \in Processes : CallerDeath(p)
           \/ \E u \in Urls : WindowExpires(u)
           \/ DaemonDeath \/ Operator \/ SyncRoster \/ UNCHANGED vars
  BY <1>4 DEF CallerDeath, WindowExpires, DaemonDeath, Operator, RequestAbort,
              ToggleRotation, SyncRoster, vars
<1>5. ASSUME NEW o \in Orgs, Assign(d, o)
      PROVE  ~cooling[org'[d]] /\ \A c \in Dispatches \ {d} : org'[c] = org[c]
  BY <1>5 DEF Assign, Eligible
<1> QED
  BY <1>1, <1>2, <1>3, <1>4, <1>5 DEF Next

(* Once an organisation's purchase is booked no walk of any process assigns *)
(* it a truck while it cools down; before, and when the booking broke off, *)
(* nothing keeps it from another one.                                      *)
THEOREM BuyersRest == Spec => RestAfterPurchase
<1>1. Init => RestInv
  BY DEF Init, RestInv, Rests
<1>2. TypeOK /\ RestInv /\ [Next]_vars =>
        \A c, d \in Dispatches :
          /\ pc[d] = "pick" /\ pc'[d] = "enter"
          /\ row[c] = "success" /\ org[c] = org'[d]
          => pc[c] \in {"cooldown", "raised", "dead"}
  <2> SUFFICES ASSUME TypeOK, RestInv, [Next]_vars, NEW c \in Dispatches,
                      NEW d \in Dispatches, pc[d] = "pick", pc'[d] = "enter",
                      row[c] = "success", org[c] = org'[d]
               PROVE  pc[c] \in {"cooldown", "raised", "dead"}
    OBVIOUS
  <2>1. ~cooling[org[c]]
    BY PickLooks
  <2> QED
    BY <2>1 DEF RestInv, Rests
<1> QED
  BY <1>1, <1>2, StepRestInv, TypeCorrect, PTL DEF Spec, RestAfterPurchase

-----------------------------------------------------------------------------
(* A purchased truck.                                                      *)

Rewriting == {"pick", "record", "record_alert", "miss", "advance"}

LEMMA PurchasedLostBy ==
  ASSUME TypeOK, [Next]_vars, NEW e \in Events, truck[e] = "purchased",
         truck'[e] # "purchased"
  PROVE  \E d \in Dispatches : event[d] = e /\ pc[d] \in Rewriting
<1> USE DEF TypeOK, roster, stores, SetTruck, Rewriting
<1>1. ASSUME NEW c \in Dispatches, Dispatch(c) PROVE FALSE
  BY <1>1 DEF Dispatch, MonitorDispatch, InitiateFresh, RedirectToQueue,
              RedirectToOrg
<1>2. ASSUME NEW c \in Dispatches, CallerStep(c)
      PROVE  event[c] = e /\ pc[c] \in Rewriting
  BY <1>2
  DEF CallerStep, EnterQueue, Exhausted, StepOver, HandOver, Assign, Advance,
      EnterAttempt, Record, Alert, PostCheckout, Bought, AbortedByOperator,
      Unreachable, CardFails, LadderEnds, SuspendRoster, SuspendDashboard,
      MarkMissed, ApplyCooldown, MarkPurchased, RecordFindingFee
<1>3. ASSUME NEW c \in Dispatches, JobStep(c) \/ Failure(c) \/ HealStaleAttempt(c)
      PROVE  FALSE
  BY <1>3 DEF JobStep, StartJob, SkipJob, FailJob, AbortJob, ClickPlaceOrder,
              ReadPage, EndJob, Failure, CallerTimeout, RecordFails,
              BookkeepingFails, HealStaleAttempt
<1>4. CASE \/ \E p \in Processes : CallerDeath(p)
           \/ \E u \in Urls : WindowExpires(u)
           \/ DaemonDeath \/ Operator \/ SyncRoster \/ UNCHANGED vars
  BY <1>4 DEF CallerDeath, WindowExpires, DaemonDeath, Operator, RequestAbort,
              ToggleRotation, SyncRoster, vars
<1> QED
  BY <1>1, <1>2, <1>3, <1>4 DEF Next

(* Redirects, retries and walks of other processes included, a purchased    *)
(* truck is rewritten only by an attempt that was under way beside the one *)
(* that bought it, never by that one nor by a new dispatch.                *)
THEOREM PurchasedStays == Spec => PurchasedIsFinal
<1>1. OrderInv /\ [Next]_vars =>
        \A e \in Events : truck[e] = "purchased" /\ truck'[e] # "purchased" =>
          \E d \in Dispatches :
            event[d] = e /\ pc[d] \notin Finished \cup {"queued"} /\ row[d] # "success"
  BY PurchasedLostBy DEF OrderInv, OneOrder, MayPost, Rewriting, Finished
<1>2. Spec => []OrderInv
  BY OrderInvariant
<1> QED
  BY <1>1, <1>2, PTL DEF Spec, PurchasedIsFinal
=============================================================================
