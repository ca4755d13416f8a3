------------------------------- MODULE Notifier -------------------------------
(***************************************************************************)
(* The notification queue, good360_roster/notifier.py: a queue in memory   *)
(* and a background thread that takes notices from it, looks the org up,   *)
(* sends a mail and perhaps an SMS, and enters the result in the history   *)
(* (system_events) of the org.  Every process that runs purchases has a    *)
(* queue of its own; this is one of them, Mission Control, where each      *)
(* redirect of the operator is a thread that may end in a notice.          *)
(*                                                                         *)
(* A caller first sees to it that the thread runs (start_dispatch_worker), *)
(* and then queues its notice.  The test for a running thread, the         *)
(* creation of one and its start are three steps, the last two through a   *)
(* global, and callers overlap.  The process may be restarted at any time. *)
(***************************************************************************)
EXTENDS Naturals, Sequences

CONSTANTS
  Callers,      \* threads that may have something to tell
  Orgs,         \* organisations of the roster
  SmsOrgs,      \* those with sms_alerts_enabled and a phone number
  Enabled,      \* ENABLE_NOTIFICATIONS of this environment
  MaxFaults,    \* bound: errors of the roster database
  MaxRestarts   \* bound: restarts of the process

ASSUME SmsAssumption == SmsOrgs \subseteq Orgs
ASSUME EnabledAssumption == Enabled \in BOOLEAN
ASSUME BoundsAssumption == MaxFaults \in Nat /\ MaxRestarts \in Nat
ASSUME NobodyAssumption == "nobody" \notin Callers

NoWorker == "nobody"   \* _dispatch_worker is None; the queue.get of no job

VARIABLES
  pc,        \* pc[c]: how far caller c is
  kind,      \* kind[c]: what it has to tell
  org,       \* org[c]: of which organisation
  handle,    \* the global _dispatch_worker, named by the caller that made it
  worker,    \* worker[w]: state of the thread that caller w made
  held,      \* held[w]: the notice it works on
  mailOk,    \* mailOk[w], smsOk[w]: what the two transports answered
  smsOk,
  queue,     \* _notification_queue; a notice is named by its caller
  settled,   \* notices the worker is through with
  mails,     \* mails[c], texts[c]: how often notice c went out
  texts,
  history,   \* history[c]: rows of system_events about notice c
  faults,
  restarts

callers == <<pc, kind, org>>
threads == <<worker, held, mailOk, smsOk>>
world == <<mails, texts, history>>
vars == <<callers, handle, threads, queue, settled, world, faults, restarts>>

(* "purchased": notify_purchase_success.  "alert": notify_truck_alert from  *)
(* handle_alert_only, all purchases of the org are manual.  "category":    *)
(* alert_only_timer, those of the truck's category are.                    *)
Kinds == {"purchased", "alert", "category"}
Busy == {"reading", "mailing", "texting", "logging", "stuck"}
Alive == {"waiting"} \cup Busy
HistoryRow == [mail : BOOLEAN, sms : BOOLEAN]

TypeOK ==
  /\ pc \in [Callers -> {"idle", "check", "create", "start", "notify",
                         "queued", "raised", "lost"}]
  /\ kind \in [Callers -> Kinds]
  /\ org \in [Callers -> Orgs]
  /\ handle \in Callers \cup {NoWorker}
  /\ worker \in [Callers -> {"none", "new"} \cup Alive]
  /\ held \in [Callers -> Callers \cup {NoWorker}]
  /\ mailOk \in [Callers -> BOOLEAN]
  /\ smsOk \in [Callers -> BOOLEAN]
  /\ queue \in Seq(Callers)
  /\ settled \subseteq Callers
  /\ mails \in [Callers -> Nat]
  /\ texts \in [Callers -> Nat]
  /\ history \in [Callers -> Seq(HistoryRow)]
  /\ faults \in 0 .. MaxFaults
  /\ restarts \in 0 .. MaxRestarts

Init ==
  /\ pc = [c \in Callers |-> "idle"]
  /\ kind \in [Callers -> Kinds]
  /\ org \in [Callers -> Orgs]
  /\ handle = NoWorker
  /\ worker = [w \in Callers |-> "none"]
  /\ held = [w \in Callers |-> NoWorker]
  /\ mailOk = [w \in Callers |-> FALSE]
  /\ smsOk = [w \in Callers |-> FALSE]
  /\ queue = <<>>
  /\ settled = {}
  /\ mails = [c \in Callers |-> 0]
  /\ texts = [c \in Callers |-> 0]
  /\ history = [c \in Callers |-> <<>>]
  /\ faults = 0
  /\ restarts = 0

-----------------------------------------------------------------------------
(* The callers.                                                            *)

Go(c, from, to) == pc[c] = from /\ pc' = [pc EXCEPT ![c] = to]

queue_notification(c) == queue' = Append(queue, c)

(* A notice for organisation 0, as the caller names none.                  *)
notify_admin_alert(c) == queue_notification(c)

(* A purchase succeeded, or is left to the org.                            *)
HasNews(c) ==
  /\ kind[c] # "category"
  /\ Go(c, "idle", "check")
  /\ UNCHANGED <<kind, org, handle, threads, queue, settled, world, faults, restarts>>

(* alert_only_timer passes notify_truck_alert two of its seven arguments;   *)
(* the error is caught and queued for the administrator, without a look at  *)
(* the worker.                                                             *)
alert_only_timer(c) ==
  /\ kind[c] = "category"
  /\ Go(c, "idle", "queued")
  /\ notify_admin_alert(c)
  /\ UNCHANGED <<kind, org, handle, threads, settled, world, faults, restarts>>

(* Slip: there is a worker object, started or not. *)
SlipAlive(w) == w # NoWorker

is_alive(w) == w # NoWorker /\ worker[w] \in Alive

FindsWorker(c) ==
  /\ is_alive(handle)
  /\ Go(c, "check", "notify")
  /\ UNCHANGED <<kind, org, handle, threads, queue, settled, world, faults, restarts>>

FindsNoWorker(c) ==
  /\ ~is_alive(handle)
  /\ Go(c, "check", "create")
  /\ UNCHANGED <<kind, org, handle, threads, queue, settled, world, faults, restarts>>

CreateWorker(c) ==
  /\ Go(c, "create", "start")
  /\ handle' = c
  /\ worker' = [worker EXCEPT ![c] = "new"]
  /\ UNCHANGED <<kind, org, held, mailOk, smsOk, queue, settled, world, faults, restarts>>

(* _dispatch_worker.start() starts whatever thread the global names now; a  *)
(* thread that was started before raises RuntimeError.  Two starts of one   *)
(* thread at the very same time are taken one after the other.             *)
StartWorker(c) ==
  /\ Go(c, "start", "notify")
  /\ worker[handle] = "new"
  /\ worker' = [worker EXCEPT ![handle] = "waiting"]
  /\ UNCHANGED <<kind, org, handle, held, mailOk, smsOk, queue, settled, world,
                 faults, restarts>>

StartedTwice(c) ==
  /\ Go(c, "start", "raised")
  /\ worker[handle] # "new"
  /\ UNCHANGED <<kind, org, handle, threads, queue, settled, world, faults, restarts>>

Notify(c) ==
  /\ Go(c, "notify", "queued")
  /\ queue_notification(c)
  /\ UNCHANGED <<kind, org, handle, threads, settled, world, faults, restarts>>

NotifyFails(c) ==
  /\ faults < MaxFaults
  /\ faults' = faults + 1
  /\ Go(c, "notify", "raised")
  /\ UNCHANGED <<kind, org, handle, threads, queue, settled, world, restarts>>

-----------------------------------------------------------------------------
(* The worker, _dispatch_loop.                                             *)

Step(w, from, to) == worker[w] = from /\ worker' = [worker EXCEPT ![w] = to]

Get(w) ==
  /\ queue # <<>>
  /\ Step(w, "waiting", "reading")
  /\ held' = [held EXCEPT ![w] = Head(queue)]
  /\ queue' = Tail(queue)
  /\ mailOk' = [mailOk EXCEPT ![w] = FALSE]
  /\ smsOk' = [smsOk EXCEPT ![w] = FALSE]
  /\ UNCHANGED <<callers, handle, settled, world, faults, restarts>>

task_done(w) ==
  /\ held' = [held EXCEPT ![w] = NoWorker]
  /\ settled' = settled \cup {held[w]}

(* Slip: a notice for nobody ends the loop. *)
SlipDrop(w) ==
  /\ Step(w, "reading", "none")
  /\ kind[held[w]] = "category"
  /\ task_done(w)
  /\ UNCHANGED <<callers, handle, mailOk, smsOk, queue, world, faults, restarts>>

(* There is no organisation 0: the administrator's notice is dropped.      *)
Drop(w) ==
  /\ Step(w, "reading", "waiting")
  /\ kind[held[w]] = "category"
  /\ task_done(w)
  /\ UNCHANGED <<callers, handle, mailOk, smsOk, queue, world, faults, restarts>>

FindOrg(w) ==
  /\ Step(w, "reading", "mailing")
  /\ kind[held[w]] # "category"
  /\ UNCHANGED <<callers, handle, held, mailOk, smsOk, queue, settled, world,
                 faults, restarts>>

(* What a transport may do: take the message and say so, refuse it, or     *)
(* take it and break off before the answer.                                *)
Delivery == {<<TRUE, TRUE>>, <<FALSE, FALSE>>, <<TRUE, FALSE>>}

(* Slip: a mail that was not acknowledged is sent again. *)
SlipSend(w) ==
  /\ worker[w] = "mailing"
  /\ \E d \in Delivery :
       /\ ~Enabled => d = <<FALSE, FALSE>>
       /\ mails' = [mails EXCEPT ![held[w]] = @ + (IF d[1] THEN 1 ELSE 0)]
       /\ mailOk' = [mailOk EXCEPT ![w] = d[2]]
       /\ worker' = [worker EXCEPT ![w] = IF d[2] THEN "texting" ELSE "mailing"]
  /\ UNCHANGED <<callers, handle, held, smsOk, queue, settled, texts, history,
                 faults, restarts>>

send_email(w) ==
  /\ Step(w, "mailing", "texting")
  /\ \E d \in Delivery :
       /\ ~Enabled => d = <<FALSE, FALSE>>
       /\ mails' = [mails EXCEPT ![held[w]] = @ + (IF d[1] THEN 1 ELSE 0)]
       /\ mailOk' = [mailOk EXCEPT ![w] = d[2]]
  /\ UNCHANGED <<callers, handle, held, smsOk, queue, settled, texts, history,
                 faults, restarts>>

(* The connection has no timeout: a mail server that falls silent keeps the *)
(* worker for good.                                                        *)
MailHangs(w) ==
  /\ Enabled
  /\ Step(w, "mailing", "stuck")
  /\ UNCHANGED <<callers, handle, held, mailOk, smsOk, queue, settled, world,
                 faults, restarts>>

WantsSms(c) == kind[c] = "alert" /\ org[c] \in SmsOrgs

send_sms(w) ==
  /\ Step(w, "texting", "logging")
  /\ \E d \in Delivery :
       /\ ~Enabled \/ ~WantsSms(held[w]) => d = <<FALSE, FALSE>>
       /\ texts' = [texts EXCEPT ![held[w]] = @ + (IF d[1] THEN 1 ELSE 0)]
       /\ smsOk' = [smsOk EXCEPT ![w] = d[2]]
  /\ UNCHANGED <<callers, handle, held, mailOk, queue, settled, mails, history,
                 faults, restarts>>

(* Slip: the attempt is logged, not its outcome. *)
SlipLog(w) ==
  /\ Step(w, "logging", "waiting")
  /\ history' = [history EXCEPT ![held[w]] =
                   Append(@, [mail |-> Enabled, sms |-> WantsSms(held[w])])]
  /\ task_done(w)
  /\ UNCHANGED <<callers, handle, mailOk, smsOk, queue, mails, texts, faults, restarts>>

LogResult(w) ==
  /\ Step(w, "logging", "waiting")
  /\ history' = [history EXCEPT ![held[w]] =
                   Append(@, [mail |-> mailOk[w], sms |-> smsOk[w]])]
  /\ task_done(w)
  /\ UNCHANGED <<callers, handle, mailOk, smsOk, queue, mails, texts, faults, restarts>>

(* Slip: the error is not caught and ends the thread. *)
SlipFails(w) ==
  /\ faults < MaxFaults
  /\ faults' = faults + 1
  /\ worker[w] \in {"reading", "texting", "logging"}
  /\ worker' = [worker EXCEPT ![w] = "none"]
  /\ UNCHANGED <<callers, handle, held, mailOk, smsOk, queue, settled, world, restarts>>

(* The roster is locked or gone: the loop logs the error and goes on with   *)
(* the next notice.                                                        *)
DispatchFails(w) ==
  /\ faults < MaxFaults
  /\ faults' = faults + 1
  /\ worker[w] \in {"reading", "texting", "logging"}
  /\ worker' = [worker EXCEPT ![w] = "waiting"]
  /\ task_done(w)
  /\ UNCHANGED <<callers, handle, mailOk, smsOk, queue, world, restarts>>

-----------------------------------------------------------------------------
(* The process ends, its threads and its queue with it; the next one has    *)
(* fresh callers.                                                          *)
Underway(c) == pc[c] \notin {"idle", "raised"} /\ c \notin settled

Restart ==
  /\ restarts < MaxRestarts
  /\ restarts' = restarts + 1
  /\ pc' = [c \in Callers |-> IF Underway(c) THEN "lost" ELSE pc[c]]
  /\ handle' = NoWorker
  /\ worker' = [w \in Callers |-> "none"]
  /\ held' = [w \in Callers |-> NoWorker]
  /\ queue' = <<>>
  /\ UNCHANGED <<kind, org, mailOk, smsOk, settled, world, faults>>

CallerStep(c) ==
  \/ HasNews(c) \/ alert_only_timer(c) \/ FindsWorker(c) \/ FindsNoWorker(c)
  \/ CreateWorker(c) \/ StartWorker(c) \/ StartedTwice(c) \/ Notify(c) \/ NotifyFails(c)

WorkerStep(w) ==
  \/ Get(w) \/ Drop(w) \/ FindOrg(w) \/ send_email(w) \/ MailHangs(w) \/ send_sms(w)
  \/ LogResult(w) \/ DispatchFails(w)

Next ==
  \/ \E c \in Callers : CallerStep(c) \/ WorkerStep(c)
  \/ Restart

Spec == Init /\ [][Next]_vars

(* A started thread gets to run.                                           *)
Fairness == \A w \in Callers : WF_vars(WorkerStep(w))
FairSpec == Spec /\ Fairness

-----------------------------------------------------------------------------
(* However many workers there are, and whatever a transport says after it   *)
(* took a message: nobody is told the same thing twice.                    *)
NoNoticeTwice ==
  \A c \in Callers : mails[c] <= 1 /\ texts[c] <= 1 /\ Len(history[c]) <= 1

(* The history the dashboard shows claims a mail or an SMS only where one   *)
(* went out for this very notice; an SMS is never sent to who has not      *)
(* asked for it.                                                           *)
HistoryIsHonest ==
  \A c \in Callers :
    /\ \A i \in 1 .. Len(history[c]) :
         (history[c][i].mail => mails[c] = 1) /\ (history[c][i].sms => texts[c] = 1)
    /\ texts[c] > 0 => WantsSms(c)

(* As long as the process lives, a queued notice is in one place: in the    *)
(* queue, in the hands of one living worker, or dealt with.                *)
Places(c) == {i \in 1 .. Len(queue) : queue[i] = c}
Holders(c) == {w \in Callers : held[w] = c /\ worker[w] \in Busy}
NothingGoesMissing ==
  \A c \in Callers : pc[c] = "queued" =>
    \/ c \in settled /\ Places(c) = {} /\ Holders(c) = {}
    \/ c \notin settled /\ Holders(c) = {} /\ \E i \in Places(c) : Places(c) = {i}
    \/ c \notin settled /\ Places(c) = {} /\ \E w \in Holders(c) : Holders(c) = {w}

(* Whoever went through start_dispatch_worker, whatever race it met there,  *)
(* does not queue its notice for nobody: some worker is alive.             *)
WorkerInAttendance ==
  \A c \in Callers :
    pc[c] \in {"notify", "queued"} /\ kind[c] # "category" /\ c \notin settled =>
      \E w \in Callers : worker[w] \in Alive

(* Such a notice is dealt with in the end, unless the process is restarted  *)
(* or the mail server hangs.                                               *)
NoticesAreSettled ==
  \A c \in Callers : pc[c] = "queued" /\ kind[c] # "category" ~>
    \/ c \in settled \/ pc[c] = "lost"
    \/ \E w \in Callers : worker[w] = "stuck"
=============================================================================
