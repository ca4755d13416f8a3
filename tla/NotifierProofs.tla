---------------------------- MODULE NotifierProofs ----------------------------
(***************************************************************************)
(* The notification queue for any number of callers, organisations, faults *)
(* and restarts.  Three invariants build on each other: what the threads   *)
(* and the global that names one of them have to do with each other; where *)
(* a notice is (queue, one worker's hands, or settled, and never in two    *)
(* places); and how far it has got into the world, which is fixed by where *)
(* it is.                                                                  *)
(***************************************************************************)
EXTENDS Notifier, TLAPS

ThreadInv ==
  /\ \A w \in Callers : held[w] = NoWorker <=> worker[w] \notin Busy
  /\ handle # NoWorker => worker[handle] \in {"new"} \cup Alive
  /\ \A c \in Callers : pc[c] = "start" => handle # NoWorker
  /\ \A c \in Callers : pc[c] \in {"idle", "check", "create"} => worker[c] = "none"

Entries(q) == {q[i] : i \in 1 .. Len(q)}
Distinct(q) == \A i, j \in 1 .. Len(q) : q[i] = q[j] => i = j

(* No two entries of the queue are the same; a notice in the queue is not   *)
(* in anybody's hands; neither is one that is settled.                     *)
PlaceInv ==
  /\ Distinct(queue)
  /\ \A c \in Entries(queue) :
       pc[c] = "queued" /\ c \notin settled /\ \A w \in Callers : held[w] # c
  /\ \A w \in Callers : held[w] # NoWorker =>
       /\ pc[held[w]] = "queued" /\ held[w] \notin settled
       /\ \A v \in Callers : held[v] = held[w] => v = w
  /\ \A c \in Callers : pc[c] = "queued" =>
       c \in settled \/ c \in Entries(queue) \/ \E w \in Callers : held[w] = c
  /\ \A c \in settled : pc[c] = "queued"

Untouched(c) == mails[c] = 0 /\ texts[c] = 0 /\ history[c] = <<>>

(* What worker w has done for the notice in its hands.                     *)
Progress(w) ==
  /\ history[held[w]] = <<>>
  /\ worker[w] \in {"reading", "mailing", "stuck"} => mails[held[w]] = 0
  /\ worker[w] # "logging" => texts[held[w]] = 0
  /\ worker[w] \in {"texting", "logging"} /\ mailOk[w] => mails[held[w]] = 1
  /\ worker[w] = "logging" /\ smsOk[w] => texts[held[w]] = 1

WorldInv ==
  /\ \A c \in Callers : pc[c] \notin {"queued", "lost"} => Untouched(c)
  /\ \A c \in Entries(queue) : Untouched(c)
  /\ \A w \in Callers : worker[w] \in Busy => Progress(w)

-----------------------------------------------------------------------------
(* Types.                                                                  *)

LEMMA TypeInit == Init => TypeOK
BY BoundsAssumption DEF Init, TypeOK, NoWorker

(* What a queue of callers is after queue_notification and after get.       *)
LEMMA Appended ==
  ASSUME NEW q \in Seq(Callers), NEW c \in Callers
  PROVE  /\ Append(q, c) \in Seq(Callers)
         /\ Entries(q) \subseteq Callers
         /\ Entries(Append(q, c)) = Entries(q) \cup {c}
         /\ Distinct(q) /\ c \notin Entries(q) => Distinct(Append(q, c))
<1> DEFINE r == Append(q, c)  n == Len(q)
<1>1. /\ r \in Seq(Callers) /\ n \in Nat /\ Len(r) = n + 1
      /\ \A i \in 1 .. n : r[i] = q[i] /\ q[i] \in Callers
      /\ r[n + 1] = c
  OBVIOUS
<1> HIDE DEF r, n
<1>2. 1 .. Len(r) = (1 .. n) \cup {n + 1} /\ \A i \in 1 .. n : i # n + 1
  BY <1>1
<1>3. Len(q) = n
  BY DEF n
<1>4. Entries(q) \subseteq Callers
  BY <1>1, <1>3 DEF Entries
<1>5. Entries(r) = Entries(q) \cup {c}
  <2>1. ASSUME NEW i \in 1 .. Len(r) PROVE r[i] \in Entries(q) \cup {c}
    BY <1>1, <1>2, <1>3, <2>1 DEF Entries
  <2>2. ASSUME NEW i \in 1 .. n PROVE q[i] \in Entries(r)
    BY <1>1, <1>2, <2>2 DEF Entries
  <2>3. c \in Entries(r)
    BY <1>1, <1>2 DEF Entries
  <2>4. Entries(r) \subseteq Entries(q) \cup {c}
    BY <2>1 DEF Entries
  <2>5. Entries(q) \subseteq Entries(r)
    BY <1>3, <2>2 DEF Entries
  <2> QED
    BY <2>3, <2>4, <2>5
<1>6. ASSUME Distinct(q), c \notin Entries(q) PROVE Distinct(r)
  <2>1. \A i \in 1 .. n : r[i] # r[n + 1]
    BY <1>1, <1>3, <1>6 DEF Entries
  <2> QED
    BY <1>1, <1>2, <1>3, <1>6, <2>1, Zenon DEF Distinct
<1> QED
  BY <1>1, <1>4, <1>5, <1>6 DEF r

LEMMA Taken ==
  ASSUME NEW q \in Seq(Callers), q # <<>>
  PROVE  /\ Tail(q) \in Seq(Callers)
         /\ Head(q) \in Entries(q) /\ Head(q) \in Callers
         /\ Entries(Tail(q)) \subseteq Entries(q)
         /\ Entries(q) \subseteq Entries(Tail(q)) \cup {Head(q)}
         /\ Distinct(q) => Distinct(Tail(q)) /\ Head(q) \notin Entries(Tail(q))
<1> DEFINE r == Tail(q)  n == Len(q)
<1>1. /\ r \in Seq(Callers) /\ n \in Nat /\ n > 0
      /\ Len(r) = n - 1 /\ Head(q) = q[1] /\ q[1] \in Callers
      /\ \A i \in 1 .. n - 1 : r[i] = q[i + 1]
  OBVIOUS
<1> HIDE DEF r, n
<1>2. Len(q) = n
  BY DEF n
<1>3. /\ 1 \in 1 .. n
      /\ \A i \in 1 .. n - 1 : i + 1 \in 1 .. n /\ i + 1 # 1 /\ i \in Nat
      /\ \A i \in 1 .. n : i = 1 \/ (i - 1 \in 1 .. n - 1 /\ (i - 1) + 1 = i)
  BY <1>1
<1>4. Head(q) \in Entries(q)
  BY <1>1, <1>2, <1>3 DEF Entries
<1>5. Entries(r) \subseteq Entries(q)
  BY <1>1, <1>2, <1>3 DEF Entries
<1>6. ASSUME NEW c \in Entries(q), c # Head(q) PROVE c \in Entries(r)
  <2>1. PICK i \in 1 .. n : c = q[i]
    BY <1>2, <1>6 DEF Entries
  <2>2. i # 1
    BY <1>1, <1>6, <2>1
  <2>3. r[i - 1] = c /\ i - 1 \in 1 .. n - 1
    BY <1>1, <1>3, <2>1, <2>2
  <2> QED
    BY <1>1, <2>3 DEF Entries
<1>7. ASSUME Distinct(q) PROVE Distinct(r) /\ Head(q) \notin Entries(r)
  <2>1. ASSUME NEW i \in 1 .. n - 1, NEW j \in 1 .. n - 1, r[i] = r[j] PROVE i = j
    <3>1. i + 1 = j + 1
      BY <1>1, <1>2, <1>3, <1>7, <2>1 DEF Distinct
    <3> QED
      BY <1>3, <3>1
  <2>2. \A i \in 1 .. n - 1 : r[i] # Head(q)
    BY <1>1, <1>2, <1>3, <1>7 DEF Distinct
  <2> QED
    BY <1>1, <2>1, <2>2 DEF Distinct, Entries
<1> QED
  BY <1>1, <1>4, <1>5, <1>6, <1>7 DEF r

LEMMA EntriesTyped ==
  ASSUME NEW q \in Seq(Callers)
  PROVE  Entries(q) \subseteq Callers
BY DEF Entries

LEMMA OneRow ==
  ASSUME NEW m \in BOOLEAN, NEW s \in BOOLEAN
  PROVE  /\ Append(<<>>, [mail |-> m, sms |-> s]) \in Seq(HistoryRow)
         /\ Len(Append(<<>>, [mail |-> m, sms |-> s])) = 1
         /\ Append(<<>>, [mail |-> m, sms |-> s])[1] = [mail |-> m, sms |-> s]
BY DEF HistoryRow

(* A transport takes the message or not, and has taken it when it says so.  *)
LEMMA Mailed ==
  ASSUME NEW w \in Callers, send_email(w)
  PROVE  \E k \in {0, 1}, ok \in BOOLEAN :
           /\ mails' = [mails EXCEPT ![held[w]] = mails[held[w]] + k]
           /\ mailOk' = [mailOk EXCEPT ![w] = ok]
           /\ ok => k = 1
<1>1. PICK d \in Delivery :
        /\ mails' = [mails EXCEPT ![held[w]] = mails[held[w]] + (IF d[1] THEN 1 ELSE 0)]
        /\ mailOk' = [mailOk EXCEPT ![w] = d[2]]
  BY DEF send_email
<1>2. CASE d = <<TRUE, TRUE>>
  BY <1>1, <1>2
<1>3. CASE d = <<FALSE, FALSE>>
  BY <1>1, <1>3
<1>4. CASE d = <<TRUE, FALSE>>
  BY <1>1, <1>4
<1> QED
  BY <1>2, <1>3, <1>4 DEF Delivery

LEMMA Texted ==
  ASSUME NEW w \in Callers, send_sms(w)
  PROVE  \E k \in {0, 1}, ok \in BOOLEAN :
           /\ texts' = [texts EXCEPT ![held[w]] = texts[held[w]] + k]
           /\ smsOk' = [smsOk EXCEPT ![w] = ok]
           /\ ok => k = 1
           /\ k = 1 => WantsSms(held[w])
<1>1. PICK d \in Delivery :
        /\ ~Enabled \/ ~WantsSms(held[w]) => d = <<FALSE, FALSE>>
        /\ texts' = [texts EXCEPT ![held[w]] = texts[held[w]] + (IF d[1] THEN 1 ELSE 0)]
        /\ smsOk' = [smsOk EXCEPT ![w] = d[2]]
  BY DEF send_sms
<1>2. CASE d = <<TRUE, TRUE>>
  <2>1. d # <<FALSE, FALSE>>
    BY <1>2
  <2>2. WantsSms(held[w])
    BY <1>1, <2>1
  <2> QED
    BY <1>1, <1>2, <2>2
<1>3. CASE d = <<FALSE, FALSE>>
  <2>1. texts' = [texts EXCEPT ![held[w]] = texts[held[w]] + 0]
        /\ smsOk' = [smsOk EXCEPT ![w] = FALSE]
    BY <1>1, <1>3
  <2>2. WITNESS 0 \in {0, 1}, FALSE \in BOOLEAN
  <2> QED
    BY <2>1
<1>4. CASE d = <<TRUE, FALSE>>
  <2>1. d # <<FALSE, FALSE>>
    BY <1>4
  <2>2. WantsSms(held[w])
    BY <1>1, <2>1
  <2> QED
    BY <1>1, <1>4, <2>2
<1> QED
  BY <1>2, <1>3, <1>4 DEF Delivery

LEMMA TypeStep == TypeOK /\ ThreadInv /\ [Next]_vars => TypeOK'
<1> SUFFICES ASSUME TypeOK, ThreadInv, [Next]_vars PROVE TypeOK'
  OBVIOUS
<1> USE DEF TypeOK
<1>1. ASSUME NEW c \in Callers, CallerStep(c) PROVE TypeOK'
  <2>1. CASE HasNews(c) \/ FindsWorker(c) \/ FindsNoWorker(c) \/ StartedTwice(c)
    BY <2>1 DEF HasNews, FindsWorker, FindsNoWorker, StartedTwice, Go, threads, world
  <2>2. CASE alert_only_timer(c) \/ Notify(c)
    <3>0. queue' = Append(queue, c)
      BY <2>2 DEF alert_only_timer, Notify, notify_admin_alert, queue_notification
    <3>1. queue' \in Seq(Callers)
      BY <3>0, Appended
    <3> QED
      BY <2>2, <3>1 DEF alert_only_timer, Notify, Go, threads, world
  <2>3. CASE CreateWorker(c)
    BY <2>3 DEF CreateWorker, Go, world, Alive
  <2>4. CASE StartWorker(c)
    BY <2>4 DEF StartWorker, Go, world, Alive
  <2>5. CASE NotifyFails(c)
    BY <2>5, BoundsAssumption DEF NotifyFails, Go, threads, world
  <2> QED
    BY <1>1, <2>1, <2>2, <2>3, <2>4, <2>5 DEF CallerStep
<1>2. ASSUME NEW w \in Callers, WorkerStep(w) PROVE TypeOK'
  <2>0. worker[w] \in Busy => held[w] \in Callers
    BY DEF ThreadInv
  <2>1. CASE Get(w)
    <3>1. queue' \in Seq(Callers) /\ Head(queue) \in Callers
      BY <2>1, Taken DEF Get
    <3> QED
      BY <2>1, <3>1 DEF Get, Step, callers, world, Alive, Busy
  <2>2. CASE Drop(w)
    BY <2>0, <2>2 DEF Drop, Step, task_done, callers, world, Alive, Busy
  <2>3. CASE FindOrg(w) \/ MailHangs(w)
    BY <2>3 DEF FindOrg, MailHangs, Step, callers, world, Alive, Busy
  <2>4. CASE send_email(w)
    <3>1. PICK k \in {0, 1}, ok \in BOOLEAN :
            /\ mails' = [mails EXCEPT ![held[w]] = mails[held[w]] + k]
            /\ mailOk' = [mailOk EXCEPT ![w] = ok]
      BY <2>4, Mailed
    <3>2. mails' \in [Callers -> Nat] /\ held[w] \in Callers
      BY <2>0, <2>4, <3>1 DEF send_email, Step, Busy
    <3>3. mailOk' \in [Callers -> BOOLEAN]
      BY <3>1
    <3> QED
      BY <2>4, <3>2, <3>3 DEF send_email, Step, callers, Alive, Busy
  <2>5. CASE send_sms(w)
    <3>1. PICK k \in {0, 1}, ok \in BOOLEAN :
            /\ texts' = [texts EXCEPT ![held[w]] = texts[held[w]] + k]
            /\ smsOk' = [smsOk EXCEPT ![w] = ok]
      BY <2>5, Texted
    <3>2. texts' \in [Callers -> Nat] /\ held[w] \in Callers
      BY <2>0, <2>5, <3>1 DEF send_sms, Step, Busy
    <3>3. smsOk' \in [Callers -> BOOLEAN]
      BY <3>1
    <3> QED
      BY <2>5, <3>2, <3>3 DEF send_sms, Step, callers, Alive, Busy
  <2>6. CASE LogResult(w)
    <3>1. [mail |-> mailOk[w], sms |-> smsOk[w]] \in HistoryRow
      BY DEF HistoryRow
    <3>2. history' \in [Callers -> Seq(HistoryRow)]
      BY <2>0, <2>6, <3>1 DEF LogResult, Step, Busy
    <3> QED
      BY <2>0, <2>6, <3>2 DEF LogResult, Step, task_done, callers, Alive, Busy
  <2>7. CASE DispatchFails(w)
    BY <2>0, <2>7, BoundsAssumption DEF DispatchFails, task_done, callers, world, Alive, Busy
  <2> QED
    BY <1>2, <2>1, <2>2, <2>3, <2>4, <2>5, <2>6, <2>7 DEF WorkerStep
<1>3. CASE Restart
  BY <1>3, BoundsAssumption DEF Restart, world
<1>4. CASE UNCHANGED vars
  BY <1>4 DEF vars, callers, threads, world
<1> QED
  BY <1>1, <1>2, <1>3, <1>4 DEF Next

-----------------------------------------------------------------------------
(* The threads.                                                            *)

LEMMA ThreadStep == TypeOK /\ ThreadInv /\ PlaceInv /\ [Next]_vars => ThreadInv'
<1> SUFFICES ASSUME TypeOK, ThreadInv, PlaceInv, [Next]_vars PROVE ThreadInv'
  OBVIOUS
<1> USE NobodyAssumption DEF TypeOK, ThreadInv, NoWorker
<1>1. ASSUME NEW c \in Callers, CallerStep(c) PROVE ThreadInv'
  <2>1. CASE HasNews(c) \/ FindsWorker(c) \/ FindsNoWorker(c) \/ StartedTwice(c)
    BY <2>1 DEF HasNews, FindsWorker, FindsNoWorker, StartedTwice, Go, threads
  <2>2. CASE alert_only_timer(c) \/ Notify(c) \/ NotifyFails(c)
    BY <2>2 DEF alert_only_timer, Notify, NotifyFails, Go, threads
  <2>3. CASE CreateWorker(c)
    BY <2>3 DEF CreateWorker, Go, Alive, Busy
  <2>4. CASE StartWorker(c)
    BY <2>4 DEF StartWorker, Go, Alive, Busy
  <2> QED
    BY <1>1, <2>1, <2>2, <2>3, <2>4 DEF CallerStep
<1>2. ASSUME NEW w \in Callers, WorkerStep(w) PROVE ThreadInv'
  <2>1. worker[w] \in Alive
    BY <1>2 DEF WorkerStep, Get, Drop, FindOrg, send_email, MailHangs, send_sms,
         LogResult, DispatchFails, Step, Alive, Busy
  <2>2. CASE Get(w)
    <3>1. Head(queue) \in Callers
      BY <2>2, Taken DEF Get
    <3> QED
      BY <2>1, <2>2, <3>1 DEF Get, Step, callers, Alive, Busy
  <2>3. CASE Drop(w) \/ LogResult(w) \/ DispatchFails(w)
    <3>1. /\ worker' = [worker EXCEPT ![w] = "waiting"]
          /\ held' = [held EXCEPT ![w] = NoWorker]
          /\ UNCHANGED <<pc, handle>>
      BY <2>3 DEF Drop, LogResult, DispatchFails, Step, task_done, callers
    <3> QED
      BY <2>1, <3>1 DEF Alive, Busy
  <2>4. CASE FindOrg(w) \/ send_email(w) \/ MailHangs(w) \/ send_sms(w)
    <3>1. /\ worker[w] \in Busy
          /\ \E s \in Busy : worker' = [worker EXCEPT ![w] = s]
          /\ UNCHANGED <<pc, handle, held>>
      BY <2>4 DEF FindOrg, send_email, MailHangs, send_sms, Step, callers, Busy
    <3> QED
      BY <2>1, <3>1 DEF Alive, Busy
  <2> QED
    BY <1>2, <2>2, <2>3, <2>4 DEF WorkerStep
<1>3. CASE Restart
  BY <1>3 DEF Restart, Underway, PlaceInv, Busy
<1>4. CASE UNCHANGED vars
  BY <1>4 DEF vars, callers, threads
<1> QED
  BY <1>1, <1>2, <1>3, <1>4 DEF Next

(* No step of a caller or a worker ends a living thread.                   *)
LEMMA ThreadsLive ==
  ASSUME TypeOK, ThreadInv, NEW c \in Callers, CallerStep(c) \/ WorkerStep(c),
         NEW w \in Callers, worker[w] \in Alive
  PROVE  worker'[w] \in Alive
<1> USE DEF TypeOK
<1>1. CASE HasNews(c) \/ FindsWorker(c) \/ FindsNoWorker(c) \/ StartedTwice(c)
  BY <1>1 DEF HasNews, FindsWorker, FindsNoWorker, StartedTwice, threads
<1>2. CASE alert_only_timer(c) \/ Notify(c) \/ NotifyFails(c)
  BY <1>2 DEF alert_only_timer, Notify, NotifyFails, threads
<1>3. CASE CreateWorker(c)
  BY <1>3 DEF CreateWorker, Go, ThreadInv, Alive, Busy
<1>4. CASE StartWorker(c)
  BY <1>4 DEF StartWorker, Alive
<1>5. CASE WorkerStep(c)
  BY <1>5 DEF WorkerStep, Get, Drop, FindOrg, send_email, MailHangs, send_sms,
       LogResult, DispatchFails, Step, Alive, Busy
<1> QED
  BY <1>1, <1>2, <1>3, <1>4, <1>5 DEF CallerStep

LEMMA AttendanceStep ==
  TypeOK /\ ThreadInv /\ WorkerInAttendance /\ [Next]_vars => WorkerInAttendance'
<1> DEFINE Waits(c) == pc[c] \in {"notify", "queued"} /\ kind[c] # "category" /\ c \notin settled
<1> SUFFICES ASSUME TypeOK, ThreadInv, WorkerInAttendance, [Next]_vars,
                    NEW c \in Callers, Waits(c)'
             PROVE  \E w \in Callers : worker'[w] \in Alive
  BY DEF WorkerInAttendance
<1> USE DEF TypeOK
<1>1. ASSUME Waits(c), NEW b \in Callers, CallerStep(b) \/ WorkerStep(b)
      PROVE  \E w \in Callers : worker'[w] \in Alive
  BY <1>1, ThreadsLive DEF WorkerInAttendance
<1>2. ASSUME ~Waits(c), NEW b \in Callers, CallerStep(b)
      PROVE  \E w \in Callers : worker'[w] \in Alive
  <2>1. FindsWorker(b) \/ StartWorker(b)
    BY <1>2 DEF CallerStep, HasNews, alert_only_timer, FindsNoWorker, CreateWorker,
         StartedTwice, Notify, NotifyFails, Go
  <2>2. CASE FindsWorker(b)
    BY <2>2 DEF FindsWorker, is_alive, NoWorker, threads
  <2>3. CASE StartWorker(b)
    <3>1. handle \in Callers
      BY <2>3 DEF StartWorker, Go, ThreadInv
    <3> QED
      BY <2>3, <3>1 DEF StartWorker, Alive
  <2> QED
    BY <2>1, <2>2, <2>3
<1>3. ASSUME ~Waits(c), NEW b \in Callers, WorkerStep(b) PROVE FALSE
  BY <1>3 DEF WorkerStep, Get, Drop, FindOrg, send_email, MailHangs, send_sms,
       LogResult, DispatchFails, task_done, callers
<1>4. CASE Restart
  BY <1>4 DEF Restart, Underway
<1>5. CASE UNCHANGED vars
  BY <1>5 DEF vars, callers, threads, WorkerInAttendance
<1> QED
  BY <1>1, <1>2, <1>3, <1>4, <1>5 DEF Next

-----------------------------------------------------------------------------
(* Where the notices are.                                                  *)

(* What the steps do to places.                                            *)
Queues(c) ==
  /\ pc[c] \notin {"queued", "lost"} /\ pc' = [pc EXCEPT ![c] = "queued"]
  /\ queue' = Append(queue, c) /\ UNCHANGED <<held, settled>>
Takes(w) ==
  /\ queue # <<>> /\ queue' = Tail(queue) /\ held[w] = NoWorker
  /\ held' = [held EXCEPT ![w] = Head(queue)] /\ UNCHANGED <<pc, settled>>
Settles(w) ==
  /\ held[w] # NoWorker /\ held' = [held EXCEPT ![w] = NoWorker]
  /\ settled' = settled \cup {held[w]} /\ UNCHANGED <<pc, queue>>
StaysPut ==
  /\ \A c \in Callers : pc[c] \in {"queued", "lost"} <=> pc'[c] \in {"queued", "lost"}
  /\ \A c \in Callers : pc[c] \in {"queued", "lost"} => pc'[c] = pc[c]
  /\ UNCHANGED <<queue, held, settled>>

LEMMA CallerPlaces ==
  ASSUME TypeOK, NEW c \in Callers, CallerStep(c)
  PROVE  Queues(c) \/ StaysPut
<1> USE DEF TypeOK
<1>1. CASE alert_only_timer(c) \/ Notify(c)
  BY <1>1 DEF alert_only_timer, Notify, notify_admin_alert, queue_notification, Go, Queues, threads
<1>2. CASE HasNews(c) \/ FindsWorker(c) \/ FindsNoWorker(c) \/ StartedTwice(c) \/ NotifyFails(c)
  BY <1>2 DEF HasNews, FindsWorker, FindsNoWorker, StartedTwice, NotifyFails, Go, StaysPut, threads
<1>3. CASE CreateWorker(c) \/ StartWorker(c)
  BY <1>3 DEF CreateWorker, StartWorker, Go, StaysPut
<1> QED
  BY <1>1, <1>2, <1>3 DEF CallerStep

LEMMA WorkerPlaces ==
  ASSUME TypeOK, ThreadInv, NEW w \in Callers, WorkerStep(w)
  PROVE  Takes(w) \/ Settles(w) \/ StaysPut
<1>1. CASE Get(w)
  BY <1>1 DEF Get, Step, Takes, callers, ThreadInv, Busy
<1>2. CASE Drop(w) \/ LogResult(w) \/ DispatchFails(w)
  BY <1>2 DEF Drop, LogResult, DispatchFails, Step, task_done, Settles, callers, ThreadInv, Busy
<1>3. CASE FindOrg(w) \/ send_email(w) \/ MailHangs(w) \/ send_sms(w)
  BY <1>3 DEF FindOrg, send_email, MailHangs, send_sms, StaysPut, callers
<1> QED
  BY <1>1, <1>2, <1>3 DEF WorkerStep

LEMMA PlaceStep == TypeOK /\ ThreadInv /\ PlaceInv /\ [Next]_vars => PlaceInv'
<1> SUFFICES ASSUME TypeOK, ThreadInv, PlaceInv, [Next]_vars PROVE PlaceInv'
  OBVIOUS
<1> USE NobodyAssumption DEF TypeOK, NoWorker
<1>0. Entries(queue) \subseteq Callers
  BY DEF Entries
<1>1. ASSUME NEW c \in Callers, Queues(c) PROVE PlaceInv'
  <2>1. c \notin Entries(queue) /\ c \notin settled /\ \A w \in Callers : held[w] # c
    BY <1>1 DEF Queues, PlaceInv
  <2>2. Distinct(queue') /\ Entries(queue') = Entries(queue) \cup {c}
    BY <1>1, <2>1, Appended DEF Queues, PlaceInv
  <2> QED
    BY <1>1, <2>1, <2>2, Appended DEF PlaceInv, Queues
<1>2. ASSUME NEW w \in Callers, Takes(w) PROVE PlaceInv'
  <2> DEFINE h == Head(queue)
  <2>1. /\ h \in Entries(queue) /\ h \in Callers
        /\ Distinct(queue') /\ Entries(queue') = Entries(queue) \ {h}
    BY <1>2, Taken DEF Takes, PlaceInv
  <2>2. pc[h] = "queued" /\ h \notin settled /\ \A v \in Callers : held[v] # h
    BY <2>1 DEF PlaceInv
  <2>3. held' = [held EXCEPT ![w] = h] /\ held[w] = NoWorker /\ UNCHANGED <<pc, settled>>
    BY <1>2 DEF Takes
  <2> HIDE DEF h
  <2> QED
    BY <2>1, <2>2, <2>3 DEF PlaceInv
<1>3. ASSUME NEW w \in Callers, Settles(w) PROVE PlaceInv'
  <2> DEFINE h == held[w]
  <2>1. /\ h \in Callers /\ h # NoWorker /\ pc[h] = "queued" /\ h \notin Entries(queue)
        /\ \A v \in Callers : held[v] = h => v = w
    BY <1>3 DEF PlaceInv, Settles
  <2>2. /\ held' = [held EXCEPT ![w] = NoWorker] /\ settled' = settled \cup {h}
        /\ UNCHANGED <<pc, queue>>
    BY <1>3 DEF Settles
  <2>3. UNCHANGED Entries(queue) /\ UNCHANGED Distinct(queue)
    BY <2>2 DEF Entries, Distinct
  <2>4. \A v \in Callers : held'[v] # NoWorker => v # w /\ held'[v] = held[v] /\ held[v] # h
    BY <2>1, <2>2
  <2>5. \A b \in Callers : (\E v \in Callers : held[v] = b) =>
          b = h \/ \E v \in Callers : held'[v] = b
    BY <2>2
  <2> HIDE DEF h
  <2>6. \A c \in Entries(queue)' :
          pc'[c] = "queued" /\ c \notin settled' /\ \A v \in Callers : held'[v] # c
    BY <1>0, <2>1, <2>2, <2>3, <2>4 DEF PlaceInv
  <2>7. \A v \in Callers : held'[v] # NoWorker =>
          /\ pc'[held'[v]] = "queued" /\ held'[v] \notin settled'
          /\ \A u \in Callers : held'[u] = held'[v] => u = v
    <3> SUFFICES ASSUME NEW v \in Callers, held'[v] # NoWorker
                 PROVE  /\ pc'[held'[v]] = "queued" /\ held'[v] \notin settled'
                        /\ \A u \in Callers : held'[u] = held'[v] => u = v
      OBVIOUS
    <3>1. /\ held'[v] = held[v] /\ held[v] # h
          /\ pc[held[v]] = "queued" /\ held[v] \notin settled
          /\ \A u \in Callers : held[u] = held[v] => u = v
      BY <2>4 DEF PlaceInv
    <3> QED
      BY <2>2, <2>4, <3>1
  <2>8. \A c \in Callers : pc'[c] = "queued" =>
          \/ c \in settled' \/ c \in Entries(queue)' \/ \E v \in Callers : held'[v] = c
    BY <2>2, <2>3, <2>5 DEF PlaceInv
  <2>9. \A c \in settled' : pc'[c] = "queued"
    BY <2>1, <2>2 DEF PlaceInv
  <2> QED
    BY <2>3, <2>6, <2>7, <2>8, <2>9, Zenon DEF PlaceInv
<1>4. CASE StaysPut
  <2>1. UNCHANGED Entries(queue) /\ UNCHANGED Distinct(queue)
    BY <1>4 DEF StaysPut, Entries, Distinct
  <2>2. \A c \in Callers : pc'[c] = "queued" <=> pc[c] = "queued"
    BY <1>4 DEF StaysPut
  <2> QED
    BY <1>0, <1>4, <2>1, <2>2 DEF StaysPut, PlaceInv
<1>5. CASE Restart
  <2>1. Distinct(<<>>) /\ Entries(<<>>) = {}
    BY DEF Distinct, Entries
  <2> QED
    BY <1>5, <2>1 DEF Restart, Underway, PlaceInv
<1>6. CASE UNCHANGED vars
  BY <1>6 DEF vars, callers, threads, PlaceInv
<1> QED
  BY <1>1, <1>2, <1>3, <1>4, <1>5, <1>6, CallerPlaces, WorkerPlaces DEF Next

-----------------------------------------------------------------------------
(* What has become of them in the world.                                   *)

OutcomeOk(c) ==
  /\ mails[c] <= 1 /\ texts[c] <= 1 /\ Len(history[c]) <= 1
  /\ \A i \in 1 .. Len(history[c]) :
       (history[c][i].mail => mails[c] = 1) /\ (history[c][i].sms => texts[c] = 1)
  /\ texts[c] > 0 => WantsSms(c)

LEMMA Outcomes == NoNoticeTwice /\ HistoryIsHonest <=> \A c \in Callers : OutcomeOk(c)
BY DEF NoNoticeTwice, HistoryIsHonest, OutcomeOk

OutcomeInv == WorldInv /\ \A c \in Callers : OutcomeOk(c)

(* A worker's step on its notice leaves the others' affairs alone.         *)
LEMMA Others ==
  ASSUME TypeOK, ThreadInv, PlaceInv, OutcomeInv, NEW w \in Callers, worker[w] \in Busy,
         NEW h \in Callers, h = held[w],
         UNCHANGED <<pc, kind, org, queue>>,
         \A c \in Callers : c # h =>
           mails'[c] = mails[c] /\ texts'[c] = texts[c] /\ history'[c] = history[c],
         \A v \in Callers : v # w =>
           /\ held'[v] = held[v] /\ worker'[v] = worker[v]
           /\ mailOk'[v] = mailOk[v] /\ smsOk'[v] = smsOk[v],
         worker'[w] \in Busy => Progress(w)',
         OutcomeOk(h)'
  PROVE  OutcomeInv'
<1>1. /\ h \in Callers /\ h \notin Entries(queue) /\ pc[h] = "queued"
      /\ \A v \in Callers : held[v] = h => v = w
  BY DEF ThreadInv, PlaceInv, TypeOK
<1>0. Entries(queue) \subseteq Callers /\ Entries(queue)' = Entries(queue)
  BY EntriesTyped DEF Entries, TypeOK
<1>2. \A c \in Callers : pc'[c] \notin {"queued", "lost"} => Untouched(c)'
  BY <1>1 DEF OutcomeInv, WorldInv, Untouched
<1>3. \A c \in Entries(queue)' : Untouched(c)'
  BY <1>0, <1>1 DEF OutcomeInv, WorldInv, Untouched
<1>4. ASSUME NEW v \in Callers, v # w, worker'[v] \in Busy PROVE Progress(v)'
  <2>1. held[v] \in Callers /\ held[v] # h /\ Progress(v)
    BY <1>1, <1>4 DEF ThreadInv, OutcomeInv, WorldInv, TypeOK
  <2> QED
    BY <1>4, <2>1 DEF Progress
<1>5. ASSUME NEW c \in Callers, c # h PROVE OutcomeOk(c)'
  BY <1>5 DEF OutcomeInv, OutcomeOk, WantsSms
<1> QED
  BY <1>2, <1>3, <1>4, <1>5 DEF OutcomeInv, WorldInv

LEMMA CallersOutcome ==
  ASSUME TypeOK, ThreadInv, PlaceInv, OutcomeInv, NEW c \in Callers, CallerStep(c)
  PROVE  OutcomeInv'
<1> USE DEF TypeOK
<1>1. UNCHANGED <<kind, org, held, mailOk, smsOk, world>>
  BY DEF CallerStep, HasNews, alert_only_timer, FindsWorker, FindsNoWorker, CreateWorker,
     StartWorker, StartedTwice, Notify, NotifyFails, threads
<1>2. \A v \in Callers : worker'[v] \in Busy => worker'[v] = worker[v]
  <2>1. CASE CreateWorker(c)
    BY <2>1 DEF CreateWorker, Busy
  <2>2. CASE StartWorker(c)
    BY <2>2 DEF StartWorker, Busy
  <2>3. CASE ~CreateWorker(c) /\ ~StartWorker(c)
    BY <2>3 DEF CallerStep, HasNews, alert_only_timer, FindsWorker, FindsNoWorker,
       StartedTwice, Notify, NotifyFails, threads
  <2> QED
    BY <2>1, <2>2, <2>3
<1>3. \A b \in Callers : Untouched(b)' = Untouched(b) /\ OutcomeOk(b)' = OutcomeOk(b)
  BY <1>1 DEF Untouched, OutcomeOk, WantsSms, world
<1>4. \A b \in Callers : pc'[b] \notin {"queued", "lost"} => pc[b] \notin {"queued", "lost"}
  BY CallerPlaces DEF Queues, StaysPut
<1>5. ASSUME NEW b \in Entries(queue)' PROVE Untouched(b) /\ b \in Callers
  <2>1. CASE Queues(c)
    <3>1. Entries(queue)' = Entries(queue) \cup {c} /\ Entries(queue) \subseteq Callers
      BY <2>1, Appended DEF Queues
    <3> QED
      BY <1>5, <2>1, <3>1 DEF Queues, OutcomeInv, WorldInv
  <2>2. CASE StaysPut
    <3>1. Entries(queue)' = Entries(queue) /\ Entries(queue) \subseteq Callers
      BY <2>2, EntriesTyped DEF StaysPut
    <3> QED
      BY <1>5, <3>1 DEF OutcomeInv, WorldInv
  <2> QED
    BY <2>1, <2>2, CallerPlaces
<1>6. ASSUME NEW v \in Callers, worker'[v] \in Busy PROVE Progress(v)'
  <2>1. worker'[v] = worker[v] /\ Progress(v)
    BY <1>2, <1>6 DEF OutcomeInv, WorldInv
  <2> QED
    BY <1>1, <2>1 DEF Progress, world
<1> QED
  BY <1>3, <1>4, <1>5, <1>6 DEF OutcomeInv, WorldInv

LEMMA WorkersOutcome ==
  ASSUME TypeOK, ThreadInv, PlaceInv, OutcomeInv, NEW w \in Callers, WorkerStep(w)
  PROVE  OutcomeInv'
<1> USE DEF TypeOK
<1>a. worker[w] \in Busy => held[w] \in Callers
  BY DEF ThreadInv
<1>b. PICK h \in Callers : worker[w] \in Busy => h = held[w]
  BY <1>a
<1>0. worker[w] \in Busy => h = held[w] /\ Progress(w) /\ OutcomeOk(h)
  BY <1>b DEF OutcomeInv, WorldInv
<1>1. CASE Get(w)
  <2>1. /\ Head(queue) \in Entries(queue) /\ Head(queue) \in Callers
        /\ Entries(queue)' \subseteq Entries(queue) /\ Entries(queue) \subseteq Callers
    BY <1>1, Taken, EntriesTyped DEF Get
  <2>2. UNCHANGED <<pc, kind, org, mails, texts, history>>
    BY <1>1 DEF Get, callers, world
  <2>3. \A c \in Callers : Untouched(c)' = Untouched(c) /\ OutcomeOk(c)' = OutcomeOk(c)
    BY <2>2 DEF Untouched, OutcomeOk, WantsSms
  <2>4. Progress(w)'
    <3>1. /\ held'[w] = Head(queue) /\ worker'[w] = "reading" /\ Untouched(Head(queue))
      BY <1>1, <2>1 DEF Get, Step, OutcomeInv, WorldInv
    <3> QED
      BY <2>2, <3>1 DEF Progress, Untouched
  <2>5. ASSUME NEW v \in Callers, v # w, worker'[v] \in Busy PROVE Progress(v)'
    <3>1. /\ worker'[v] = worker[v] /\ held'[v] = held[v]
          /\ mailOk'[v] = mailOk[v] /\ smsOk'[v] = smsOk[v]
      BY <1>1, <2>5 DEF Get, Step
    <3>2. Progress(v)
      BY <2>5, <3>1 DEF OutcomeInv, WorldInv
    <3> QED
      BY <2>2, <3>1, <3>2 DEF Progress
  <2> QED
    BY <2>1, <2>2, <2>3, <2>4, <2>5 DEF OutcomeInv, WorldInv
<1>2. CASE Drop(w) \/ DispatchFails(w)
  <2>1. /\ worker[w] \in Busy /\ worker' = [worker EXCEPT ![w] = "waiting"]
        /\ held' = [held EXCEPT ![w] = NoWorker]
        /\ UNCHANGED <<pc, kind, org, queue, mailOk, smsOk, mails, texts, history>>
    BY <1>2 DEF Drop, DispatchFails, Step, task_done, callers, world, Busy
  <2>2. OutcomeOk(h)'
    BY <1>0, <2>1 DEF OutcomeOk, WantsSms
  <2>3. worker'[w] \notin Busy
    BY <2>1 DEF Busy
  <2>4. h = held[w]
    BY <1>0, <2>1
  <2> QED
    BY <2>1, <2>2, <2>3, <2>4, Others
<1>3. CASE FindOrg(w) \/ MailHangs(w)
  <2>1. /\ worker[w] \in {"reading", "mailing"}
        /\ worker'[w] \in {"mailing", "stuck"}
        /\ \A v \in Callers : v # w => worker'[v] = worker[v]
        /\ UNCHANGED <<pc, kind, org, queue, held, mailOk, smsOk, mails, texts, history>>
    BY <1>3 DEF FindOrg, MailHangs, Step, callers, world
  <2>2. OutcomeOk(h)' /\ Progress(w)'
    BY <1>0, <2>1 DEF OutcomeOk, WantsSms, Progress, Busy
  <2>3. worker[w] \in Busy
    BY <2>1 DEF Busy
  <2>4. h = held[w]
    BY <1>0, <2>3
  <2> QED
    BY <2>1, <2>2, <2>3, <2>4, Others
<1>4. CASE send_email(w)
  <2>0. h = held[w]
    BY <1>0, <1>4 DEF send_email, Step, Busy
  <2>1. PICK k \in {0, 1}, ok \in BOOLEAN :
          /\ mails' = [mails EXCEPT ![h] = mails[h] + k]
          /\ mailOk' = [mailOk EXCEPT ![w] = ok]
          /\ ok => k = 1
    BY <1>4, <2>0, Mailed
  <2>2. /\ worker[w] = "mailing" /\ worker' = [worker EXCEPT ![w] = "texting"]
        /\ UNCHANGED <<pc, kind, org, queue, held, smsOk, texts, history>>
    BY <1>4 DEF send_email, Step, callers
  <2>3. worker[w] \in Busy /\ h = held[w] /\ Progress(w) /\ OutcomeOk(h)
    BY <1>0, <2>2 DEF Busy
  <2>4. mails[h] = 0 /\ mails'[h] = k /\ mailOk'[w] = ok /\ history[h] = <<>> /\ texts[h] = 0
    BY <2>1, <2>2, <2>3 DEF Progress
  <2>5. OutcomeOk(h)'
    BY <2>2, <2>3, <2>4 DEF OutcomeOk, WantsSms
  <2>6. Progress(w)'
    BY <2>1, <2>2, <2>3, <2>4 DEF Progress
  <2> QED
    BY <2>1, <2>2, <2>3, <2>5, <2>6, Others
<1>5. CASE send_sms(w)
  <2>0. h = held[w]
    BY <1>0, <1>5 DEF send_sms, Step, Busy
  <2>1. PICK k \in {0, 1}, ok \in BOOLEAN :
          /\ texts' = [texts EXCEPT ![h] = texts[h] + k]
          /\ smsOk' = [smsOk EXCEPT ![w] = ok]
          /\ ok => k = 1
          /\ k = 1 => WantsSms(h)
    BY <1>5, <2>0, Texted
  <2>2. /\ worker[w] = "texting" /\ worker' = [worker EXCEPT ![w] = "logging"]
        /\ UNCHANGED <<pc, kind, org, queue, held, mailOk, mails, history>>
    BY <1>5 DEF send_sms, Step, callers
  <2>3. worker[w] \in Busy /\ h = held[w] /\ Progress(w) /\ OutcomeOk(h)
    BY <1>0, <2>2 DEF Busy
  <2>4. texts[h] = 0 /\ texts'[h] = k /\ smsOk'[w] = ok /\ history[h] = <<>>
    BY <2>1, <2>2, <2>3 DEF Progress
  <2>5. OutcomeOk(h)'
    BY <2>1, <2>2, <2>3, <2>4 DEF OutcomeOk, WantsSms
  <2>6. Progress(w)'
    BY <2>1, <2>2, <2>3, <2>4 DEF Progress
  <2> QED
    BY <2>1, <2>2, <2>3, <2>5, <2>6, Others
<1>6. CASE LogResult(w)
  <2> DEFINE row == [mail |-> mailOk[w], sms |-> smsOk[w]]
  <2>0. h = held[w]
    BY <1>0, <1>6 DEF LogResult, Step, Busy
  <2>1. /\ worker[w] = "logging" /\ worker' = [worker EXCEPT ![w] = "waiting"]
        /\ held' = [held EXCEPT ![w] = NoWorker]
        /\ history' = [history EXCEPT ![h] = Append(history[h], row)]
        /\ UNCHANGED <<pc, kind, org, queue, mailOk, smsOk, mails, texts>>
    BY <1>6, <2>0 DEF LogResult, Step, task_done, callers
  <2>2. worker[w] \in Busy /\ h = held[w] /\ Progress(w) /\ OutcomeOk(h)
    BY <1>0, <2>1 DEF Busy
  <2>3. history'[h] = Append(<<>>, row)
    BY <2>1, <2>2 DEF Progress
  <2>4. Len(history'[h]) = 1 /\ history'[h][1] = row
    BY <2>3, OneRow
  <2>5. (row.mail => mails[h] = 1) /\ (row.sms => texts[h] = 1)
    BY <2>1, <2>2 DEF Progress
  <2> HIDE DEF row
  <2>6. OutcomeOk(h)'
    BY <2>1, <2>2, <2>4, <2>5 DEF OutcomeOk, WantsSms
  <2>7. worker'[w] \notin Busy
    BY <2>1 DEF Busy
  <2> QED
    BY <2>1, <2>2, <2>6, <2>7, Others
<1> QED
  BY <1>1, <1>2, <1>3, <1>4, <1>5, <1>6 DEF WorkerStep

LEMMA OutcomeStep == TypeOK /\ ThreadInv /\ PlaceInv /\ OutcomeInv /\ [Next]_vars => OutcomeInv'
<1> SUFFICES ASSUME TypeOK, ThreadInv, PlaceInv, OutcomeInv, [Next]_vars PROVE OutcomeInv'
  OBVIOUS
<1>1. CASE Restart
  <2>1. UNCHANGED <<kind, org, mails, texts, history>>
    BY <1>1 DEF Restart, world
  <2>2. \A c \in Callers : Untouched(c)' = Untouched(c) /\ OutcomeOk(c)' = OutcomeOk(c)
    BY <2>1 DEF Untouched, OutcomeOk, WantsSms
  <2>3. Entries(queue)' = {}
    BY <1>1 DEF Restart, Entries
  <2>4. \A c \in Callers : pc'[c] \notin {"queued", "lost"} => pc'[c] = pc[c]
    BY <1>1 DEF Restart
  <2>5. \A w \in Callers : worker'[w] \notin Busy
    BY <1>1 DEF Restart, Busy
  <2> QED
    BY <2>2, <2>3, <2>4, <2>5 DEF OutcomeInv, WorldInv
<1>2. CASE UNCHANGED vars
  BY <1>2 DEF vars, callers, threads, world, OutcomeInv, WorldInv, OutcomeOk, WantsSms,
     Untouched, Progress, Entries
<1> QED
  BY <1>1, <1>2, CallersOutcome, WorkersOutcome DEF Next

-----------------------------------------------------------------------------
NotifierInv ==
  TypeOK /\ ThreadInv /\ WorkerInAttendance /\ PlaceInv /\ OutcomeInv

LEMMA NotifierInit == Init => NotifierInv
<1> SUFFICES ASSUME Init PROVE NotifierInv
  OBVIOUS
<1>1. TypeOK
  BY TypeInit
<1>2. ThreadInv
  BY DEF Init, ThreadInv, Busy
<1>3. WorkerInAttendance
  BY DEF Init, WorkerInAttendance
<1>4. Entries(queue) = {} /\ Distinct(queue)
  BY DEF Init, Entries, Distinct
<1>5. PlaceInv
  BY <1>4 DEF Init, PlaceInv
<1>6. ASSUME NEW c \in Callers PROVE Untouched(c) /\ OutcomeOk(c)
  <2>1. mails[c] = 0 /\ texts[c] = 0 /\ history[c] = <<>> /\ Len(<<>>) = 0
    BY DEF Init
  <2> QED
    BY <2>1 DEF Untouched, OutcomeOk
<1>7. WorldInv
  BY <1>4, <1>6 DEF Init, WorldInv, Busy
<1> QED
  BY <1>1, <1>2, <1>3, <1>5, <1>6, <1>7 DEF NotifierInv, OutcomeInv

THEOREM NotifierInvariant == Spec => []NotifierInv
<1>1. NotifierInv /\ [Next]_vars => NotifierInv'
  BY TypeStep, ThreadStep, AttendanceStep, PlaceStep, OutcomeStep DEF NotifierInv
<1> QED
  BY <1>1, NotifierInit, PTL DEF Spec

(* The variables keep their types.                                         *)
THEOREM TypeCorrect == Spec => []TypeOK
<1>1. NotifierInv => TypeOK
  BY DEF NotifierInv
<1> QED
  BY <1>1, NotifierInvariant, PTL

(* Nobody is told anything twice, with any number of workers in the process *)
(* and any answers of the mail server.                                     *)
THEOREM NoticesGoOutOnce == Spec => []NoNoticeTwice
<1>1. NotifierInv => NoNoticeTwice
  BY Outcomes DEF NotifierInv, OutcomeInv
<1> QED
  BY <1>1, NotifierInvariant, PTL

(* What the history claims has gone out.                                   *)
THEOREM HistoryTellsTheTruth == Spec => []HistoryIsHonest
<1>1. NotifierInv => HistoryIsHonest
  BY Outcomes DEF NotifierInv, OutcomeInv
<1> QED
  BY <1>1, NotifierInvariant, PTL

(* While the process lives, a queued notice is in exactly one place.        *)
THEOREM NoticesAreKept == Spec => []NothingGoesMissing
<1>1. ASSUME NotifierInv, NEW c \in Callers, pc[c] = "queued"
      PROVE  \/ c \in settled /\ Places(c) = {} /\ Holders(c) = {}
             \/ c \notin settled /\ Holders(c) = {} /\ \E i \in Places(c) : Places(c) = {i}
             \/ c \notin settled /\ Places(c) = {} /\ \E w \in Holders(c) : Holders(c) = {w}
  <2>1. TypeOK /\ ThreadInv /\ PlaceInv
    BY <1>1 DEF NotifierInv
  <2>2. \A w \in Callers : held[w] = c <=> w \in Holders(c)
    BY <2>1, NobodyAssumption DEF Holders, ThreadInv, NoWorker
  <2>3. \A i \in 1 .. Len(queue) : queue[i] = c <=> i \in Places(c)
    BY DEF Places
  <2>4. c \in Entries(queue) <=> \E i \in Places(c) : TRUE
    BY DEF Places, Entries
  <2>5. \A i, j \in Places(c) : i = j
    BY <2>1 DEF Places, PlaceInv, Distinct
  <2>6. \A v, w \in Holders(c) : v = w
    BY <2>1, <2>2, NobodyAssumption DEF Holders, PlaceInv, NoWorker
  <2>7. CASE c \in settled
    BY <2>1, <2>2, <2>4, <2>7, NobodyAssumption DEF PlaceInv, Holders, NoWorker
  <2>8. CASE c \notin settled /\ c \in Entries(queue)
    <3>1. Holders(c) = {}
      BY <2>1, <2>2, <2>8 DEF PlaceInv, Holders
    <3>2. \E i \in Places(c) : Places(c) = {i}
      BY <2>4, <2>5, <2>8
    <3> QED
      BY <2>8, <3>1, <3>2
  <2>9. CASE c \notin settled /\ c \notin Entries(queue)
    <3>1. Places(c) = {}
      BY <2>4, <2>9
    <3>2. \E w \in Holders(c) : TRUE
      BY <1>1, <2>1, <2>2, <2>9 DEF PlaceInv
    <3>3. \E w \in Holders(c) : Holders(c) = {w}
      BY <2>6, <3>2
    <3> QED
      BY <2>9, <3>1, <3>3
  <2> QED
    BY <2>7, <2>8, <2>9
<1>2. NotifierInv => NothingGoesMissing
  BY <1>1 DEF NothingGoesMissing
<1> QED
  BY <1>2, NotifierInvariant, PTL

(* A notice whose caller looked after the worker never waits for nobody.    *)
THEOREM WorkerIsThere == Spec => []WorkerInAttendance
<1>1. NotifierInv => WorkerInAttendance
  BY DEF NotifierInv
<1> QED
  BY <1>1, NotifierInvariant, PTL
=============================================================================
