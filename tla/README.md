# Verification of the Good360 truckload purchase system

The program watches Good360 for truckloads, and buys each truck it finds for the
nonprofit whose turn it is.  What can go wrong is expensive: a truck paid twice, an
order nobody knows of, an organisation charged although it was suspended, a queue
that silently skips somebody.  These TLA+ modules model the parts that decide about
such things, TLC checks them on small instances, and TLAPS proves the central
results for every size.

Contents: 1 inventory, 2 how the parts interact, 3 modules and code, 4 runs,
5 bounds and fairness, 6 proofs, 7 findings, 8 what is not modelled, 9 plan.

## 1. Inventory

| Component | State it keeps | Operations | What makes it correct |
|---|---|---|---|
| Purchase lock (`purchase_lock.py`) | one flock and one `.last_attempt` mtime per truck URL | enter, leave, die | no two checkouts of a truck overlap; a full window between them; a death never wedges a truck |
| Purchase walk (`roster_orchestrator.py`) | `truck_events.status`, `QUEUE_LOCK`, organisations tried | `handle_truck_event` | walks of a process are serial; nobody is tried twice; the attempt cap holds; it ends |
| Purchase engine (`good360_autobuy_v2.py`) | `purchase_attempts`, card ladder | `attempt_purchase`, `_suspend_org_autobuy` | no second order unless told there was none; every order booked; a card failure suspends |
| Browser daemon (`good360_daemon.py`) | job queue, one worker, cached contexts, storage files, last totals | checkout, test checkout, Live View, forced login, self-watchdog | verdicts and aborts are final; a context outlives its task; sessions and totals are not mixed up |
| Queue manager (`queue_manager.py`) | `nonprofits` status, cooldown, position | pick, sweep, apply/release cooldown, renumber | least recently bought first; cooldowns kept, and released |
| QuickBeed mirror and sync (`quickbeed.py`, `quickbeed_roster_sync.py`) | dashboard `customers`, its copy in the roster | poll, upsert, `sync_to_roster` | the roster ends up agreeing with the dashboard, without ending or pinning cooldowns |
| Operator endpoints (`admin_routes.py`) | none of their own | abort, redirect, initiate-autobuy, rotation, reorder, clear-cooldown | no second attempt; abort final; edits reach the engine |
| Monitor (`good360_monitor.py`) | saved `alerted` set, heartbeat, ten-minute reservation of a customer | scan loop, dispatch, reserve and release | a new truck dispatched once per availability; a reservation never ends a real cooldown |
| Legacy engine (`good360_autobuy.py`, ladder in the monitor, `good360_devtools_agent.py`) | dedup window of the truck, rung of the ladder | agent, daemon, script in turn | one order per pass down the ladder |
| Supervision (`self_heal.py`, `good360_watchdog.py`, `deadman_switch.py`) | time stamps of restarts, bad probes, alarm latches | restart, alert | restarts spaced; outages end; one alarm per outage |
| Test runs (`test_runner.py`, endpoints of `admin_routes.py`) | `test_runs` rows, `_RUNNER_LOCK`, cart of the master account | create, test purchase, readiness check, delete | a completed run is over; runs of one worker process take turns at the cart |
| Order verifier (`order_verifier.py`) | confirmation and status of successful attempts | scrape, match, write | no order on two attempts; manual statuses survive |
| Billing (`billing_manager.py`) | `billing_records` | finding fee, invoices | one fee per success |
| Dashboard server (`server_v2.py`) | poll-thread flock among gunicorn workers | requests, poll loop | one poller |
| Notifier (`notifier.py`) | queue in memory, the global naming its worker, `system_events` | start the worker, queue, dispatch | a notice is in one place, goes out once and is recorded truly; the worker is there |
| Telegram router and bot, reports | - | send | best effort |
| Auth, vault, settings, `sandbox.py`, intake form | files, tables | - | no part of the purchase protocol, see 8 |

Everything runs as separate containers (`docker-compose.yml`): monitor, daemon,
self-heal, watchdog, Telegram bot, and the dashboard under gunicorn with three worker
processes of eight threads.  They share two SQLite files, `roster.db` (what the engine
buys from) and `dashboard.db` (what QuickBeed and the operator edit), and one
directory of lock files.

## 2. How the parts interact

1. The monitor sees a truck, inserts a `truck_events` row and calls
   `handle_truck_event` in its own thread.  The operator can start the same call, or
   a direct `attempt_purchase` for one organisation, from a dashboard thread.
2. The walk takes the `QUEUE_LOCK` of its process, asks the queue manager for the next
   organisation, assigns the truck and calls `attempt_purchase`; failures advance.
3. `attempt_purchase` reads the approval gate from the dashboard, inserts an attempt
   row and POSTs one checkout per card to the daemon; a verdict decides the row.
4. The daemon's single worker runs each checkout under the purchase lock and looks at
   the abort flag of the attempt up to the Place Order click.
5. A success writes the cooldown, the truck status, the fee and a copy of the cooldown
   into the dashboard; a card failure takes the organisation out of both databases.
6. The poll thread and the operator's requests copy the dashboard to the roster.
7. With the roster off, the monitor itself goes down a ladder: devtools agent or daemon
   (45 seconds), then the legacy script, which takes the same purchase lock.
8. Self-heal probes the daemon and the monitor's heartbeat every minute and restarts
   their containers; the watchdog and the dead-man switch only tell the operator.
9. Test runs POST to the daemon, call the engine, or let an agent use the master account.
10. After a scan, or at the operator's wish, the order verifier scrapes the site's Order
    History and updates the successful attempts.
11. The engine, after a success or instead of a purchase, sees to it that the notifier's
    thread runs in its process and queues a notice for the organisation.

Hard behaviours: two processes over one truck; replies lost while the checkout runs
on; aborts against the click; state that crosses two databases in separate commits;
syncs that write an old snapshot; restarts between any two commits; a dedup window
that outlives the attempt it belongs to; files torn by a death in the middle of a
write; calls that go on after their caller has left; a thread that several start at once.  `PROJECT.json` lists them one by one as
hazards, with the property that watches each.

## 3. Modules and code

**`PurchaseLock`** is `exclusive_purchase_lock`, one action per system call: `Open`,
`TryFlock` (non-blocking), `CheckDedup`, the body, `Touch` (the `finally` clause, which
runs after refusals too), `Unlock`, and `Die` at any point, which frees the flock and
leaves the mtime.  `now` is the wall clock; `began` and `ended` are history.

**`TruckPurchase`** is the walk, the engine, the daemon and the endpoints together,
because its properties are about their interleaving.  A *dispatch* is one call into
the engine.  `pc[d]` is the place of its thread between two commits: `queued` before
`QUEUE_LOCK`; `pick` in the loop of `handle_truck_event`; `enter`, `record`, `ladder`,
`waiting` in `attempt_purchase`; `cooldown`, `mark`, `bill` the commits of a
success; `suspend`, `unlist`, `miss` those of a failure; `advance` back in the walk.
`row[d]` is the status of its latest `purchase_attempts` row, `job[d]` its checkout in
the daemon (which lives on when the caller does not), `reply[d]` what the POST
gave: a verdict, `unreachable` after a timeout or a lost connection, or `garbled` for an
answer that breaks off or cannot be parsed (the `except Exception` of
`_run_checkout_via_daemon`), which fails the card like a verdict.  `placed` and `unplaced` are the two states behind the Place Order click, and
`orders[d]` counts real orders, which no code sees.  The page behind a placed order
may be misread and the answer to it garbled; `denied[d]` counts, as history, those
orders the dispatch was told had not happened.  Any commit may raise
(`BookkeepingFails`), the first one of a success included; the dispatch is then `raised`,
its row `in_progress`.  `suspended` and `halved` are history too: who is due to be
kept out after a card verdict, and whose suspension lost one of its two writes.  The lock appears here only as the
open window `recent[u]`; its mutual exclusion is PurchaseLock's.  Customer eligibility
is reduced to `autoBuy` (roster) and `approved` (dashboard); queue order is left to
RosterQueue, so the walk may pick any eligible organisation.

**`RosterQueue`** is the queue manager, the sync and the endpoints that edit customers.
Each commit is an action: `Sweep` then `SweepPositions`; `Succeed` then
`CooledPositions` then `MirrorCooldown`; `Decline` then `Unlist`; and for every syncer
`SyncRead`, `SyncCommits` or `SyncAborts`, `SyncPositions`.  A sync carries the rows and the
clock it read.  `cleared` and `stale` are history: whose cooldown was lifted
by hand, and who became active since positions were last recomputed.

**`TruckSale`** is what a call into the engine promises whoever made it: no order beside
one it may know of, "bought" only of an order, "not bought" final, and otherwise
"unsure".  `Withhold` is the browser reporting an order as not placed; such an order is the
only one another may follow.  `TruckPurchase` implements it (`KeepsSalePromise`):
`Answer(d)` reads the state of the abstract call off row, control point and reply, and
`sold` and `withheld` are `orders` and `denied`.  A row closed by a timeout, a restart or
a dead caller is "unsure", which is what such a row should be read as.

**`CheckoutDaemon`** opens the box that TruckPurchase calls a job.  `handler[r]` is the
HTTP thread of request r, `task` and `queue` are the calls handed to the browser
worker, `stage[r]` is the place in `_checkout_inner` (its names are those of the
checkpoints and of the pages).  `contexts`, `open`, `used` and `dropped` follow a
Playwright context from its making to its close; a context is named after the
request it was made for.  `box` and `totals` are the two ways a result travels.  A
page stage succeeds or fails; the click may order, or not, in both cases.  A storage file
that cannot be removed is `kept`, and the forced login goes on with it.

**`TestRuns`** extends it with the dashboard's test runs and their threads; every step is
one of CheckoutDaemon or leaves the daemon alone, so CheckoutDaemon's properties are
checked in the composition.  `home[r]` is the dashboard worker process of a request, and
`runner[w]` who holds the `_RUNNER_LOCK` of worker w: a lock among threads, of which
gunicorn's processes have one each; the cart of the master account is one for all.
`WorkerExit` ends a worker with its threads and its lock.

**`LegacyCheckout`** is the monitor's ladder and the script; `rung` is where the ladder is,
`script` where the script is, `job` and `stray` the daemon's checkout it waits for and
one it gave up on.  **`Monitor`** extends it with the scan: `saved` and `mem` are the
alerted trucks in the file and in memory, `mstage` the place in `check_trucks`,
`column[c]` what customer c's `cooldown_until` amounts to (free, a reservation, a real
cooldown).  Under the roster engine a dispatch is one nondeterministic step there:
TruckPurchase is its detail.  **`Supervision`** extends Monitor with self-heal and
one watcher, and is the complete specification that is run.  `SaveTorn` is the death of the
watchdog in the rewrite of its file that it does on every pass outside office hours.

**`OrderVerifier`** is `verify_customer`: `site[s]` the orders call s found on the page,
`rows[s]` the rows it read; `Write` computes the pairing (`DatePairs`, a recursive function
over `Round`s, one row of one of the code's two passes each) on those and updates
whatever the rows are by then.

**`Notifier`** is the queue of one process.  `pc[c]` is the place of caller c in
`start_dispatch_worker` and after it; the test of `is_alive`, the creation and the start of a
thread are actions of their own, and `handle` is the global they go through.  `worker[w]`
is the thread that caller w made, there can be several; `held[w]` the notice it works
on, with `mailOk` and `smsOk` as the local results.  `mails`, `texts` count what
really went out, which no code sees; `history` is what the dashboard shows of it.
A notice is named by its caller and has one of three kinds, for the three ways into the module
that purchases take.  A purchase's own state is not here: TruckPurchase ends
where this begins, and nothing flows back but the exception of `StartedTwice`.

Which module uses which: TestRuns extends CheckoutDaemon; Supervision extends Monitor
extends LegacyCheckout; TruckPurchase instantiates TruckSale.  PurchaseLock stands for
itself and is the `Skip` of CheckoutDaemon, the window of TruckPurchase and the
`holder` and `recent` of LegacyCheckout.  The `MC...` modules give constants their
values for TLC; `...Proofs` hold the theorems.  Definitions named `Slip...` are
plausible mistakes in the definition they precede; no specification uses them, and
`PROJECT.json` names for each the property it would break.

## 4. Runs

| Run | Checks | Shows |
|---|---|---|
| `lock` | MutualExclusion, SpacedCheckouts, KeyIsReleased | two processes that may die between any two calls neither overlap nor crowd a truck, and every lock is freed |
| `operator` | AtMostOneOrder, OrderIsAccountedFor, PurchasedTruckHasOrder, WalkAdvances, PurchasedIsFinal, AbortIsFinal, KeepsSalePromise | redirects, re-initiated purchases and aborts against read timeouts, garbled answers, misread pages, daemon restarts, unreadable abort flags and raising commits |
| `rotation` | DispatchEnds, SuccessIsBooked, SuspensionHolds, RestAfterPurchase | the monitor and a dashboard worker walking at once, with syncs, toggles, halved suspensions, raising commits and dying callers |
| `queue` | SpacedPurchases, StaleIsTransient, IneligibleStaysOut, ExpiredIsReleased | one customer under two syncs, a walk, QuickBeed and operator edits |
| `lru` | PositionsAreLRU | two customers: the order of the queue |
| `daemon` | NoOrderAfterVerdict, AbortPreventsOrder, ContextOutlivesTask, ForcedIsFresh, TotalIsOwn, CompletedMeansOver, CartIsOwn | two users of the daemon or of the master account, of any of five kinds, in one or two dashboard workers, with missed deadlines, wedges, crashes of a context and of the process, and files that stay |
| `fleet` | RedispatchOnlyAfterLoss, CooldownSurvivesScan, LadderOrdersOnce, RestartsAreSpaced, AlarmsAlternate, OutagesEnd | the monitor with each engine, under self-heal and one watcher, with deaths, hangs, torn files, docker failures |
| `verifier` | OrdersStayDistinct, DateMatchIsOwn | two overlapping verifier calls over two purchases on up to three days |
| `notifier` | NoNoticeTwice, HistoryIsHonest, NothingGoesMissing, WorkerInAttendance, NoticesAreSettled | two callers with any news: the race to start the worker, lost answers of the transports, a mail server that hangs, a failing roster, a restart |
| `own_duplicate`, `inactive`, `manual` | one statement each | the disagreements of section 7 |

Type invariants are theorems of every module (section 6) and no run repeats them; the same
goes for `OneWalkPerProcess` and `OnlyHolderReleases`.

The passing runs also show what does *not* break.  The branch of the engine that stops
on `daemon_unreachable` keeps callers that give up early from a second order: the slip
of `Unreachable` (go on with the next card) makes TLC find one (`AtMostOneOrder`).  Suspension works although a sync may copy an older eligibility to the
roster, because the approval gate reads the dashboard again at every attempt.

Several properties state what the code gives and not what its comments promise; the
exceptions in them are reached.  A forced login starts from a session of its own unless
another request of the org_key was about or the file could not be removed
(`ForcedIsFresh`: the handler removes file and context, but its checkout is queued behind
others that make new ones).  An agent's cart is safe from the test runs of its own
worker process, not from those of the other two (`CartIsOwn`).  An order
total is the request's own unless it was skipped or had such company (`TotalIsOwn`).
A reservation may overwrite a cooldown that came after the customer was chosen
(`CooldownSurvivesScan`).  The ladder's second order needs a failure answer behind a
placed order and then a full dedup window, or the agent (`LadderOrdersOnce`).  A lost
restart record crowds restarts (`RestartsAreSpaced`), and a torn state file stops the
scans for good (`OutagesEnd`).  A queued notice may be lost
with its process, or wait for good behind a mail server that fell silent; one queued past
`start_dispatch_worker` may find no worker (`NoticesAreSettled`).  An alarm is repeated
after a death in one of the watcher's writes (`AlarmsAlternate`).

The same holds of the core.  `AtMostOneOrder` does not say that a dispatch orders once: an
order reported as FAILED or MANUAL, or whose answer cannot be parsed, is followed by the next
card and the next organisation, and then two orders are placed; what holds is that nothing
else leads there, no timeout, restart, abort or redirect.  `OrderIsAccountedFor` ends at
a call that broke off: if the commit of the success itself raises, the row stays
`in_progress` and nothing in the databases tells of the order.  `SuccessIsBooked` is of
calls that come back; the bookkeeping has four commits and no recovery.
`RestAfterPurchase` is of every process, as the cooldown is in the database: until it is written,
another process may assign the organisation a second truck, since each has a
`QUEUE_LOCK` of its own.  `PurchasedIsFinal` leaves the attempts that were under way when the
truck was bought: `attempt_purchase` sets the event to assigned whatever it was.
`AtMostOneOrder` is per dispatch, not per truck: after a read timeout the row is closed,
and the operator may redirect a truck whose old checkout still runs.  There the lock
keeps checkouts apart and the window delays the second, nothing more.

## 5. Bounds and fairness

* `PurchaseLock.cfg`: two callers, two trucks, a window of 2 ticks and clock to 3: enough for
  an attempt inside the window, at its edge and after it.
* `MCOperator.cfg`: two dispatches of one dashboard process over one event, one card each,
  every fault that can befall an order.  Two dispatches suffice, as every property relates at
  most two.  Two attempts per truck (`MaxOrgsPerTruck`) reach both the cap and the empty
  queue.  2.3 million states.
* `MCRotation.cfg`: three organisations, of which one is stepped over for its category and
  one alert-only; one dispatch of the monitor and one of the dashboard, over one event.
  `Toggled` bounds the organisations whose Autobuy toggle the operator flips to the one that
  buys.  Dispatches never return to idle, which bounds every run of TruckPurchase.
* `MCQueue.cfg`: one customer, the poll thread and one request, cooldown 1, three days, two
  edits (`MaxEdits`): a stale snapshot needs one edit, crossing it another.  The four
  properties each speak of one customer at a time.
* `MCLru.cfg`: two customers, the poll thread, three days, one edit of the kinds that make
  a customer active outside the sweep, statuses the roster's CHECK accepts and refuses.
* `MCTestRuns.cfg`: two requests, each of any of the five kinds, so that all pairs of kinds
  meet; every property relates at most two requests.  Each kind has a context key
  of its own, so that company in a context is company of one kind.  The hourly cap is
  1, which two requests reach.  Two of the three workers (`Workers`), as two requests are at most in
  two.  `abort_read` is not among the faults here, as
  AbortPreventsOrder needs the flag to be readable; it is among TruckPurchase's.
* `MCFleet.cfg`: one truck, one customer, each of the four engines; two faults where nothing
  is bought and one beside purchases (`MaxFaults`); stale after 1 tick, restarts 2 apart,
  two bad probes.  A second truck would only wait for the first: a scan handles one at a
  time.  With the legacy engines the clock stands (`Timed`), and deaths and daemon
  restarts come at any moment instead; the ladder leaves at most one stray checkout.
* `MCOrderVerifier.cfg`: two attempts, two calls, days 1 to 3, the site's date on the same day
  or one earlier.  A wrong pair takes two attempts, a race two calls.
* `MCNotifier.cfg`: two callers of any kinds, two organisations of which one wants SMS, one fault
  and one restart.  Two callers make every race over the global there is: two workers, or
  one started twice.  What three would add is only a longer queue; the theorems cover it.
* `MCInactive.cfg`, `MCOwnDuplicate.cfg`, `MCManual.cfg`: the least that can show
  the disagreement.

Deadlock checking is off where the system rightly stops: dispatches, requests and verifier
calls and notices with something to do are finite in number, and the clock of RosterQueue and
PurchaseLock is bounded.  `fleet` never stops and is checked for deadlock.  Symmetry is
used in `daemon` (requests, workers), `verifier` (calls) and `operator` (dispatches of the one
process, organisations with the same cards), which check no liveness.

Fairness is only on what really keeps running.  PurchaseLock, weak: the
steps of a caller that is alive (a checkout ends, since the daemon's self-watchdog kills
the process of a job above its cap; `good360_daemon.py:1866`).  TruckPurchase, weak: the
thread of a dispatch and its job in the daemon, for the same reason.  RosterQueue, weak: the
poll thread's loop, which syncs every interval for as long as the dashboard runs
(`server_v2.py:729`), and the remaining steps of a sync that began.  Supervision, weak: the
loops of the monitor and of self-heal, which docker keeps alive (`restart: always`);
strong: the clock's tick, because it is only enabled between the passes of those
loops, which take seconds while a tick takes minutes.  That the healer does not kill
every purchase is the assumption `PurchasesAreShort`: a scan's purchases take less time
than two restarts are apart.  Notifier, weak: the steps of a thread that was started, which the
interpreter schedules; a hanging mail server is a state of its own (`stuck`)
without a way out, as the connection has no timeout.  Nothing forces
trucks to appear, operators to act, faults to happen, windows to expire or days to pass.

## 6. Proofs

All for arbitrary constants under the named `ASSUME`s of the modules.

* **PurchaseLock.** `Exclusion`, `Spacing`, `NoWedge`, `HolderKeepsFlock`.  The invariant
  `LockInv` adds to the properties that a caller's verdict fits its stage, that whoever was not refused by the
  flock holds it (`HolderHasFlock`), and that the mtime is no older than the end of the
  last checkout (`MtimeCoversEnd`).  The last is where the order of `Touch` and
  `Unlock` in the `finally` clause matters: the mtime is written under the flock.
* **TruckPurchase.** `SingleOrder` and `NoSilentOrder` come from `OrderInv`, which says of
  each dispatch at which control points it may still post (and then no job is alive and every order
  placed was denied), and what job, reply and row may look like once an order exists that was not.  The
  property alone is not inductive, because a lost reply leaves a running job behind; the
  invariant records that such a dispatch never reaches the ladder again.
  No fault is excluded.  `PurchasedMeansOrdered`
  follows from it and from a success row being final.  `WalksAreSerial` needs only that
  a walk enters through `queued`.  `SuspensionReachesGate` rests on `GateInv`: a suspended
  organisation is off in the dashboard, or a write of its suspension is due (some dispatch is
  at `suspend` or `unlist`) or was lost (`halved`); syncs do not matter, as the gate reads
  the dashboard.
* **RosterQueue.** `QueueIsLRU`: recomputation orders all active customers, and the other commits
  only add customers it does not speak of.  `CooldownIsKept`, from `SpacingInv`: while a
  cooldown has not been lifted by hand the roster's *date* stands (`DateStands`), whatever
  syncs and sweeps do to the *status*, and the walk never holds a resting customer
  (`ReadyToBuy`).  The date check in the pick, which looks redundant beside the
  status, is what carries the proof.
* **TruckPurchase, the walk.**  `WalksAdvance` from `WalkInv`, which
  knows that the organisation under way is the one last added to those tried.
  `AbortsAreFinal` from OrderInv and `AbortInv`: an aborted row belongs to a dispatch
  that is done and has no job.  `BuyersRest`: by `RestInv` every purchase that is past its
  cooldown commit has its organisation resting, unless its call broke off, and
  `PickLooks` says that whoever is assigned was not resting.  `PurchasedStays`:
  `PurchasedLostBy` finds the writer among five control points, and OrderInv says that a
  dispatch with a success row is at none of them.
* **Refinement.**  `ImplementsTruckSale`: initial states map to initial
  states, and `StepKeepsPromise` shows each step a step of TruckSale or a stutter.  It
  uses OrderInv before and after the step.
* **Supervision** (`SupervisionProofs`), over the whole of Monitor and LegacyCheckout.
  `RestartsKeepDistance`: the record is never older than the last real restart,
  unless lost.  `OneAlarmPerOutage`: outside a message the latch agrees with
  what was said last.  `CooldownsAreKept` is a case split over all actions that write the
  column.  `OneDispatchPerAvailability`: a truck given and not excused is among `mem` or
  `saved` wherever the scan will look.  `LadderBuysOnce` is the longest: its
  invariant relates every rung with the jobs alive and the window, since a
  stray may order long after the ladder has turned to the script.  `FleetTypeCorrect`
  carries the types of the three modules through the steps of all of them.
* **CheckoutDaemon** (`CheckoutDaemonProofs`).  `DaemonInv` says that the queue holds queued tasks,
  once each, that a thread submits its task once and a verdict leaves it ended, and that
  one task runs; from it `VerdictIsFinal`.  `AbortWins` adds `GateInv` (no Live View call has an
  abort gate) and assumes that the flag can be read.  `ContextsOutliveTasks` needs
  `ContextInv`: a context is cached under its own key or popped, not both, and is
  named after a request that is past making one; so a close meets no running task.
  `ForcedLoginIsFresh` and `TotalsAreOwn` share `ShareInv`: `CompanyInv` says that whoever is
  present together with another request of its key is marked as having had company,
  and the other parts what cached context, storage file and last total may then be
  for a request that has had none.
* **TestRuns** (`TestRunsProofs`).  `TestRunsUseTheDaemon` makes the three theorems above
  hold under the test runs; `CompletedTestsAreOver` and `MasterCartIsOwn` from `TestInv`; `TestTypeCorrect` over
  DaemonInv.
* **OrderVerifier** (`OrderVerifierProofs`).  What the pairing computes is an induction over its rounds.
  The library states that principle with an operator parameter, which the provers
  cannot instantiate; so `Induction` is proved here for *sets* of numbers, from the least
  element of a set, and used twice: `PairsByRound` (the recursive function has a value)
  and `DatePairsOk` (each row and each order is paired at most once, and only a pending
  order).  `WriteOutcome` says what a write leaves behind, and
  `DistinctStayDistinct` and `DatesDoNotMistake` are read off it.
* **Notifier** (`NotifierProofs`).  `ThreadInv`: the global, once set, names a thread that is new or
  alive, since no thread of a living process ends.  That makes `WorkerIsThere` true in spite
  of the race, and is what an uncaught exception would break.  `PlaceInv`: queue,
  hands and `settled` are disjoint, and queue entries distinct; hence `NoticesAreKept`.
  `WorldInv` fixes how far a notice has got by where it is; hence `NoticesGoOutOnce` and
  `HistoryTellsTheTruth`.  Restarts keep all three, as what was under way is `lost`.

Every safety property that a passing run checks, invariant or action property, is stated by one
of these theorems, but for `SuccessIsBooked`.  Only model-checked: that and liveness (`KeyIsReleased`, `DispatchEnds`,
`StaleIsTransient`, `IneligibleStaysOut`, `ExpiredIsReleased`, `OutagesEnd`, `NoticesAreSettled`),
which TLAPS cannot do here for want of ENABLED; and the runs that end in a violation.

## 7. Findings

1. `own_duplicate`: a walk's failed checkout opens the dedup window against the walk itself,
   so its next card or organisation is skipped, not tried.
2. `inactive`: a customer inactive or suspended in QuickBeed cannot be written to the roster
   (its CHECK refuses `inactive`); the sync rolls back, for everybody, and the customer
   stays eligible in the roster.  (The approval gate still refuses it at purchase time.)
3. `manual`: the verifier reads the source of a status and updates by row id afterwards, so
   what the operator set in between is overwritten; `order_verifier.py:66` says "NEVER
   overwritten" and `admin_routes.py:3823` "Manual always wins".

Met while modelling, without a run of their own:

* "so we never double-charge on a truck" (`good360_daemon.py:746`): a placed order whose page is
  misread (FAILED, MANUAL), or whose answer cannot be parsed (`failed_checkout`,
  `good360_autobuy_v2.py:730`, beside the comment at 724-728 on why an unknown order state must
  stop the ladder), is followed by another checkout, once the dedup window is over.
* `good360_autobuy_v2.py:1449`: the commit that records a success may raise; nothing catches
  it, and the attempt stays `in_progress` until self-heal calls it failed.
* `roster_orchestrator.py:19`: `QUEUE_LOCK` is per process; two walks in two processes may give
  one organisation two trucks before the first purchase is booked.
* `test_runner.py:84`: "waiting for runner lock — another test in flight": the lock is per
  gunicorn worker, of which `docker-compose.yml:153` starts three; two agents of two workers
  share the master account's cart.
* `good360_daemon.py:2006`: "Wipe BOTH the cached BrowserContext AND the persisted
  storage_state.json"; a removal that fails is logged and the login starts from the old file.
* `good360_watchdog.py:119`: outside office hours the state file is rewritten in place on every pass; a
  death in it forgets that the alarm was sent, and it is sent again.

* `roster_orchestrator.py:134` calls `truck_gone` and `alerted_manual` "terminal for the truck";
  a truck found sold out, or an unclear page, does not end the walk: the ladder
  tries the next card, and the walk the next organisation.
* `roster_orchestrator.py:269`: for an organisation that buys the truck's category by hand,
  `alert_only_timer` ("Send alert to org") calls `notify_truck_alert` with two of its seven required
  arguments; the error goes to the administrator as a notice for organisation 0
  (`notifier.py:530`), which the worker does not find, and drops.  Nobody is told.
* `notifier.py:57`: two first notices of a process at once may start one thread twice
  (`StartedTwice`); the second start raises out of `attempt_purchase`, after the booking and
  before the confirmation is queued, which "Always alert on: SUCCESS" excludes.
* The in-flight check of the redirect endpoint (`admin_routes.py:2511`) misses a walk that is
  between two attempts, though its docstring (`admin_routes.py:2612`) says "no in-flight
  attempt"; two attempts on one truck can be in progress.
* `good360_monitor.py:1757`: "Cooldown the assigned nonprofit so they don't get the next
  available truck right after this one"; `mark_customer_assigned` only clears the ten-minute
  reservation.  After a purchase of the legacy engine nobody writes a cooldown.
* The alert of `_alert_payment_failure` (`good360_autobuy_v2.py:1247`) says that no other card
  was tried; the ladder has tried the others.

## 8. Not modelled

The selectors and retries inside a page stage: a stage succeeds, fails, or hangs.  Feature flags
are fixed to automatic buying on, except the daemon's own switch (`enabled`); dry run, manual
quotes and the engine's test mode are left out (a readiness check of TestRuns is one step).
RosterQueue leaves out the insertion of new customers, price and category data, and a request
that dies inside its sync; the monitor's reservation is in Monitor's `column` instead.
In TruckPurchase the sync is one step (RosterQueue splits it), and a redirect's check and its
reset of the event are one step.  Self-heal closes attempts of dead callers only.  A truck is an event, and a suspension counts from the end of
the ladder that saw the card verdict.  A page behind a click that placed nothing is never read as
a success.
Monitor's dispatch to the roster is one step, and other processes' purchases appear there only
as writes of the cooldown column.  A truck is its name there and `todo` a set, where
the code has a list: two rows of one name in one scan would each be dispatched
(`good360_monitor.py:1445`, `1544-1565`).  The devtools agent is an oracle of outcomes.
Left out of the order verifier are the daily gate with its lock and state files: calls are
simply allowed at any time.

Errors that the code swallows and the model leaves out: `os.utime` failing in the lock's `finally`
(`purchase_lock.py:123-128`, the window then starts too early), a locked database in the
second transaction of a sync (the positions wait for the next one), a test run's row update.
RosterQueue's fairness presumes that QuickBeed answers the poll thread, which else skips its sync
(`server_v2.py:731-741`).  A redirect to a named organisation does not look at cooldowns
(`admin_routes.py:2585`); RosterQueue has walks only.  `RestartsAreSpaced` excepts a torn
record, which "at most once per 30 minutes" (`self_heal.py:19-22`) does not.

Left out of the notifier: the wording of notices (a template is its kind), those nobody queues
(master card, subscription), and the readers of its history.

The Telegram router and bot (post and forget; no purchase decision reads them),
authentication, vault and settings (sequential code around external cryptography), reports,
`sandbox.py`, the intake form and the front ends have no module: pure I/O or CRUD without a
state machine.  `PROJECT.json` says for each component what is in and what is not.

## 9. Order of work, and what could follow

Written in this order: PurchaseLock, TruckPurchase, RosterQueue with their proofs; then
CheckoutDaemon and TestRuns; LegacyCheckout, Monitor, Supervision; TruckSale and the
refinement; OrderVerifier; Notifier; and the proofs of each.  What could follow: a refinement from
CheckoutDaemon to the job of TruckPurchase; the manual-quote flow of the
engine; two walks in different processes against RosterQueue's queue in one model; and
the gate of the verifier's daily run.
