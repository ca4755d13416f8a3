---------------------------- MODULE LegacyCheckout ----------------------------
(***************************************************************************)
(* The purchase path the monitor takes when the roster is switched off:    *)
(* run_autobuy goes down a ladder of engines (the browser daemon, then the *)
(* script good360_autobuy.py in a process of its own, then the devtools    *)
(* agent), and only a failure is meant to lead to the next rung.           *)
(*                                                                         *)
(* The daemon is given 45 seconds, after which its checkout is a stray     *)
(* that still runs; the script is killed after 300.  Daemon and script     *)
(* share the purchase lock of the truck and its one-minute dedup window;   *)
(* the agent takes no lock.  There is one ladder at a time: it runs in the *)
(* monitor's only thread.                                                  *)
(*                                                                         *)
(* good360_monitor.py (run_autobuy), good360_autobuy.py.                   *)
(***************************************************************************)
EXTENDS Naturals, FiniteSets

CONSTANTS
  Trucks,        \* truck names, one URL each
  EngineModes,   \* of which one is configured: ROSTER_ENABLED, AUTOBUY_ENGINE;
                 \* "idle": ENABLE_URL_SCANNING is off and nothing is bought
  AgentAllowed   \* devtools agent has its key and its live-purchase flag

Engines == {"roster", "daemon", "devtools", "idle"}

ASSUME EngineAssumption == EngineModes # {} /\ EngineModes \subseteq Engines
ASSUME TruckAssumption == Trucks # {}
ASSUME AgentAssumption == AgentAllowed \in BOOLEAN

VARIABLES
  engine,    \* the configured engine
  daemonUp,  \* the daemon answers /health
  truck,     \* the truck the monitor is at
  rung,      \* where run_autobuy is
  script,    \* where good360_autobuy.py is
  job,       \* the checkout the ladder waits for in the daemon
  stray,     \* an abandoned checkout in the daemon, and its truck
  holder,    \* holder[t]: who holds t's purchase lock
  recent,    \* recent[t]: t's dedup window is open
  verdict,   \* what the last rung said
  orders,    \* orders placed since this ladder was entered
  lapsed,    \* history: one of these orders has no window (any more): it
             \* closed, or the buyer died before it opened it
  byAgent    \* history: the agent was let at the truck in this ladder

ladder == <<rung, script, job, verdict, byAgent>>
lock == <<holder, recent>>
legacyVars == <<engine, daemonUp, truck, rung, script, job, stray, holder, recent,
                verdict, orders, lapsed, byAgent>>

NoStray == [at |-> "none", truck |-> CHOOSE t \in Trucks : TRUE]

ScriptStages == {"none", "lock", "login", "detail", "product", "cart", "questions",
                 "total", "payment", "place"}
Verdicts == {"none", "SUCCESS", "FAILED", "MISSED", "MANUAL", "CARD_DECLINED",
             "SKIPPED"}

LegacyTypeOK ==
  /\ engine \in EngineModes
  /\ daemonUp \in BOOLEAN
  /\ truck \in Trucks
  /\ rung \in {"none", "first", "probe", "daemon", "script", "escalate", "agent",
               "over"}
  /\ script \in ScriptStages
  /\ job \in {"none", "queued", "running"}
  /\ stray \in [at : {"none", "queued", "running"}, truck : Trucks]
  /\ holder \in [Trucks -> {"none", "job", "stray", "script"}]
  /\ recent \in [Trucks -> BOOLEAN]
  /\ verdict \in Verdicts
  /\ orders \in Nat
  /\ lapsed \in BOOLEAN
  /\ byAgent \in BOOLEAN

LegacyInit ==
  /\ engine \in EngineModes
  /\ daemonUp = TRUE
  /\ truck = CHOOSE t \in Trucks : TRUE
  /\ rung = "none"
  /\ script = "none"
  /\ job = "none"
  /\ stray = NoStray
  /\ holder = [t \in Trucks |-> "none"]
  /\ recent = [t \in Trucks |-> FALSE]
  /\ verdict = "none"
  /\ orders = 0
  /\ lapsed = FALSE
  /\ byAgent = FALSE

-----------------------------------------------------------------------------
(* run_autobuy.                                                            *)

ToRung(r) == rung' = r
Return(v) == ToRung("over") /\ verdict' = v

(* What the caller sets up: the ladder starts with the devtools agent where *)
(* that is the configured engine, otherwise with the daemon.               *)
EnterLadder ==
  /\ ToRung(IF engine = "devtools" THEN "first" ELSE "probe")
  /\ verdict' = "none"
  /\ orders' = 0
  /\ lapsed' = FALSE
  /\ byAgent' = FALSE
  /\ UNCHANGED <<script, job, stray, lock, engine, daemonUp>>

(* run_agent: a language model works a browser of its own, past the lock,   *)
(* and says of it what it likes.                                           *)
AgentRuns ==
  /\ byAgent' = TRUE
  /\ orders' \in {orders, orders + 1}

(* The agent as the first rung: most outcomes return; with the fallback    *)
(* switched on a failure goes on to the daemon.                            *)
AgentFirst ==
  /\ rung = "first"
  /\ AgentRuns
  /\ \/ \E v \in {"SUCCESS", "MISSED", "MANUAL", "FAILED"} : Return(v)
     \/ ToRung("probe") /\ UNCHANGED verdict
  /\ UNCHANGED <<script, job, stray, lock, lapsed, engine, daemonUp, truck>>

(* check_daemon_health, then POST /checkout.                               *)
TryDaemon ==
  /\ rung = "probe"
  /\ \/ daemonUp /\ ToRung("daemon") /\ job' = "queued" /\ UNCHANGED script
     \/ ~daemonUp /\ ToRung("script") /\ script' = "lock" /\ UNCHANGED job
  /\ UNCHANGED <<stray, lock, verdict, orders, lapsed, byAgent, engine, daemonUp, truck>>

ToScript == ToRung("script") /\ script' = "lock"

(* A failure of the daemon leads to the script, every other answer returns. *)
DaemonAnswers ==
  /\ rung = "daemon" /\ job = "none"
  /\ \/ verdict = "FAILED" /\ ToScript
     \/ verdict # "FAILED" /\ ToRung("over") /\ UNCHANGED script
  /\ UNCHANGED <<job, stray, lock, verdict, orders, lapsed, byAgent, engine, daemonUp,
                 truck>>

(* 45 seconds, or the connection broke: the script is next, while the      *)
(* checkout stays in the daemon.  One stray at a time (a bound).           *)
DaemonTimesOut ==
  /\ rung = "daemon" /\ job # "none"
  /\ stray.at = "none"
  /\ stray' = [at |-> job, truck |-> truck]
  /\ holder' = [t \in Trucks |-> IF holder[t] = "job" THEN "stray" ELSE holder[t]]
  /\ job' = "none"
  /\ ToScript
  /\ UNCHANGED <<recent, verdict, orders, lapsed, byAgent, engine, daemonUp, truck>>

(* The exit code decides; a failure escalates to the agent if it may.      *)
ScriptReturned ==
  /\ rung = "script" /\ script = "none"
  /\ ToRung(IF verdict = "FAILED" /\ ~byAgent /\ AgentAllowed THEN "agent" ELSE "over")
  /\ UNCHANGED <<script, job, stray, lock, verdict, orders, lapsed, byAgent, engine,
                 daemonUp, truck>>

AgentLast ==
  /\ rung = "agent"
  /\ AgentRuns
  /\ \E v \in {"SUCCESS", "MISSED", "MANUAL", "FAILED"} : Return(v)
  /\ UNCHANGED <<script, job, stray, lock, lapsed, engine, daemonUp, truck>>

-----------------------------------------------------------------------------
(* The script, a chain of page stages under the purchase lock.             *)

InScript(s) == script = s

Ends(v) ==
  /\ script' = "none"
  /\ verdict' = v
  /\ holder' = [holder EXCEPT ![truck] = "none"]
  /\ recent' = [recent EXCEPT ![truck] = TRUE]

Continues(s) == script' = s /\ UNCHANGED <<verdict, lock>>

ScriptFrame == UNCHANGED <<rung, job, stray, lapsed, byAgent, engine, daemonUp, truck>>

(* Slip: the script does not look at the lock. *)
SlipScriptLocks ==
  /\ InScript("lock")
  /\ script' = "login"
  /\ holder' = [holder EXCEPT ![truck] = "script"]
  /\ UNCHANGED <<verdict, recent>>
  /\ ScriptFrame /\ UNCHANGED orders

(* Held or tried within the minute: SKIPPED, which exits as a failure and,  *)
(* like every way out of the lock, restarts the window.                    *)
ScriptLocks ==
  /\ InScript("lock")
  /\ \/ /\ holder[truck] = "none" /\ ~recent[truck]
        /\ script' = "login"
        /\ holder' = [holder EXCEPT ![truck] = "script"]
        /\ UNCHANGED <<verdict, recent>>
     \/ /\ holder[truck] # "none" \/ recent[truck]
        /\ script' = "none"
        /\ verdict' = "FAILED"
        /\ recent' = [recent EXCEPT ![truck] = TRUE]
        /\ UNCHANGED holder
  /\ ScriptFrame /\ UNCHANGED orders

(* Sign in, open the truck page, which may say it is gone.                 *)
ScriptLogsIn ==
  /\ InScript("login")
  /\ Continues("detail") \/ Ends("MISSED") \/ Ends("FAILED")
  /\ ScriptFrame /\ UNCHANGED orders

(* From a listing card to the product page.                                *)
ScriptFindsProduct ==
  /\ InScript("detail")
  /\ Continues("product") \/ Ends("FAILED")
  /\ ScriptFrame /\ UNCHANGED orders

(* Add to Cart, the quote dialog, the mini-cart.                           *)
ScriptAddsToCart ==
  /\ InScript("product")
  /\ Continues("cart") \/ Ends("FAILED")
  /\ ScriptFrame /\ UNCHANGED orders

(* The cart has to show the truck; then the mini-cart's Checkout.          *)
ScriptChecksCart ==
  /\ InScript("cart")
  /\ Continues("questions") \/ Ends("MISSED") \/ Ends("FAILED")
  /\ ScriptFrame /\ UNCHANGED orders

(* The customer's answers and the dock.                                    *)
ScriptAnswers ==
  /\ InScript("questions")
  /\ Continues("total") \/ Ends("FAILED")
  /\ ScriptFrame /\ UNCHANGED orders

(* The total may be above MAX_AUTO_PAY.                                    *)
ScriptReadsTotal ==
  /\ InScript("total")
  /\ Continues("payment") \/ Ends("MANUAL") \/ Ends("FAILED")
  /\ ScriptFrame /\ UNCHANGED orders

(* A saved billing address has to match, a card has to be known.           *)
ScriptFillsPayment ==
  /\ InScript("payment")
  /\ Continues("place") \/ Ends("FAILED")
  /\ ScriptFrame /\ UNCHANGED orders

(* The click and the page after it.  An order whose page is not recognised  *)
(* in 30 seconds is a failure like a click that did nothing.               *)
ScriptPlacesOrder ==
  /\ InScript("place")
  /\ \/ orders' = orders + 1 /\ (Ends("SUCCESS") \/ Ends("FAILED"))
     \/ UNCHANGED orders
        /\ \E v \in {"CARD_DECLINED", "MISSED", "FAILED"} : Ends(v)
  /\ ScriptFrame

(* subprocess.run kills it after 300 seconds: the flock goes with the      *)
(* process and nobody touches the window.                                  *)
ScriptTimesOut ==
  /\ script # "none"
  /\ script' = "none"
  /\ verdict' = "FAILED"
  /\ holder' = [t \in Trucks |-> IF holder[t] = "script" THEN "none" ELSE holder[t]]
  /\ \/ script = "place" /\ orders' = orders + 1 /\ lapsed' = TRUE
     \/ UNCHANGED <<orders, lapsed>>
  /\ UNCHANGED <<recent, rung, job, stray, byAgent, engine, daemonUp, truck>>

-----------------------------------------------------------------------------
(* The daemon's side (CheckoutDaemon has it in full).  It has one worker;   *)
(* the stray was there first.                                              *)

DaemonFrame ==
  UNCHANGED <<rung, script, lapsed, byAgent, engine, daemonUp, truck>>

MayStart(t) == holder[t] = "none" /\ ~recent[t]

StrayAtTruck == stray.at = "running" /\ stray.truck = truck /\ rung # "none"

StrayStarts ==
  /\ daemonUp /\ stray.at = "queued"
  /\ \/ /\ MayStart(stray.truck)
        /\ stray' = [at |-> "running", truck |-> stray.truck]
        /\ holder' = [holder EXCEPT ![stray.truck] = "stray"]
        /\ UNCHANGED recent
     \/ /\ ~MayStart(stray.truck)
        /\ stray' = NoStray
        /\ recent' = [recent EXCEPT ![stray.truck] = TRUE]
        /\ UNCHANGED holder
  /\ UNCHANGED <<job, verdict, orders>> /\ DaemonFrame

(* Its order counts if the ladder is at the same truck.                    *)
StrayEnds ==
  /\ daemonUp /\ stray.at = "running"
  /\ stray' = NoStray
  /\ holder' = [holder EXCEPT ![stray.truck] = "none"]
  /\ recent' = [recent EXCEPT ![stray.truck] = TRUE]
  /\ \/ StrayAtTruck /\ orders' = orders + 1
     \/ UNCHANGED orders
  /\ UNCHANGED <<job, verdict>> /\ DaemonFrame

JobStarts ==
  /\ daemonUp /\ job = "queued" /\ stray.at = "none"
  /\ \/ /\ MayStart(truck)
        /\ job' = "running"
        /\ holder' = [holder EXCEPT ![truck] = "job"]
        /\ UNCHANGED <<verdict, recent>>
     \/ /\ ~MayStart(truck)
        /\ job' = "none"
        /\ verdict' = "SKIPPED"
        /\ recent' = [recent EXCEPT ![truck] = TRUE]
        /\ UNCHANGED holder
  /\ UNCHANGED <<stray, orders>> /\ DaemonFrame

JobEnds ==
  /\ daemonUp /\ job = "running"
  /\ job' = "none"
  /\ holder' = [holder EXCEPT ![truck] = "none"]
  /\ recent' = [recent EXCEPT ![truck] = TRUE]
  /\ \/ orders' = orders + 1 /\ verdict' \in {"SUCCESS", "MANUAL", "FAILED"}
     \/ UNCHANGED orders
        /\ verdict' \in {"CARD_DECLINED", "MISSED", "MANUAL", "FAILED"}
  /\ UNCHANGED stray /\ DaemonFrame

(* The daemon goes, by a fault or a restart, and its checkouts with it; one *)
(* that had just ordered leaves no window behind.  A waiting ladder sees   *)
(* the connection break and turns to the script.                           *)
DaemonGoes ==
  /\ job' = "none" /\ stray' = NoStray
  /\ holder' = [t \in Trucks |-> IF holder[t] = "script" THEN "script" ELSE "none"]
  /\ IF rung = "daemon" /\ job # "none" THEN ToScript ELSE UNCHANGED <<rung, script>>
  /\ \/ /\ job = "running" \/ StrayAtTruck
        /\ orders' = orders + 1 /\ lapsed' = TRUE
     \/ UNCHANGED <<orders, lapsed>>
  /\ UNCHANGED <<recent, verdict, byAgent, engine, truck>>

(* The monitor's process goes: a script dies with it, a checkout it waited *)
(* for stays in the daemon.  One stray at a time (a bound).                *)
LadderGoes ==
  /\ job = "none" \/ stray.at = "none"
  /\ stray' = IF job = "none" THEN stray ELSE [at |-> job, truck |-> truck]
  /\ holder' = [t \in Trucks |-> CASE holder[t] = "script" -> "none"
                                  [] holder[t] = "job" -> "stray"
                                  [] OTHER -> holder[t]]
  /\ rung' = "none" /\ script' = "none" /\ job' = "none"
  /\ verdict' = "none" /\ orders' = 0 /\ lapsed' = FALSE /\ byAgent' = FALSE
  /\ UNCHANGED <<recent, engine, daemonUp, truck>>

WindowCloses(t) ==
  /\ recent[t]
  /\ recent' = [recent EXCEPT ![t] = FALSE]
  /\ lapsed' = (lapsed \/ (t = truck /\ orders > 0))
  /\ UNCHANGED <<holder, stray, orders, ladder, engine, daemonUp, truck>>

-----------------------------------------------------------------------------
LadderStep ==
  \/ AgentFirst \/ TryDaemon \/ DaemonAnswers \/ DaemonTimesOut
  \/ ScriptReturned \/ AgentLast
  \/ ScriptLocks \/ ScriptLogsIn \/ ScriptFindsProduct \/ ScriptAddsToCart
  \/ ScriptChecksCart \/ ScriptAnswers \/ ScriptReadsTotal \/ ScriptFillsPayment
  \/ ScriptPlacesOrder \/ ScriptTimesOut

DaemonStep == StrayStarts \/ StrayEnds \/ JobStarts \/ JobEnds

(* One pass through the ladder orders a truck at most once, although the    *)
(* daemon's checkout goes on when the ladder has given up on it and a       *)
(* failure may hide an order: unless a whole dedup window passed since the  *)
(* first order, or the agent, which knows no lock, had its turn.           *)
LadderOrdersOnce == orders <= 1 \/ lapsed \/ byAgent
=============================================================================
