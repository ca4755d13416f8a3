----------------------------- MODULE Supervision -----------------------------
(***************************************************************************)
(* Who watches the scanner: self_heal.py, one pass a minute over the daemon *)
(* and the heartbeat, with the right to restart the daemon's and the       *)
(* monitor's containers, each at most every half hour; and two watchers    *)
(* that only tell the operator, good360_watchdog.py (in business hours)    *)
(* and deadman_switch.py (from another host).                              *)
(*                                                                         *)
(* Time is a saturating count of ticks.  A tick only passes when the       *)
(* healer is between two passes and the monitor has tried a scan since the *)
(* last tick, hangs, or is buying: everything else takes seconds.  While a *)
(* monitor of the legacy engines runs, the clock stands (a bound): there,  *)
(* deaths and daemon restarts come at any moment, with no need of a reason. *)
(***************************************************************************)
EXTENDS Monitor

CONSTANTS
  RestartGap,      \* RESTART_MIN_GAP_S, in ticks
  PurchaseTicks,   \* how long the purchases of a scan may take
  FailCycles       \* DAEMON_FAIL_CYCLES

ASSUME GapAssumption == RestartGap \in Nat /\ PurchaseTicks \in Nat
ASSUME PurchasesAreShort == PurchaseTicks < RestartGap
ASSUME FailCyclesAssumption == FailCycles \in Nat

Wards == {"monitor", "daemon"}
Watchers == {"watchdog", "deadman"}

VARIABLES
  due,        \* the monitor has not tried a scan since the last tick
  busy,       \* ticks since this scan first bought
  sinceHeal,  \* sinceHeal[x]: ticks since the restart of x on record
  sinceReal,  \* sinceReal[x]: history, ticks since x was really restarted
  lost,       \* history: the healer's record was torn
  badProbes,  \* consecutive bad probes of the daemon
  hstage,     \* where the healer's pass is
  watcher,    \* the watcher this behaviour follows
  office,     \* business hours
  latch,      \* its file says that the alarm was sent
  wstage,     \* the message it has sent and not recorded
  said,       \* history: the last thing it told the operator
  slipped     \* history: it died over a message or with its file torn

clock == <<due, busy>>
healing == <<sinceHeal, sinceReal, lost, badProbes, hstage>>
watching == <<watcher, office, latch, wstage, said, slipped>>
fleetVars == <<legacyVars, monitorVars, clock, healing, watching>>

FleetTypeOK ==
  /\ LegacyTypeOK /\ MonitorTypeOK
  /\ due \in BOOLEAN /\ busy \in 0 .. PurchaseTicks
  /\ sinceHeal \in [Wards -> 0 .. RestartGap]
  /\ sinceReal \in [Wards -> 0 .. RestartGap]
  /\ lost \in BOOLEAN
  /\ badProbes \in 0 .. FailCycles
  /\ hstage \in {"probe", "restartDaemon", "check", "restartMonitor"}
  /\ watcher \in Watchers
  /\ office \in BOOLEAN /\ latch \in BOOLEAN /\ slipped \in BOOLEAN
  /\ wstage \in {"none", "down", "up"}
  /\ said \in {"down", "up"}

Init ==
  /\ LegacyInit /\ MonitorInit
  /\ due = TRUE /\ busy = 0
  /\ sinceHeal = [x \in Wards |-> RestartGap]
  /\ sinceReal = [x \in Wards |-> RestartGap]
  /\ lost = FALSE
  /\ badProbes = 0
  /\ hstage = "probe"
  /\ IF engine = "idle" THEN watcher \in Watchers ELSE watcher = "watchdog"
  /\ office = TRUE /\ latch = FALSE /\ slipped = FALSE
  /\ wstage = "none"
  /\ said = "up"

-----------------------------------------------------------------------------
(* Time, and the monitor under it.                                         *)

Timed == engine \in {"roster", "idle"}

Up(n, limit) == IF n < limit THEN n + 1 ELSE n

Tick ==
  /\ Timed
  /\ hstage = "probe"
  /\ ~due \/ mstage \in {"hung", "buying"}
  /\ mstage = "buying" => busy < PurchaseTicks
  /\ age' = Up(age, StaleAfter + 1)
  /\ sinceHeal' = [x \in Wards |-> Up(sinceHeal[x], RestartGap)]
  /\ sinceReal' = [x \in Wards |-> Up(sinceReal[x], RestartGap)]
  /\ busy' = IF mstage = "buying" THEN busy + 1 ELSE busy
  /\ due' = TRUE
  /\ UNCHANGED <<legacyVars, scan, column, beatTorn, sighting, faults, lost, badProbes,
                 hstage, watching>>

(* A scan tried is a scan that came back to rest.                          *)
MonitorStep ==
  /\ ScanStep \/ ScanRaises \/ ScanHangs \/ MonitorDies
  /\ due' = (due /\ mstage' # "rest")
  /\ busy' = IF mstage' = "rest" THEN 0 ELSE busy
  /\ UNCHANGED <<healing, watching>>

Elsewhere ==
  /\ BuyingStep \/ DaemonFails \/ DaemonBack \/ Outside
  /\ UNCHANGED <<clock, healing, watching>>

-----------------------------------------------------------------------------
(* self_heal.py, run_cycle.  It says the heartbeat is stale when it is old *)
(* or cannot be read.                                                      *)

Stale == beatTorn \/ age > StaleAfter

HealerFrame == UNCHANGED <<legacyVars, monitorVars, clock, watching>>

(* Slip: the restarts are not held apart. *)
SlipRateLimitOk(x) == TRUE

RateLimitOk(x) == sinceHeal[x] >= RestartGap

(* _restart_container first puts the restart on record.                    *)
Record(x) == sinceHeal' = [sinceHeal EXCEPT ![x] = 0]

(* probe_daemon and check_daemon_wedge.                                    *)
ProbeDaemon ==
  /\ Timed /\ hstage = "probe"
  /\ \/ daemonUp /\ badProbes' = 0 /\ hstage' = "check" /\ UNCHANGED sinceHeal
     \/ /\ ~daemonUp
        /\ badProbes' = Up(badProbes, FailCycles)
        /\ IF badProbes' >= FailCycles /\ RateLimitOk("daemon")
             THEN hstage' = "restartDaemon" /\ Record("daemon")
             ELSE hstage' = "check" /\ UNCHANGED sinceHeal
  /\ UNCHANGED <<sinceReal, lost>> /\ HealerFrame

(* Slip: the restart is put on record before its rate is looked at. *)
SlipCheckMonitor ==
  /\ hstage = "check"
  /\ IF Stale
       THEN Record("monitor")
            /\ hstage' = IF RateLimitOk("monitor") THEN "restartMonitor" ELSE "probe"
       ELSE hstage' = "probe" /\ UNCHANGED sinceHeal
  /\ UNCHANGED <<sinceReal, lost, badProbes>> /\ HealerFrame

(* check_monitor_stale.                                                    *)
CheckMonitor ==
  /\ hstage = "check"
  /\ IF Stale /\ RateLimitOk("monitor")
       THEN hstage' = "restartMonitor" /\ Record("monitor")
       ELSE hstage' = "probe" /\ UNCHANGED sinceHeal
  /\ UNCHANGED <<sinceReal, lost, badProbes>> /\ HealerFrame

(* docker restart, which may fail: the record stands all the same.         *)
RestartDaemon ==
  /\ hstage = "restartDaemon"
  /\ daemonUp' = TRUE
  /\ DaemonGoes
  /\ sinceReal' = [sinceReal EXCEPT !["daemon"] = 0]
  /\ badProbes' = 0
  /\ hstage' = "check"
  /\ UNCHANGED <<monitorVars, clock, sinceHeal, lost, watching>>

RestartMonitor ==
  /\ hstage = "restartMonitor"
  /\ MonitorGoes
  /\ sinceReal' = [sinceReal EXCEPT !["monitor"] = 0]
  /\ hstage' = "probe"
  /\ busy' = 0
  /\ UNCHANGED <<faults, due, sinceHeal, lost, badProbes, watching>>

DockerFails ==
  /\ hstage \in {"restartDaemon", "restartMonitor"}
  /\ Fault
  /\ IF hstage = "restartDaemon" THEN hstage' = "check" /\ badProbes' = 0
                                 ELSE hstage' = "probe" /\ UNCHANGED badProbes
  /\ UNCHANGED <<sinceHeal, sinceReal, lost>>
  /\ UNCHANGED <<legacyVars, scan, column, beat, sighting, clock, watching>>

(* The healer is started again and reads its record: one that it was just  *)
(* writing may be torn, and is then as good as none.                       *)
HealerDies ==
  /\ Timed /\ Fault
  /\ hstage' = "probe" /\ badProbes' = 0
  /\ \/ UNCHANGED <<sinceHeal, lost>>
     \/ /\ hstage \in {"restartDaemon", "restartMonitor"}
        /\ sinceHeal' = [x \in Wards |-> RestartGap]
        /\ lost' = TRUE
  /\ UNCHANGED sinceReal
  /\ UNCHANGED <<legacyVars, scan, column, beat, sighting, clock, watching>>

-----------------------------------------------------------------------------
(* The watchers: send, then record.  They share nothing with each other and *)
(* only look at the heartbeat, so each behaviour follows one of them, in   *)
(* one mode of the monitor (bounds).                                       *)

Looks ==
  /\ engine = "idle" /\ wstage = "none"
  /\ watcher = "watchdog" => office

(* The dead-man switch also takes a heartbeat it cannot fetch for a stale  *)
(* one.                                                                    *)
SaysStale == Stale \/ watcher = "deadman"

Sends(what) ==
  /\ wstage' = what
  /\ said' = what
  /\ UNCHANGED <<watcher, office, latch, slipped>>

WatcherFrame == UNCHANGED <<legacyVars, monitorVars, clock, healing>>

Alarm == Looks /\ SaysStale /\ ~latch /\ Sends("down") /\ WatcherFrame

AllClear == Looks /\ ~Stale /\ latch /\ Sends("up") /\ WatcherFrame

(* Slip: the alarm is not put on record. *)
SlipRecords ==
  /\ wstage # "none"
  /\ wstage' = "none"
  /\ slipped' = FALSE
  /\ UNCHANGED <<watcher, office, latch, said>> /\ WatcherFrame

Records ==
  /\ wstage # "none"
  /\ wstage' = "none"
  /\ latch' = (wstage = "down")
  /\ slipped' = FALSE
  /\ UNCHANGED <<watcher, office, said>> /\ WatcherFrame

(* Its file still says what it said before, or is torn and says nothing.   *)
WatcherDies ==
  /\ wstage # "none" /\ Fault
  /\ wstage' = "none"
  /\ \/ UNCHANGED latch
     \/ latch' = FALSE
  /\ slipped' = TRUE
  /\ UNCHANGED <<watcher, office, said>>
  /\ UNCHANGED <<legacyVars, scan, column, beat, sighting, clock, healing>>

(* Outside business hours the watchdog writes its file anew on every pass,  *)
(* in place: a death in that write leaves nothing of the alarm on record.   *)
SaveTorn ==
  /\ engine = "idle" /\ watcher = "watchdog" /\ ~office
  /\ wstage = "none" /\ latch /\ Fault
  /\ latch' = FALSE
  /\ slipped' = TRUE
  /\ UNCHANGED <<watcher, office, wstage, said>>
  /\ UNCHANGED <<legacyVars, scan, column, beat, sighting, clock, healing>>

OfficeTurns ==
  /\ engine = "idle" /\ watcher = "watchdog"
  /\ office' = ~office
  /\ UNCHANGED <<watcher, latch, wstage, said, slipped>> /\ WatcherFrame

-----------------------------------------------------------------------------
Healer == ProbeDaemon \/ CheckMonitor \/ RestartDaemon \/ RestartMonitor

Watching == OfficeTurns \/ Alarm \/ AllClear \/ Records \/ WatcherDies \/ SaveTorn

Next ==
  \/ Tick \/ MonitorStep \/ Elsewhere
  \/ Healer \/ DockerFails \/ HealerDies
  \/ Watching

(* The loops of the healer and of the monitor go on, the clock ticks        *)
(* between the passes (strongly: a pass only takes seconds), and a purchase *)
(* comes to its end.                                                       *)
Fairness ==
  /\ SF_fleetVars(Tick)
  /\ WF_fleetVars(MonitorStep)
  /\ WF_fleetVars(Healer)

Spec == Init /\ [][Next]_fleetVars /\ Fairness

-----------------------------------------------------------------------------
(* The half hour between two restarts of a container holds for the real    *)
(* restarts too, through deaths of the healer and restarts that failed,    *)
(* because each is put on record before it is tried: unless the record     *)
(* itself was torn.                                                        *)
RestartsAreSpaced ==
  [][/\ RestartMonitor => sinceReal["monitor"] >= RestartGap \/ lost
     /\ RestartDaemon => sinceReal["daemon"] >= RestartGap \/ lost]_fleetVars

(* Faults come to an end, and then whatever hung or died is brought back:  *)
(* a stale heartbeat is followed by a fresh one, even where the healer     *)
(* kills a monitor in the middle of a long purchase, except behind a torn  *)
(* state file, which no restart mends; and the daemon answers again.       *)
OutagesEnd ==
  /\ (age > StaleAfter) ~> (age = 0 \/ torn)
  /\ (engine = "idle" /\ ~daemonUp) ~> daemonUp

(* A watcher that has told the operator of an outage does not do so again  *)
(* before it has told of the recovery, whatever the office hours do in     *)
(* between: unless it died before it could record the first message, or in  *)
(* one of the writes of its file.  Each repetition costs a death of its own. *)
AlarmsAlternate ==
  [][wstage = "none" /\ wstage' = "down" => said = "up" \/ slipped]_fleetVars
=============================================================================
