------------------------------- MODULE Monitor -------------------------------
(***************************************************************************)
(* The scanner, good360_monitor.py: one thread that every ten seconds      *)
(* reads the file of trucks it has alerted about, scrapes the listings,    *)
(* goes through the trucks that are new, saves the file and writes its     *)
(* heartbeat.  A truck on its watch list gets a waiting customer reserved  *)
(* and is bought, through the roster (TruckPurchase) or, with the roster   *)
(* off, down the ladder of LegacyCheckout.                                 *)
(*                                                                         *)
(* Both files are rewritten in place, so that a death in the middle leaves *)
(* a torn one.  The reservation shares the column cooldown_until with the  *)
(* customer's real cooldown, which other processes write.                  *)
(***************************************************************************)
EXTENDS LegacyCheckout

CONSTANTS
  Customers,    \* nonprofits waiting in the dashboard's queue
  NoCustomer,
  StaleAfter,   \* MONITOR_STALE_MINUTES, in ticks of the clock
  MaxFaults     \* MaxFaults[e]: bound of the deaths, hangs and errors under
                \* engine e, for TLC only

ASSUME StaleAssumption == StaleAfter \in Nat
ASSUME FaultsAssumption == MaxFaults \in [EngineModes -> Nat]
ASSUME CustomerAssumption == NoCustomer \notin Customers

VARIABLES
  saved,     \* the alerted trucks in the state file
  torn,      \* the state file is truncated
  mem,       \* the alerted trucks of the running scan
  todo,      \* the new trucks it has not come to
  mstage,    \* where the scan is
  picked,    \* the customer reserved for the truck
  column,    \* column[c]: what c's cooldown_until amounts to
  age,       \* ticks since the heartbeat's time, up to StaleAfter + 1
  beatTorn,  \* the heartbeat file is truncated
  given,     \* given[t]: history, t was bought for in this availability
  excused,   \* excused[t]: history, and its scan came to nothing since
  faults     \* faults so far

scan == <<saved, torn, mem, todo, mstage, picked>>
beat == <<age, beatTorn>>
sighting == <<given, excused>>
monitorVars == <<scan, column, beat, sighting, faults>>

MonitorTypeOK ==
  /\ saved \in SUBSET Trucks /\ mem \in SUBSET Trucks /\ todo \in SUBSET Trucks
  /\ torn \in BOOLEAN /\ beatTorn \in BOOLEAN
  /\ mstage \in {"rest", "scrape", "next", "mark", "reserved", "buying", "release",
                 "save", "saving", "beat", "beating", "hung"}
  /\ picked \in Customers \cup {NoCustomer}
  /\ column \in [Customers -> {"free", "hold", "cooldown"}]
  /\ age \in 0 .. StaleAfter + 1
  /\ given \in [Trucks -> BOOLEAN] /\ excused \in [Trucks -> BOOLEAN]
  /\ faults \in 0 .. MaxFaults[engine]

MonitorInit ==
  /\ saved = {} /\ mem = {} /\ todo = {}
  /\ torn = FALSE /\ beatTorn = FALSE
  /\ mstage = "rest"
  /\ picked = NoCustomer
  /\ column = [c \in Customers |-> "free"]
  /\ age = 0
  /\ given = [t \in Trucks |-> FALSE] /\ excused = [t \in Trucks |-> FALSE]
  /\ faults = 0

Fault == faults < MaxFaults[engine] /\ faults' = faults + 1

At(s) == mstage = s
To(s) == mstage' = s

-----------------------------------------------------------------------------
(* A scan.                                                                 *)

(* load_state raises on a torn file, and so does every later scan.         *)
StartScan ==
  /\ At("rest") /\ engine # "idle"
  /\ \/ torn /\ UNCHANGED <<mstage, mem>>
     \/ ~torn /\ To("scrape") /\ mem' = saved
  /\ UNCHANGED <<saved, torn, todo, picked, column, beat, sighting, faults, legacyVars>>

(* ENABLE_URL_SCANNING=false: the loop only writes the heartbeat.          *)
Idle ==
  /\ At("rest") /\ engine = "idle"
  /\ To("beat")
  /\ UNCHANGED <<saved, torn, mem, todo, picked, column, beat, sighting, faults,
                 legacyVars>>

(* check_trucks: the trucks not alerted yet are new; an alerted one that is *)
(* no longer listed is forgotten, and would be new again.                  *)
Scrape ==
  /\ At("scrape")
  /\ \E seen \in SUBSET Trucks :
       /\ todo' = seen \ mem
       /\ mem' = mem \cap seen
       /\ given' = [t \in Trucks |-> given[t] /\ t \in seen]
       /\ excused' = [t \in Trucks |-> excused[t] /\ t \in seen]
  /\ To("next")
  /\ UNCHANGED <<saved, torn, picked, column, beat, faults, legacyVars>>

LastTruck ==
  /\ At("next") /\ todo = {}
  /\ To("save")
  /\ UNCHANGED <<saved, torn, mem, todo, picked, column, beat, sighting, faults,
                 legacyVars>>

(* Switched off, not a target, or no customer waits for it.                *)
AlertOnly(t) ==
  /\ At("next") /\ t \in todo
  /\ todo' = todo \ {t}
  /\ mem' = mem \cup {t}
  /\ UNCHANGED <<saved, torn, mstage, picked, column, beat, sighting, faults, legacyVars>>

(* find_next_queued_customer, a query of its own.                          *)
FindCustomer(t, c) ==
  /\ At("next") /\ t \in todo
  /\ column[c] = "free"
  /\ todo' = todo \ {t}
  /\ truck' = t
  /\ picked' = c
  /\ To("mark")
  /\ UNCHANGED <<saved, torn, mem, column, beat, sighting, faults, ladder, lock, engine,
                 daemonUp, stray, orders, lapsed, job>>

(* mark_customer_in_flight, by id and nothing else; a locked database is    *)
(* only logged, here and in the release.                                   *)
MarkInFlight ==
  /\ At("mark")
  /\ column' \in {column, [column EXCEPT ![picked] = "hold"]}
  /\ To("reserved")
  /\ UNCHANGED <<saved, torn, mem, todo, picked, beat, sighting, faults, legacyVars>>

(* No organisation of the configuration takes this truck, or the monitor's *)
(* own lock or cooldown is set: the truck is left for the next scan, and   *)
(* the customer with its reservation.                                      *)
LegacySkip ==
  /\ At("reserved") /\ engine # "roster"
  /\ picked' = NoCustomer
  /\ To("next")
  /\ UNCHANGED <<saved, torn, mem, todo, column, beat, sighting, faults, legacyVars>>

(* handle_truck_event, or run_autobuy.                                     *)
Dispatch ==
  /\ At("reserved")
  /\ To("buying")
  /\ given' = [given EXCEPT ![truck] = TRUE]
  /\ \/ engine = "roster" /\ UNCHANGED legacyVars
     \/ engine # "roster" /\ EnterLadder /\ UNCHANGED truck
  /\ UNCHANGED <<saved, torn, mem, todo, picked, column, beat, excused, faults>>

(* The roster returns, or raises, which its caller catches.  It has written *)
(* the real cooldown of the customer it bought for, whoever was reserved.  *)
RosterReturns ==
  /\ At("buying") /\ engine = "roster"
  /\ \/ UNCHANGED column
     \/ \E c \in Customers : column' = [column EXCEPT ![c] = "cooldown"]
  /\ To("release")
  /\ UNCHANGED <<saved, torn, mem, todo, picked, beat, sighting, faults, legacyVars>>

LadderReturns ==
  /\ At("buying") /\ rung = "over"
  /\ To("release")
  /\ rung' = "none"
  /\ UNCHANGED <<saved, torn, mem, todo, picked, column, beat, sighting, faults, script,
                 job, verdict, byAgent, lock, stray, orders, lapsed, engine, daemonUp,
                 truck>>

(* Slip: the release clears whatever the column holds. *)
SlipReleased(h) == "free"

(* mark_customer_assigned: only a time within fifteen minutes is cleared.  *)
Released(h) == IF h = "hold" THEN "free" ELSE h

(* Slip: a truck that was bought for is not put on the alerted list. *)
SlipRelease ==
  /\ At("release")
  /\ column' = [column EXCEPT ![picked] = Released(@)]
  /\ UNCHANGED mem
  /\ picked' = NoCustomer
  /\ To("next")
  /\ UNCHANGED <<saved, torn, todo, beat, sighting, faults, legacyVars>>

Release ==
  /\ At("release")
  /\ column' \in {column, [column EXCEPT ![picked] = Released(@)]}
  /\ mem' = mem \cup {truck}
  /\ picked' = NoCustomer
  /\ To("next")
  /\ UNCHANGED <<saved, torn, todo, beat, sighting, faults, legacyVars>>

(* save_state and write_heartbeat: open for writing, then dump.            *)
SaveOpens ==
  /\ At("save")
  /\ torn' = TRUE
  /\ To("saving")
  /\ UNCHANGED <<saved, mem, todo, picked, column, beat, sighting, faults, legacyVars>>

SaveWrites ==
  /\ At("saving")
  /\ torn' = FALSE
  /\ saved' = mem
  /\ To("beat")
  /\ UNCHANGED <<mem, todo, picked, column, beat, sighting, faults, legacyVars>>

BeatOpens ==
  /\ At("beat")
  /\ beatTorn' = TRUE
  /\ To("beating")
  /\ UNCHANGED <<saved, torn, mem, todo, picked, column, age, sighting, faults, legacyVars>>

BeatWrites ==
  /\ At("beating")
  /\ beatTorn' = FALSE
  /\ age' = 0
  /\ To("rest")
  /\ UNCHANGED <<saved, torn, mem, todo, picked, column, sighting, faults, legacyVars>>

-----------------------------------------------------------------------------
(* What can go wrong with it.                                              *)

(* The scan is lost, with what it had not saved.                           *)
ScanLost ==
  /\ To("rest")
  /\ mem' = {} /\ todo' = {} /\ picked' = NoCustomer
  /\ excused' = [t \in Trucks |-> excused[t] \/ (given[t] /\ (torn \/ t \notin saved))]
  /\ UNCHANGED <<saved, torn, given, column, beat>>

(* Two logins failed, or main's outer handler caught an error: nothing is  *)
(* saved and no heartbeat written.  The engines' errors are caught before. *)
ScanRaises ==
  /\ mstage \notin {"rest", "buying", "hung"}
  /\ Fault
  /\ ScanLost
  /\ UNCHANGED legacyVars

(* A browser call that does not return.                                    *)
ScanHangs ==
  /\ At("scrape") \/ At("beat")
  /\ Fault
  /\ To("hung")
  /\ UNCHANGED <<saved, torn, mem, todo, picked, column, beat, sighting, legacyVars>>

(* The process ends; its container is started again (restart: always).     *)
MonitorGoes == ScanLost /\ LadderGoes

MonitorDies == Fault /\ MonitorGoes

(* The daemon's self-watchdog or docker brings it down and up again.       *)
DaemonFails ==
  /\ daemonUp /\ Fault
  /\ daemonUp' = FALSE
  /\ DaemonGoes
  /\ UNCHANGED <<scan, column, beat, sighting>>

DaemonBack ==
  /\ ~daemonUp
  /\ daemonUp' = TRUE
  /\ UNCHANGED <<ladder, lock, stray, orders, lapsed, engine, truck, job>>
  /\ UNCHANGED monitorVars

-----------------------------------------------------------------------------
(* The column, seen from outside the scan.                                 *)

ColumnStep(c, from, to) ==
  /\ column[c] \in from
  /\ column' = [column EXCEPT ![c] = to]
  /\ UNCHANGED <<scan, beat, sighting, faults, legacyVars>>

(* Another process bought for c (_sync_cooldown_to_dashboard).             *)
OtherPurchase(c) == ColumnStep(c, {"free", "hold"}, "cooldown")

HoldExpires(c) == ColumnStep(c, {"hold"}, "free")

(* It runs out, or the operator clears it.                                 *)
CooldownEnds(c) == ColumnStep(c, {"cooldown"}, "free")

-----------------------------------------------------------------------------
ScanStep ==
  \/ StartScan \/ Idle \/ Scrape \/ LastTruck \/ MarkInFlight \/ LegacySkip \/ Dispatch
  \/ RosterReturns \/ LadderReturns \/ Release
  \/ SaveOpens \/ SaveWrites \/ BeatOpens \/ BeatWrites
  \/ \E t \in Trucks : AlertOnly(t) \/ \E c \in Customers : FindCustomer(t, c)

BuyingStep == (LadderStep \/ DaemonStep \/ \E t \in Trucks : WindowCloses(t))
                /\ UNCHANGED monitorVars

Outside ==
  \E c \in Customers : OtherPurchase(c) \/ HoldExpires(c) \/ CooldownEnds(c)

-----------------------------------------------------------------------------
(* The comment on the re-alerts says that a truck is bought for once per   *)
(* availability.  That holds as far as the scans come to their end: a truck *)
(* is only dispatched again when the scan that did so was lost before it   *)
(* saved, by an error or a death.                                          *)
RedispatchOnlyAfterLoss ==
  [][\A t \in Trucks : ~At("buying") /\ To("buying") /\ given[t] /\ truck = t
                         => excused[t]]_<<legacyVars, monitorVars>>

(* Reservations come and go in the column that holds the real cooldowns.   *)
(* Whatever the order of a scan, the roster and other processes, a real    *)
(* cooldown only ends by itself or by the operator, or by the blind write  *)
(* of a reservation whose customer was chosen before the cooldown came.    *)
CooldownSurvivesScan ==
  [][\A c \in Customers : column[c] = "cooldown" /\ column'[c] # "cooldown"
                            => \/ CooldownEnds(c)
                               \/ At("mark") /\ picked = c]_<<legacyVars, monitorVars>>
=============================================================================
