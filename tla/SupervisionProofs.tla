-------------------------- MODULE SupervisionProofs --------------------------
(***************************************************************************)
(* Supervision for any trucks, customers and engines, any rate limit and   *)
(* staleness, any number of faults: restarts keep their distance, alarms   *)
(* alternate, a cooldown survives the scans, and a truck is only bought    *)
(* for again when the scan that did it first was lost.                     *)
(***************************************************************************)
EXTENDS Supervision, TLAPS

-----------------------------------------------------------------------------
(* The restarts: the count of the record never runs ahead of the real one, *)
(* and while a restart is under way it stands at zero.                     *)

SpacingInv ==
  /\ RestartGap \in Nat
  /\ sinceHeal \in [Wards -> 0 .. RestartGap]
  /\ sinceReal \in [Wards -> 0 .. RestartGap]
  /\ \A x \in Wards : lost \/ sinceReal[x] >= sinceHeal[x]
  /\ hstage = "restartMonitor" =>
       sinceHeal["monitor"] = 0 /\ (lost \/ sinceReal["monitor"] >= RestartGap)
  /\ hstage = "restartDaemon" =>
       sinceHeal["daemon"] = 0 /\ (lost \/ sinceReal["daemon"] >= RestartGap)

LEMMA SpacingInit == Init => SpacingInv
  BY GapAssumption DEF Init, SpacingInv, Wards

(* What the steps of the others leave alone.                               *)
LEMMA SpacingFrame == SpacingInv /\ UNCHANGED healing => SpacingInv'
  BY DEF SpacingInv, healing

LEMMA SpacingStep == SpacingInv /\ [Next]_fleetVars => SpacingInv'
<1> SUFFICES ASSUME SpacingInv, [Next]_fleetVars PROVE SpacingInv'
  OBVIOUS
<1>1. CASE Tick
  BY <1>1 DEF Tick, SpacingInv, Up, Wards
<1>2. CASE MonitorStep
  BY <1>2, SpacingFrame DEF MonitorStep
<1>3. CASE Elsewhere
  BY <1>3, SpacingFrame DEF Elsewhere
<1>4. CASE ProbeDaemon
  <2>1. /\ lost' = lost /\ sinceReal' = sinceReal
        /\ \/ hstage' = "check" /\ sinceHeal' = sinceHeal
           \/ hstage' = "restartDaemon" /\ RateLimitOk("daemon") /\ Record("daemon")
    BY <1>4 DEF ProbeDaemon
  <2> QED
    BY <2>1 DEF SpacingInv, RateLimitOk, Record, Wards
<1>5. CASE CheckMonitor
  <2>1. /\ lost' = lost /\ sinceReal' = sinceReal
        /\ \/ hstage' = "probe" /\ sinceHeal' = sinceHeal
           \/ hstage' = "restartMonitor" /\ RateLimitOk("monitor") /\ Record("monitor")
    BY <1>5 DEF CheckMonitor
  <2> QED
    BY <2>1 DEF SpacingInv, RateLimitOk, Record, Wards
<1>6. CASE RestartDaemon
  BY <1>6 DEF RestartDaemon, SpacingInv, Wards
<1>7. CASE RestartMonitor
  BY <1>7 DEF RestartMonitor, SpacingInv, Wards
<1>8. CASE DockerFails
  BY <1>8 DEF DockerFails, SpacingInv
<1>9. CASE HealerDies
  BY <1>9 DEF HealerDies, SpacingInv, Wards
<1>10. CASE Watching
  BY <1>10, SpacingFrame
     DEF Watching, OfficeTurns, Alarm, AllClear, Records, WatcherDies, SaveTorn, WatcherFrame
<1>11. CASE UNCHANGED fleetVars
  BY <1>11, SpacingFrame DEF fleetVars
<1> QED
  BY <1>1, <1>2, <1>3, <1>4, <1>5, <1>6, <1>7, <1>8, <1>9, <1>10, <1>11
     DEF Next, Healer

LEMMA SpacingAction ==
  SpacingInv =>
    /\ RestartMonitor => sinceReal["monitor"] >= RestartGap \/ lost
    /\ RestartDaemon => sinceReal["daemon"] >= RestartGap \/ lost
  BY DEF SpacingInv, RestartMonitor, RestartDaemon

(* Two real restarts of a container lie at least the rate limit apart,      *)
(* whenever the healer dies and whichever restarts fail, unless its record *)
(* was torn.                                                               *)
THEOREM RestartsKeepDistance == Spec => RestartsAreSpaced
<1>1. SpacingInv =>
        [/\ RestartMonitor => sinceReal["monitor"] >= RestartGap \/ lost
         /\ RestartDaemon => sinceReal["daemon"] >= RestartGap \/ lost]_fleetVars
  BY SpacingAction
<1> QED
  BY <1>1, SpacingInit, SpacingStep, PTL DEF Spec, RestartsAreSpaced

-----------------------------------------------------------------------------
(* The watchers: an alarm that is out is on record, unless the watcher died *)
(* in between.                                                             *)

AlarmInv ==
  /\ said \in {"down", "up"}
  /\ wstage # "none" => said = wstage
  /\ wstage = "none" /\ said = "down" => latch \/ slipped

LEMMA AlarmInit == Init => AlarmInv
  BY DEF Init, AlarmInv

LEMMA AlarmStep == AlarmInv /\ [Next]_fleetVars => AlarmInv'
<1> SUFFICES ASSUME AlarmInv, [Next]_fleetVars PROVE AlarmInv'
  OBVIOUS
<1> USE DEF AlarmInv
<1>1. CASE Alarm         BY <1>1 DEF Alarm, Sends
<1>2. CASE AllClear      BY <1>2 DEF AllClear, Sends
<1>3. CASE Records       BY <1>3 DEF Records
<1>4. CASE WatcherDies \/ SaveTorn
  BY <1>4 DEF WatcherDies, SaveTorn
<1>5. CASE OfficeTurns   BY <1>5 DEF OfficeTurns
<1>6. CASE UNCHANGED watching
  BY <1>6 DEF watching
<1>7. Tick \/ MonitorStep \/ Elsewhere \/ Healer \/ DockerFails \/ HealerDies
        => UNCHANGED watching
  BY DEF Tick, MonitorStep, Elsewhere, Healer, ProbeDaemon, CheckMonitor, RestartDaemon,
         RestartMonitor, DockerFails, HealerDies, HealerFrame
<1>8. UNCHANGED fleetVars => UNCHANGED watching
  BY DEF fleetVars
<1> QED
  BY <1>1, <1>2, <1>3, <1>4, <1>5, <1>6, <1>7, <1>8 DEF Next, Watching

LEMMA AlarmAction ==
  AlarmInv /\ [Next]_fleetVars =>
    [wstage = "none" /\ wstage' = "down" => said = "up" \/ slipped]_fleetVars
<1> SUFFICES ASSUME AlarmInv, Next, wstage = "none", wstage' = "down"
             PROVE  said = "up" \/ slipped
  OBVIOUS
<1>1. Tick \/ MonitorStep \/ Elsewhere \/ Healer \/ DockerFails \/ HealerDies
        => wstage' = wstage
  BY DEF Tick, MonitorStep, Elsewhere, Healer, ProbeDaemon, CheckMonitor, RestartDaemon,
         RestartMonitor, DockerFails, HealerDies, HealerFrame, watching
<1>2. Watching => Alarm
  BY DEF Watching, OfficeTurns, AllClear, Records, WatcherDies, SaveTorn, Sends
<1>3. Alarm
  BY <1>1, <1>2 DEF Next
<1> QED
  BY <1>3 DEF Alarm, Looks, AlarmInv

(* The operator hears of a recovery between two alarms of a watcher, unless *)
(* the watcher died between a message and its record.                      *)
THEOREM OneAlarmPerOutage == Spec => AlarmsAlternate
  BY AlarmInit, AlarmStep, AlarmAction, PTL DEF Spec, AlarmsAlternate

-----------------------------------------------------------------------------
(* The column: who may write it, and what.                                 *)

ColumnInv == column \in [Customers -> {"free", "hold", "cooldown"}]

LEMMA ColumnInit == Init => ColumnInv
  BY DEF Init, MonitorInit, ColumnInv

(* Every step that touches the column is one of these.                     *)
ColumnActions ==
  \/ MarkInFlight
  \/ RosterReturns
  \/ Release
  \/ \E c \in Customers : OtherPurchase(c) \/ HoldExpires(c) \/ CooldownEnds(c)

LEMMA ColumnSteps == [Next]_fleetVars => ColumnActions \/ UNCHANGED column
<1>1. ScanStep => ColumnActions \/ UNCHANGED column
  BY DEF ScanStep, ColumnActions, StartScan, Idle, Scrape, LastTruck, LegacySkip, Dispatch,
         LadderReturns, SaveOpens, SaveWrites, BeatOpens, BeatWrites, AlertOnly,
         FindCustomer
<1>2. ScanRaises \/ ScanHangs \/ MonitorDies => UNCHANGED column
  BY DEF ScanRaises, ScanHangs, MonitorDies, MonitorGoes, ScanLost
<1>3. BuyingStep \/ DaemonFails \/ DaemonBack => UNCHANGED column
  BY DEF BuyingStep, DaemonFails, DaemonBack, monitorVars
<1>4. Tick \/ Healer \/ DockerFails \/ HealerDies => UNCHANGED column
  BY DEF Tick, Healer, ProbeDaemon, CheckMonitor, RestartDaemon, RestartMonitor,
         MonitorGoes, ScanLost, DockerFails, HealerDies, HealerFrame, monitorVars
<1>5. Watching => UNCHANGED column
  BY DEF Watching, OfficeTurns, Alarm, AllClear, Records, WatcherDies, SaveTorn, WatcherFrame,
         monitorVars
<1>6. UNCHANGED fleetVars => UNCHANGED column
  BY DEF fleetVars, monitorVars
<1> QED
  BY <1>1, <1>2, <1>3, <1>4, <1>5, <1>6
     DEF Next, MonitorStep, Elsewhere, Outside, ColumnActions

LEMMA ColumnStepInv == ColumnInv /\ [Next]_fleetVars => ColumnInv'
<1> SUFFICES ASSUME ColumnInv, [Next]_fleetVars PROVE ColumnInv'
  OBVIOUS
<1>1. CASE MarkInFlight     BY <1>1 DEF MarkInFlight, ColumnInv
<1>2. CASE RosterReturns    BY <1>2 DEF RosterReturns, ColumnInv
<1>3. CASE Release
  BY <1>3 DEF Release, Released, ColumnInv
<1>4. ASSUME NEW c \in Customers, OtherPurchase(c) \/ HoldExpires(c) \/ CooldownEnds(c)
      PROVE  ColumnInv'
  BY <1>4 DEF OtherPurchase, HoldExpires, CooldownEnds, ColumnStep, ColumnInv
<1>5. CASE UNCHANGED column BY <1>5 DEF ColumnInv
<1> QED
  BY <1>1, <1>2, <1>3, <1>4, <1>5, ColumnSteps DEF ColumnActions

LEMMA ColumnAction ==
  ASSUME ColumnInv, [Next]_fleetVars, NEW c \in Customers,
         column[c] = "cooldown", column'[c] # "cooldown"
  PROVE  CooldownEnds(c) \/ (At("mark") /\ picked = c)
<1>1. CASE MarkInFlight     BY <1>1 DEF MarkInFlight, ColumnInv
<1>2. CASE RosterReturns    BY <1>2 DEF RosterReturns, ColumnInv
<1>3. CASE Release          BY <1>3 DEF Release, Released, ColumnInv
<1>4. ASSUME NEW d \in Customers, OtherPurchase(d) \/ HoldExpires(d) \/ CooldownEnds(d)
      PROVE  CooldownEnds(c)
  <2>1. CASE d = c
    BY <1>4, <2>1 DEF OtherPurchase, HoldExpires, ColumnStep, ColumnInv
  <2>2. CASE d # c
    BY <1>4, <2>2 DEF OtherPurchase, HoldExpires, CooldownEnds, ColumnStep, ColumnInv
  <2> QED
    BY <2>1, <2>2
<1> QED
  BY <1>1, <1>2, <1>3, <1>4, ColumnSteps DEF ColumnActions

(* A purchase cooldown in the shared column only ends by itself or by the   *)
(* operator, or under a reservation whose customer was chosen before it.   *)
THEOREM CooldownsAreKept == Spec => CooldownSurvivesScan
<1>1. ColumnInv /\ [Next]_fleetVars =>
        [\A c \in Customers : column[c] = "cooldown" /\ column'[c] # "cooldown"
                            => \/ CooldownEnds(c)
                               \/ At("mark") /\ picked = c]_<<legacyVars, monitorVars>>
  <2>1. UNCHANGED fleetVars => UNCHANGED <<legacyVars, monitorVars>>
    BY DEF fleetVars
  <2> QED
    BY <2>1, ColumnAction
<1> QED
  BY <1>1, ColumnInit, ColumnStepInv, PTL DEF Spec, CooldownSurvivesScan

-----------------------------------------------------------------------------
(* The alerted list: what was dispatched and not excused by a lost scan is  *)
(* kept, in memory while the scan runs and in the file at its end.         *)

Pursued(t) == given[t] /\ ~excused[t]

Marked == {"mark", "reserved"}
Bought == {"buying", "release"}

AlertedInv ==
  /\ given \in [Trucks -> BOOLEAN] /\ excused \in [Trucks -> BOOLEAN]
  /\ mstage \in {"next"} \cup Marked \cup Bought => mem \cap todo = {}
  /\ mstage \in Marked => truck \notin todo /\ ~Pursued(truck)
  /\ mstage \in Bought => truck \notin todo
  /\ \A t \in Trucks : Pursued(t) =>
       /\ mstage \in {"scrape", "next", "save", "saving"} \cup Marked => t \in mem
       /\ mstage \in Bought => t \in mem \cup {truck}
       /\ mstage \in {"rest", "beat", "beating"} => t \in saved /\ ~torn

AlertedVars == <<mstage, mem, todo, truck, given, excused, saved, torn>>

LEMMA AlertedInit == Init => AlertedInv
  BY DEF Init, MonitorInit, AlertedInv, Pursued, Marked, Bought

LEMMA AlertedFrame == AlertedInv /\ UNCHANGED AlertedVars => AlertedInv'
  BY DEF AlertedInv, AlertedVars, Pursued

LEMMA LostFrame == AlertedInv /\ ScanLost /\ UNCHANGED truck => AlertedInv'
  BY DEF AlertedInv, ScanLost, To, Pursued, Marked, Bought

(* The ladder, the daemon and the clock touch nothing of it.               *)
LEMMA TruckIsHeld ==
  /\ BuyingStep => UNCHANGED truck
  /\ DaemonGoes => UNCHANGED truck
  /\ LadderGoes => UNCHANGED truck
<1>1. BuyingStep => UNCHANGED truck
  BY DEF BuyingStep, LadderStep, DaemonStep, AgentFirst, TryDaemon, DaemonAnswers,
         DaemonTimesOut, ScriptReturned, AgentLast, ScriptLocks, ScriptLogsIn,
         ScriptFindsProduct, ScriptAddsToCart, ScriptChecksCart, ScriptAnswers,
         ScriptReadsTotal, ScriptFillsPayment, ScriptPlacesOrder, ScriptTimesOut,
         ScriptFrame, StrayStarts, StrayEnds, JobStarts, JobEnds, DaemonFrame,
         WindowCloses
<1> QED
  BY <1>1 DEF DaemonGoes, LadderGoes

LEMMA AlertedScan == AlertedInv /\ ScanStep => AlertedInv'
<1> SUFFICES ASSUME AlertedInv, ScanStep PROVE AlertedInv'
  OBVIOUS
<1> USE DEF AlertedInv, Pursued, Marked, Bought, At, To
<1>1. CASE StartScan
  <2>1. /\ UNCHANGED <<todo, truck, given, excused, saved, torn>>
        /\ mstage = "rest"
        /\ \/ torn /\ UNCHANGED <<mstage, mem>>
           \/ ~torn /\ mstage' = "scrape" /\ mem' = saved
    BY <1>1 DEF StartScan, legacyVars, sighting
  <2> QED
    BY <2>1
<1>2. CASE Idle          BY <1>2 DEF Idle, legacyVars, sighting
<1>3. CASE Scrape
  <2>1. PICK seen \in SUBSET Trucks :
          /\ todo' = seen \ mem
          /\ mem' = mem \cap seen
          /\ given' = [t \in Trucks |-> given[t] /\ t \in seen]
          /\ excused' = [t \in Trucks |-> excused[t] /\ t \in seen]
    BY <1>3 DEF Scrape
  <2>2. mstage = "scrape" /\ mstage' = "next"
    BY <1>3 DEF Scrape
  <2>3. given' \in [Trucks -> BOOLEAN] /\ excused' \in [Trucks -> BOOLEAN]
    BY <2>1
  <2>4. ASSUME NEW t \in Trucks, Pursued(t)' PROVE t \in mem'
    <3>1. given[t] /\ t \in seen /\ ~excused[t]
      BY <2>1, <2>4
    <3> QED
      BY <3>1, <2>1, <2>2
  <2> QED
    BY <2>1, <2>2, <2>3, <2>4
<1>4. CASE LastTruck     BY <1>4 DEF LastTruck, legacyVars, sighting
<1>5. CASE MarkInFlight  BY <1>5 DEF MarkInFlight, legacyVars, sighting
<1>6. CASE LegacySkip
  BY <1>6 DEF LegacySkip, legacyVars, sighting
<1>7. CASE Dispatch
  <2>1. /\ UNCHANGED <<mem, todo, truck, saved, torn, excused>>
        /\ mstage = "reserved" /\ mstage' = "buying"
        /\ given' = [given EXCEPT ![truck] = TRUE]
    BY <1>7 DEF Dispatch, legacyVars
  <2>2. ASSUME NEW t \in Trucks, Pursued(t)', t # truck PROVE t \in mem
    BY <2>1, <2>2
  <2>3. given' \in [Trucks -> BOOLEAN] /\ excused' \in [Trucks -> BOOLEAN]
    BY <2>1
  <2> QED
    BY <2>1, <2>2, <2>3
<1>8. CASE RosterReturns BY <1>8 DEF RosterReturns, legacyVars, sighting
<1>9. CASE LadderReturns BY <1>9 DEF LadderReturns, legacyVars, sighting
<1>10. CASE Release      BY <1>10 DEF Release, legacyVars, sighting
<1>11. CASE SaveOpens    BY <1>11 DEF SaveOpens, legacyVars, sighting
<1>12. CASE SaveWrites   BY <1>12 DEF SaveWrites, legacyVars, sighting
<1>13. CASE BeatOpens    BY <1>13 DEF BeatOpens, legacyVars, sighting
<1>14. CASE BeatWrites   BY <1>14 DEF BeatWrites, legacyVars, sighting
<1>15. ASSUME NEW t \in Trucks, AlertOnly(t) PROVE AlertedInv'
  BY <1>15 DEF AlertOnly, legacyVars, sighting
<1>16. ASSUME NEW t \in Trucks, NEW c \in Customers, FindCustomer(t, c) PROVE AlertedInv'
  BY <1>16 DEF FindCustomer, sighting
<1> QED
  BY <1>1, <1>2, <1>3, <1>4, <1>5, <1>6, <1>7, <1>8, <1>9, <1>10, <1>11, <1>12, <1>13,
     <1>14, <1>15, <1>16 DEF ScanStep

LEMMA AlertedStep == AlertedInv /\ [Next]_fleetVars => AlertedInv'
<1> SUFFICES ASSUME AlertedInv, [Next]_fleetVars PROVE AlertedInv'
  OBVIOUS
<1>1. CASE ScanStep
  BY <1>1, AlertedScan
<1>2. CASE ScanRaises
  BY <1>2, LostFrame DEF ScanRaises, legacyVars
<1>3. CASE ScanHangs
  BY <1>3 DEF ScanHangs, To, AlertedInv, Pursued, Marked, Bought, legacyVars, sighting
<1>4. CASE MonitorGoes
  BY <1>4, LostFrame, TruckIsHeld DEF MonitorGoes
<1>5. CASE UNCHANGED AlertedVars
  BY <1>5, AlertedFrame
<1>6. BuyingStep \/ DaemonFails \/ DaemonBack \/ Outside => UNCHANGED AlertedVars
  BY TruckIsHeld
     DEF BuyingStep, DaemonFails, DaemonBack, Outside, OtherPurchase, HoldExpires,
         CooldownEnds, ColumnStep, AlertedVars, monitorVars, scan, sighting, legacyVars
<1>7. Tick \/ ProbeDaemon \/ CheckMonitor \/ RestartDaemon \/ DockerFails \/ HealerDies
        => UNCHANGED AlertedVars
  BY TruckIsHeld
     DEF Tick, ProbeDaemon, CheckMonitor, RestartDaemon, DockerFails, HealerDies,
         HealerFrame, AlertedVars, monitorVars, scan, sighting, legacyVars
<1>8. Watching \/ UNCHANGED fleetVars => UNCHANGED AlertedVars
  BY DEF Watching, OfficeTurns, Alarm, AllClear, Records, WatcherDies, SaveTorn, WatcherFrame,
         AlertedVars, fleetVars, monitorVars, scan, sighting, legacyVars
<1>9. MonitorDies \/ RestartMonitor => MonitorGoes
  BY DEF MonitorDies, RestartMonitor
<1> QED
  BY <1>1, <1>2, <1>3, <1>4, <1>5, <1>6, <1>7, <1>8, <1>9
     DEF Next, MonitorStep, Elsewhere, Healer

(* Only Dispatch starts to buy.                                            *)
LEMMA AlertedAction ==
  ASSUME AlertedInv, [Next]_fleetVars, NEW t \in Trucks,
         mstage # "buying", mstage' = "buying", given[t], truck = t
  PROVE  excused[t]
<1>1. CASE Dispatch
  BY <1>1 DEF Dispatch, At, AlertedInv, Pursued, Marked
<1>2. ScanStep => Dispatch
  BY DEF ScanStep, StartScan, Idle, Scrape, LastTruck, MarkInFlight, LegacySkip,
         RosterReturns, LadderReturns, Release, SaveOpens, SaveWrites, BeatOpens,
         BeatWrites, AlertOnly, FindCustomer, At, To
<1>3. ~(ScanRaises \/ ScanHangs \/ MonitorDies \/ RestartMonitor)
  BY DEF ScanRaises, ScanHangs, MonitorDies, RestartMonitor, MonitorGoes, ScanLost, To
<1>4. ~Elsewhere
  BY DEF Elsewhere, BuyingStep, DaemonFails, DaemonBack, Outside, OtherPurchase,
         HoldExpires, CooldownEnds, ColumnStep, monitorVars, scan
<1>5. ~(Tick \/ ProbeDaemon \/ CheckMonitor \/ RestartDaemon \/ DockerFails \/ HealerDies)
  BY DEF Tick, ProbeDaemon, CheckMonitor, RestartDaemon, DockerFails, HealerDies,
         HealerFrame, monitorVars, scan
<1>6. ~(Watching \/ UNCHANGED fleetVars)
  BY DEF Watching, OfficeTurns, Alarm, AllClear, Records, WatcherDies, SaveTorn, WatcherFrame,
         fleetVars, monitorVars, scan
<1> QED
  BY <1>1, <1>2, <1>3, <1>4, <1>5, <1>6 DEF Next, MonitorStep, Healer

(* A truck is bought for again in one availability only when the scan that  *)
(* dispatched it first was lost before it saved the alerted list.          *)
THEOREM OneDispatchPerAvailability == Spec => RedispatchOnlyAfterLoss
<1>1. AlertedInv /\ [Next]_fleetVars =>
        [\A t \in Trucks : ~At("buying") /\ To("buying") /\ given[t] /\ truck = t
                             => excused[t]]_<<legacyVars, monitorVars>>
  BY AlertedAction DEF At, To
<1> QED
  BY <1>1, AlertedInit, AlertedStep, PTL DEF Spec, RedispatchOnlyAfterLoss

-----------------------------------------------------------------------------
(* The ladder: whoever is at the truck holds its lock, and an order leaves  *)
(* the lock free and the window shut behind it.                            *)

LadderTypes ==
  /\ truck \in Trucks
  /\ job \in {"none", "queued", "running"}
  /\ stray.at \in {"none", "queued", "running"} /\ stray.truck \in Trucks
  /\ holder \in [Trucks -> {"none", "job", "stray", "script"}]
  /\ recent \in [Trucks -> BOOLEAN]
  /\ orders \in Nat

LadderPlaces ==
  /\ mstage # "buying" \/ engine = "roster" => rung = "none"
  /\ job # "none" => rung = "daemon"
  /\ script # "none" => rung = "script"

LadderHolds ==
  /\ job = "running" => holder[truck] = "job"
  /\ stray.at = "running" => holder[stray.truck] = "stray"
  /\ script \notin {"none", "lock"} => holder[truck] = "script"

Counted == ~lapsed /\ ~byAgent

LadderCounts ==
  /\ Counted => orders <= 1
  /\ Counted /\ rung # "none" /\ orders # 0 => recent[truck] /\ holder[truck] = "none"

LadderInv == LadderTypes /\ LadderPlaces /\ LadderHolds /\ LadderCounts

LEMMA SomeTruck ==
  /\ (CHOOSE t \in Trucks : TRUE) \in Trucks
  /\ NoStray.at = "none" /\ NoStray.truck \in Trucks
<1>1. (CHOOSE t \in Trucks : TRUE) \in Trucks
  BY TruckAssumption
<1> QED
  BY <1>1 DEF NoStray

LEMMA LadderInit == Init => LadderInv
  BY SomeTruck
     DEF Init, LegacyInit, MonitorInit, LadderInv, LadderTypes, LadderPlaces,
         LadderHolds, LadderCounts, Counted

LEMMA LadderFrame == LadderInv /\ UNCHANGED <<legacyVars, mstage>> => LadderInv'
  BY DEF LadderInv, LadderTypes, LadderPlaces, LadderHolds, LadderCounts, Counted,
         legacyVars

LEMMA LadderMoves ==
  ASSUME LadderInv, LadderStep, UNCHANGED mstage
  PROVE  LadderInv'
<1> USE DEF LadderInv, LadderTypes, LadderPlaces, LadderHolds, LadderCounts, Counted,
            ToRung, Return, ToScript, ladder, lock
<1>1. CASE AgentFirst      BY <1>1 DEF AgentFirst, AgentRuns
<1>2. CASE TryDaemon       BY <1>2 DEF TryDaemon
<1>3. CASE DaemonAnswers   BY <1>3 DEF DaemonAnswers
<1>4. CASE DaemonTimesOut  BY <1>4 DEF DaemonTimesOut
<1>5. CASE ScriptReturned  BY <1>5 DEF ScriptReturned
<1>6. CASE AgentLast       BY <1>6 DEF AgentLast, AgentRuns
<1>7. CASE ScriptLocks
  <2>1. LadderTypes'
    BY <1>7 DEF ScriptLocks, InScript, ScriptFrame
  <2>2. LadderPlaces'
    BY <1>7 DEF ScriptLocks, InScript, ScriptFrame
  <2>3. LadderHolds'
    BY <1>7 DEF ScriptLocks, InScript, ScriptFrame
  <2>4. LadderCounts'
    BY <1>7 DEF ScriptLocks, InScript, ScriptFrame
  <2> QED
    BY <2>1, <2>2, <2>3, <2>4
<1>8. CASE ScriptTimesOut
  <2>1. LadderTypes'
    BY <1>8 DEF ScriptTimesOut
  <2>2. LadderPlaces'
    BY <1>8 DEF ScriptTimesOut
  <2>3. LadderHolds'
    BY <1>8 DEF ScriptTimesOut
  <2>4. LadderCounts'
    BY <1>8 DEF ScriptTimesOut
  <2> QED
    BY <2>1, <2>2, <2>3, <2>4
<1>9. CASE ScriptPlacesOrder
  <2>1. LadderTypes'
    <3>1. \E v \in Verdicts : Ends(v)
      BY <1>9 DEF ScriptPlacesOrder, Verdicts
    <3>2. orders' \in Nat
      BY <1>9 DEF ScriptPlacesOrder
    <3> QED
      BY <1>9, <3>1, <3>2 DEF ScriptPlacesOrder, Ends, ScriptFrame
  <2>2. LadderPlaces'
    BY <1>9 DEF ScriptPlacesOrder, InScript, Ends, ScriptFrame
  <2>3. LadderHolds'
    BY <1>9 DEF ScriptPlacesOrder, InScript, Ends, ScriptFrame
  <2>4. LadderCounts'
    BY <1>9 DEF ScriptPlacesOrder, InScript, Ends, ScriptFrame
  <2> QED
    BY <2>1, <2>2, <2>3, <2>4
<1>10. ASSUME script \notin {"none", "lock"}, ScriptFrame, UNCHANGED orders,
              \/ \E s \in ScriptStages \ {"none", "lock"} : Continues(s)
              \/ \E v \in Verdicts : Ends(v)
       PROVE  LadderInv'
  BY <1>10 DEF Continues, Ends, ScriptFrame
<1>11. ScriptLogsIn \/ ScriptFindsProduct \/ ScriptAddsToCart \/ ScriptChecksCart
         \/ ScriptAnswers \/ ScriptReadsTotal \/ ScriptFillsPayment
         => /\ script \notin {"none", "lock"} /\ ScriptFrame /\ UNCHANGED orders
            /\ \/ \E s \in ScriptStages \ {"none", "lock"} : Continues(s)
               \/ \E v \in Verdicts : Ends(v)
  BY DEF ScriptLogsIn, ScriptFindsProduct, ScriptAddsToCart, ScriptChecksCart,
         ScriptAnswers, ScriptReadsTotal, ScriptFillsPayment, InScript, ScriptStages,
         Verdicts
<1> QED
  BY <1>1, <1>2, <1>3, <1>4, <1>5, <1>6, <1>7, <1>8, <1>9, <1>10, <1>11 DEF LadderStep

LEMMA DaemonMoves ==
  ASSUME LadderInv, UNCHANGED mstage,
         DaemonStep \/ DaemonGoes \/ \E t \in Trucks : WindowCloses(t)
  PROVE  LadderInv'
<1> USE DEF LadderInv, LadderTypes, LadderPlaces, LadderHolds, LadderCounts, Counted
<1>1. CASE StrayStarts
  <2>1. LadderTypes'
    <3>1. recent' \in [Trucks -> BOOLEAN]
      BY <1>1 DEF StrayStarts, DaemonFrame
    <3>2. holder' \in [Trucks -> {"none", "job", "stray", "script"}]
      BY <1>1 DEF StrayStarts, DaemonFrame
    <3>3. stray'.at \in {"none", "queued", "running"} /\ stray'.truck \in Trucks
      BY <1>1, SomeTruck DEF StrayStarts, DaemonFrame
    <3> QED
      BY <1>1, <3>1, <3>2, <3>3 DEF StrayStarts, DaemonFrame
  <2>2. LadderPlaces'
    BY <1>1, SomeTruck DEF StrayStarts, MayStart, DaemonFrame
  <2>3. LadderHolds'
    BY <1>1, SomeTruck DEF StrayStarts, MayStart, DaemonFrame
  <2>4. LadderCounts'
    BY <1>1, SomeTruck DEF StrayStarts, MayStart, DaemonFrame
  <2> QED
    BY <2>1, <2>2, <2>3, <2>4
<1>2. CASE StrayEnds
  BY <1>2, SomeTruck DEF StrayEnds, StrayAtTruck, DaemonFrame
<1>3. CASE JobStarts
  BY <1>3 DEF JobStarts, MayStart, DaemonFrame
<1>4. CASE JobEnds
  BY <1>4 DEF JobEnds, DaemonFrame
<1>5. CASE DaemonGoes
  <2>1. LadderTypes'
    BY <1>5, SomeTruck DEF DaemonGoes, StrayAtTruck, ToScript, ToRung
  <2>2. LadderPlaces'
    BY <1>5, SomeTruck DEF DaemonGoes, StrayAtTruck, ToScript, ToRung
  <2>3. LadderHolds'
    BY <1>5, SomeTruck DEF DaemonGoes, StrayAtTruck, ToScript, ToRung
  <2>4. LadderCounts'
    BY <1>5, SomeTruck DEF DaemonGoes, StrayAtTruck, ToScript, ToRung
  <2> QED
    BY <2>1, <2>2, <2>3, <2>4
<1>6. ASSUME NEW t \in Trucks, WindowCloses(t) PROVE LadderInv'
  BY <1>6 DEF WindowCloses, ladder
<1> QED
  BY <1>1, <1>2, <1>3, <1>4, <1>5, <1>6 DEF DaemonStep

LEMMA ScanMoves == ASSUME LadderInv, ScanStep PROVE LadderInv'
<1> USE DEF LadderInv, LadderTypes, LadderPlaces, LadderHolds, LadderCounts, Counted,
            At, To
<1>1. CASE Dispatch
  <2>1. LadderTypes'
    BY <1>1 DEF Dispatch, EnterLadder, ToRung, legacyVars, lock
  <2>2. LadderPlaces'
    BY <1>1 DEF Dispatch, EnterLadder, ToRung, legacyVars, lock
  <2>3. LadderHolds'
    BY <1>1 DEF Dispatch, EnterLadder, ToRung, legacyVars, lock
  <2>4. LadderCounts'
    BY <1>1 DEF Dispatch, EnterLadder, ToRung, legacyVars, lock
  <2> QED
    BY <2>1, <2>2, <2>3, <2>4
<1>2. CASE LadderReturns
  BY <1>2 DEF LadderReturns, lock
<1>3. ASSUME NEW t \in Trucks, NEW c \in Customers, FindCustomer(t, c) PROVE LadderInv'
  BY <1>3 DEF FindCustomer, ladder, lock
<1>4. CASE RosterReturns
  BY <1>4 DEF RosterReturns, legacyVars
<1>5. ASSUME UNCHANGED legacyVars, mstage # "buying" PROVE LadderInv'
  BY <1>5 DEF legacyVars
<1>6. StartScan \/ Idle \/ Scrape \/ LastTruck \/ MarkInFlight \/ LegacySkip \/ Release
        \/ SaveOpens \/ SaveWrites \/ BeatOpens \/ BeatWrites
        \/ (\E t \in Trucks : AlertOnly(t))
        => UNCHANGED legacyVars /\ mstage # "buying"
  BY DEF StartScan, Idle, Scrape, LastTruck, MarkInFlight, LegacySkip, Release, SaveOpens,
         SaveWrites, BeatOpens, BeatWrites, AlertOnly
<1> QED
  BY <1>1, <1>2, <1>3, <1>4, <1>5, <1>6 DEF ScanStep

LEMMA LadderInvStep == LadderInv /\ [Next]_fleetVars => LadderInv'
<1> SUFFICES ASSUME LadderInv, [Next]_fleetVars PROVE LadderInv'
  OBVIOUS
<1>1. CASE ScanStep
  BY <1>1, ScanMoves
<1>2. CASE BuyingStep
  BY <1>2, LadderMoves, DaemonMoves DEF BuyingStep, monitorVars, scan
<1>3. CASE DaemonFails \/ RestartDaemon
  <2>1. DaemonGoes /\ UNCHANGED mstage
    BY <1>3 DEF DaemonFails, RestartDaemon, monitorVars, scan
  <2> QED
    BY <2>1, DaemonMoves
<1>4. CASE MonitorGoes
  BY <1>4 DEF MonitorGoes, ScanLost, LadderGoes, To, LadderInv, LadderTypes, LadderPlaces,
              LadderHolds, LadderCounts, Counted
<1>5. CASE ScanRaises \/ ScanHangs
  BY <1>5 DEF ScanRaises, ScanHangs, ScanLost, At, To, legacyVars, LadderInv, LadderTypes,
              LadderPlaces, LadderHolds, LadderCounts, Counted
<1>6. CASE DaemonBack
  BY <1>6 DEF DaemonBack, ladder, lock, monitorVars, scan, LadderInv, LadderTypes,
              LadderPlaces, LadderHolds, LadderCounts, Counted
<1>7. CASE UNCHANGED <<legacyVars, mstage>>
  BY <1>7, LadderFrame
<1>8. Tick \/ Outside \/ ProbeDaemon \/ CheckMonitor \/ DockerFails \/ HealerDies
        => UNCHANGED <<legacyVars, mstage>>
  BY DEF Tick, Outside, OtherPurchase, HoldExpires, CooldownEnds, ColumnStep, ProbeDaemon,
         CheckMonitor, DockerFails, HealerDies, HealerFrame, monitorVars, scan
<1>9. Watching \/ UNCHANGED fleetVars => UNCHANGED <<legacyVars, mstage>>
  BY DEF Watching, OfficeTurns, Alarm, AllClear, Records, WatcherDies, SaveTorn, WatcherFrame,
         fleetVars, monitorVars, scan
<1>10. MonitorDies \/ RestartMonitor => MonitorGoes
  BY DEF MonitorDies, RestartMonitor
<1> QED
  BY <1>1, <1>2, <1>3, <1>4, <1>5, <1>6, <1>7, <1>8, <1>9, <1>10
     DEF Next, MonitorStep, Elsewhere, Healer

(* One pass through the ladder orders a truck at most once, beside a stray  *)
(* checkout of the daemon and whatever dies: unless a whole dedup window   *)
(* passed since the first order, or the agent, which knows no lock, bought. *)
THEOREM LadderBuysOnce == Spec => []LadderOrdersOnce
<1>1. LadderInv => LadderOrdersOnce
  BY DEF LadderInv, LadderCounts, Counted, LadderOrdersOnce
<1> QED
  BY <1>1, LadderInit, LadderInvStep, PTL DEF Spec

-----------------------------------------------------------------------------
(* Types.  Most of the ladder's are in LadderTypes, the column's in         *)
(* ColumnInv, the restarts' in SpacingInv.                                 *)

RungTypes ==
  /\ engine \in EngineModes /\ daemonUp \in BOOLEAN
  /\ rung \in {"none", "first", "probe", "daemon", "script", "escalate", "agent", "over"}
  /\ script \in ScriptStages
  /\ stray \in [at : {"none", "queued", "running"}, truck : Trucks]
  /\ verdict \in Verdicts
  /\ lapsed \in BOOLEAN /\ byAgent \in BOOLEAN

LEMMA RungTypesStep == LadderTypes /\ RungTypes /\ [Next]_fleetVars => RungTypes'
<1> SUFFICES ASSUME LadderTypes, RungTypes, [Next]_fleetVars PROVE RungTypes'
  OBVIOUS
<1> USE DEF LadderTypes, RungTypes, ScriptStages, Verdicts
<1>1. CASE UNCHANGED legacyVars
  BY <1>1 DEF legacyVars
<1>2. NoStray \in [at : {"none", "queued", "running"}, truck : Trucks]
  BY TruckAssumption DEF NoStray
<1>3. CASE LadderStep
  <2> USE DEF ToRung, Return, ToScript, AgentRuns, ladder, lock, ScriptFrame, Continues, Ends
  <2>1. CASE AgentFirst \/ AgentLast
    BY <2>1 DEF AgentFirst, AgentLast
  <2>2. CASE TryDaemon \/ DaemonAnswers \/ ScriptReturned
    BY <2>2 DEF TryDaemon, DaemonAnswers, ScriptReturned
  <2>3. CASE DaemonTimesOut
    BY <2>3 DEF DaemonTimesOut
  <2>4. CASE ScriptLocks \/ ScriptTimesOut
    BY <2>4 DEF ScriptLocks, ScriptTimesOut
  <2>5. CASE ScriptLogsIn \/ ScriptFindsProduct \/ ScriptAddsToCart \/ ScriptChecksCart
    BY <2>5 DEF ScriptLogsIn, ScriptFindsProduct, ScriptAddsToCart, ScriptChecksCart
  <2>6. CASE ScriptAnswers \/ ScriptReadsTotal \/ ScriptFillsPayment \/ ScriptPlacesOrder
    BY <2>6 DEF ScriptAnswers, ScriptReadsTotal, ScriptFillsPayment, ScriptPlacesOrder
  <2> QED
    BY <1>3, <2>1, <2>2, <2>3, <2>4, <2>5, <2>6 DEF LadderStep
<1>4. CASE DaemonStep
  BY <1>2, <1>4 DEF DaemonStep, StrayStarts, StrayEnds, JobStarts, JobEnds, DaemonFrame
<1>5. ASSUME NEW t \in Trucks, WindowCloses(t) PROVE RungTypes'
  BY <1>5 DEF WindowCloses, ladder
<1>6. ASSUME DaemonGoes, daemonUp' \in BOOLEAN PROVE RungTypes'
  <2>1. rung' \in {rung, "script"} /\ script' \in {script, "lock"}
    BY <1>6 DEF DaemonGoes, ToScript, ToRung
  <2>2. stray' = NoStray /\ lapsed' \in {lapsed, TRUE} /\ UNCHANGED <<verdict, byAgent, engine>>
    BY <1>6 DEF DaemonGoes
  <2>3. lapsed' \in BOOLEAN /\ rung' \in {"none", "first", "probe", "daemon", "script",
                                        "escalate", "agent", "over"}
    BY <2>1, <2>2
  <2>4. script' \in ScriptStages
    BY <2>1
  <2> QED
    BY <1>2, <1>6, <2>2, <2>3, <2>4
<1>7. CASE MonitorGoes
  BY <1>7 DEF MonitorGoes, LadderGoes
<1>8. CASE DaemonBack
  BY <1>8 DEF DaemonBack, ladder, lock
<1>9. CASE Dispatch \/ LadderReturns
  BY <1>1, <1>9 DEF Dispatch, EnterLadder, LadderReturns, ToRung, lock
<1>10. ASSUME NEW t \in Trucks, NEW c \in Customers, FindCustomer(t, c) PROVE RungTypes'
  BY <1>10 DEF FindCustomer, ladder, lock
<1>11. StartScan \/ Idle \/ Scrape \/ LastTruck \/ MarkInFlight \/ LegacySkip \/ Release
         \/ RosterReturns \/ SaveOpens \/ SaveWrites \/ BeatOpens \/ BeatWrites
         \/ (\E t \in Trucks : AlertOnly(t)) \/ ScanRaises \/ ScanHangs
         => UNCHANGED legacyVars
  BY DEF StartScan, Idle, Scrape, LastTruck, MarkInFlight, LegacySkip, Release, SaveOpens,
         SaveWrites, BeatOpens, BeatWrites, AlertOnly, RosterReturns, ScanRaises, ScanHangs
<1>12. Tick \/ Outside \/ ProbeDaemon \/ CheckMonitor \/ DockerFails \/ HealerDies
         \/ Watching \/ UNCHANGED fleetVars => UNCHANGED legacyVars
  BY DEF Tick, Outside, OtherPurchase, HoldExpires, CooldownEnds, ColumnStep, ProbeDaemon,
         CheckMonitor, DockerFails, HealerDies, HealerFrame, Watching, OfficeTurns, Alarm,
         AllClear, Records, WatcherDies, SaveTorn, WatcherFrame, fleetVars
<1>13. /\ DaemonFails => DaemonGoes /\ daemonUp' \in BOOLEAN
       /\ RestartDaemon => DaemonGoes /\ daemonUp' \in BOOLEAN
       /\ MonitorDies \/ RestartMonitor => MonitorGoes
  BY DEF DaemonFails, RestartDaemon, MonitorDies, RestartMonitor
<1> HIDE DEF LadderTypes, RungTypes, ScriptStages, Verdicts
<1>14. CASE ScanStep
  BY <1>1, <1>9, <1>10, <1>11, <1>14 DEF ScanStep
<1>15. CASE BuyingStep
  BY <1>3, <1>4, <1>5, <1>15 DEF BuyingStep
<1> QED
  BY <1>1, <1>6, <1>7, <1>8, <1>11, <1>12, <1>13, <1>14, <1>15
     DEF Next, MonitorStep, Elsewhere, Healer

ScanTypes ==
  /\ engine \in EngineModes
  /\ saved \in SUBSET Trucks /\ mem \in SUBSET Trucks /\ todo \in SUBSET Trucks
  /\ torn \in BOOLEAN /\ beatTorn \in BOOLEAN
  /\ mstage \in {"rest", "scrape", "next", "mark", "reserved", "buying", "release",
                 "save", "saving", "beat", "beating", "hung"}
  /\ picked \in Customers \cup {NoCustomer}
  /\ age \in 0 .. StaleAfter + 1
  /\ given \in [Trucks -> BOOLEAN] /\ excused \in [Trucks -> BOOLEAN]
  /\ faults \in 0 .. MaxFaults[engine]

LEMMA ScanTypesScan == LadderTypes /\ ScanTypes /\ ScanStep => ScanTypes'
<1> SUFFICES ASSUME LadderTypes, ScanTypes, ScanStep PROVE ScanTypes'
  OBVIOUS
<1> USE DEF ScanTypes, At, To, beat, sighting, legacyVars
<1>1. CASE StartScan \/ Idle \/ LastTruck \/ MarkInFlight \/ LegacySkip \/ RosterReturns
  BY <1>1 DEF StartScan, Idle, LastTruck, MarkInFlight, LegacySkip, RosterReturns
<1>2. CASE SaveOpens \/ SaveWrites
  BY <1>2 DEF SaveOpens, SaveWrites
<1>9. CASE BeatOpens
  BY <1>9 DEF BeatOpens
<1>10. CASE BeatWrites
  <2>1. age' \in 0 .. StaleAfter + 1
    BY <1>10, StaleAssumption DEF BeatWrites
  <2> QED
    BY <1>10, <2>1 DEF BeatWrites
<1>3. CASE Scrape
  <2>1. given' \in [Trucks -> BOOLEAN] /\ excused' \in [Trucks -> BOOLEAN]
    BY <1>3 DEF Scrape
  <2> QED
    BY <1>3, <2>1 DEF Scrape
<1>4. CASE Dispatch
  <2>1. given' \in [Trucks -> BOOLEAN] /\ engine' = engine
    BY <1>4 DEF Dispatch, EnterLadder
  <2> QED
    BY <1>4, <2>1 DEF Dispatch
<1>5. CASE LadderReturns
  BY <1>5 DEF LadderReturns
<1>6. CASE Release
  BY <1>6 DEF Release, LadderTypes
<1>7. ASSUME NEW t \in Trucks, AlertOnly(t) PROVE ScanTypes'
  BY <1>7 DEF AlertOnly
<1>8. ASSUME NEW t \in Trucks, NEW c \in Customers, FindCustomer(t, c) PROVE ScanTypes'
  BY <1>8 DEF FindCustomer
<1> QED
  BY <1>1, <1>2, <1>3, <1>4, <1>5, <1>6, <1>7, <1>8, <1>9, <1>10 DEF ScanStep

LEMMA EngineStays == [Next]_fleetVars => engine' = engine
<1>1. LadderStep => engine' = engine
  BY DEF LadderStep, AgentFirst, TryDaemon, DaemonAnswers, DaemonTimesOut, ScriptReturned,
         AgentLast, ScriptLocks, ScriptLogsIn, ScriptFindsProduct, ScriptAddsToCart,
         ScriptChecksCart, ScriptAnswers, ScriptReadsTotal, ScriptFillsPayment,
         ScriptPlacesOrder, ScriptTimesOut, ScriptFrame
<1>2. DaemonStep \/ DaemonGoes \/ LadderGoes \/ DaemonBack
        \/ (\E t \in Trucks : WindowCloses(t)) => engine' = engine
  BY DEF DaemonStep, StrayStarts, StrayEnds, JobStarts, JobEnds, DaemonFrame, DaemonGoes,
         LadderGoes, DaemonBack, WindowCloses
<1>3. ScanStep => engine' = engine
  BY DEF ScanStep, StartScan, Idle, Scrape, LastTruck, MarkInFlight, LegacySkip, Dispatch,
         EnterLadder, RosterReturns, LadderReturns, Release, SaveOpens, SaveWrites,
         BeatOpens, BeatWrites, AlertOnly, FindCustomer, legacyVars
<1>4. Tick \/ Outside \/ ProbeDaemon \/ CheckMonitor \/ DockerFails \/ HealerDies
        \/ Watching \/ ScanRaises \/ ScanHangs \/ UNCHANGED fleetVars => engine' = engine
  BY DEF Tick, Outside, OtherPurchase, HoldExpires, CooldownEnds, ColumnStep, ProbeDaemon,
         CheckMonitor, DockerFails, HealerDies, HealerFrame, Watching, OfficeTurns, Alarm,
         AllClear, Records, WatcherDies, SaveTorn, WatcherFrame, ScanRaises, ScanHangs, fleetVars,
         legacyVars
<1>5. DaemonFails \/ RestartDaemon => DaemonGoes
  BY DEF DaemonFails, RestartDaemon
<1>6. MonitorDies \/ RestartMonitor => LadderGoes
  BY DEF MonitorDies, RestartMonitor, MonitorGoes
<1> QED
  BY <1>1, <1>2, <1>3, <1>4, <1>5, <1>6
     DEF Next, MonitorStep, Elsewhere, BuyingStep, Healer

LEMMA ScanTypesStep == LadderTypes /\ ScanTypes /\ [Next]_fleetVars => ScanTypes'
<1> SUFFICES ASSUME LadderTypes, ScanTypes, [Next]_fleetVars PROVE ScanTypes'
  OBVIOUS
<1>0. engine' = engine
  BY EngineStays
<1>1. CASE ScanStep
  BY <1>1, ScanTypesScan
<1>2. CASE UNCHANGED monitorVars
  BY <1>0, <1>2 DEF monitorVars, scan, beat, sighting, ScanTypes
<1>3. Fault => faults' \in 0 .. MaxFaults[engine']
  BY <1>0, FaultsAssumption DEF Fault, ScanTypes
<1>4. ASSUME ScanLost, faults' \in 0 .. MaxFaults[engine'] PROVE ScanTypes'
  BY <1>0, <1>4 DEF ScanLost, To, beat, ScanTypes
<1>5. CASE ScanHangs
  BY <1>0, <1>3, <1>5 DEF ScanHangs, To, beat, sighting, ScanTypes
<1>6. /\ ScanRaises \/ MonitorDies => ScanLost /\ Fault
      /\ RestartMonitor => ScanLost /\ faults' = faults
  BY DEF ScanRaises, MonitorDies, MonitorGoes, RestartMonitor
<1>7. CASE DaemonFails \/ DockerFails \/ HealerDies \/ WatcherDies \/ SaveTorn
  <2>1. UNCHANGED <<scan, beat, sighting>> /\ Fault
    BY <1>7 DEF DaemonFails, DockerFails, HealerDies, WatcherDies, SaveTorn
  <2> QED
    BY <1>0, <1>3, <2>1 DEF scan, beat, sighting, ScanTypes
<1>8. CASE Tick
  BY <1>0, <1>8, StaleAssumption DEF Tick, Up, scan, beat, sighting, ScanTypes
<1>9. CASE Outside
  BY <1>0, <1>9 DEF Outside, OtherPurchase, HoldExpires, CooldownEnds, ColumnStep, scan, beat,
     sighting, ScanTypes
<1>10. BuyingStep \/ DaemonBack \/ ProbeDaemon \/ CheckMonitor \/ RestartDaemon
         \/ OfficeTurns \/ Alarm \/ AllClear \/ Records \/ UNCHANGED fleetVars
         => UNCHANGED monitorVars
  BY DEF BuyingStep, DaemonBack, ProbeDaemon, CheckMonitor, RestartDaemon, HealerFrame,
         OfficeTurns, Alarm, AllClear, Records, WatcherFrame, fleetVars
<1>11. RestartMonitor => faults' \in 0 .. MaxFaults[engine']
  BY <1>0, <1>6 DEF ScanTypes
<1> QED
  BY <1>1, <1>2, <1>3, <1>4, <1>5, <1>6, <1>7, <1>8, <1>9, <1>10, <1>11
     DEF Next, MonitorStep, Elsewhere, Healer, Watching

ClockTypes ==
  /\ due \in BOOLEAN /\ busy \in 0 .. PurchaseTicks
  /\ lost \in BOOLEAN
  /\ badProbes \in 0 .. FailCycles
  /\ hstage \in {"probe", "restartDaemon", "check", "restartMonitor"}
  /\ watcher \in Watchers
  /\ office \in BOOLEAN /\ latch \in BOOLEAN /\ slipped \in BOOLEAN
  /\ wstage \in {"none", "down", "up"}
  /\ said \in {"down", "up"}

LEMMA ClockTypesStep == ClockTypes /\ [Next]_fleetVars => ClockTypes'
<1> SUFFICES ASSUME ClockTypes, [Next]_fleetVars PROVE ClockTypes'
  OBVIOUS
<1> USE GapAssumption, FailCyclesAssumption
        DEF ClockTypes, clock, healing, watching, HealerFrame, WatcherFrame
<1>1. CASE Tick
  BY <1>1 DEF Tick, Up
<1>2. CASE MonitorStep
  <2>1. due' \in BOOLEAN /\ busy' \in 0 .. PurchaseTicks
    BY <1>2 DEF MonitorStep
  <2> QED
    BY <1>2, <2>1 DEF MonitorStep
<1>3. CASE Elsewhere
  BY <1>3 DEF Elsewhere
<1>4. CASE ProbeDaemon
  BY <1>4 DEF ProbeDaemon, Up
<1>5. ASSUME UNCHANGED <<due, lost, watching>>, busy' \in {busy, 0},
             badProbes' \in {badProbes, 0}, hstage' \in {"probe", "check", "restartMonitor"}
      PROVE  ClockTypes'
  BY <1>5
<1>9. CASE CheckMonitor \/ RestartDaemon \/ RestartMonitor \/ DockerFails
  BY <1>5, <1>9 DEF CheckMonitor, RestartDaemon, RestartMonitor, DockerFails
<1>10. CASE HealerDies
  <2>1. lost' \in BOOLEAN
    BY <1>10 DEF HealerDies
  <2>2. hstage' = "probe" /\ badProbes' = 0 /\ UNCHANGED <<clock, watching>>
    BY <1>10 DEF HealerDies
  <2> QED
    BY <2>1, <2>2
<1>6. CASE OfficeTurns \/ Alarm \/ AllClear
  BY <1>6 DEF OfficeTurns, Alarm, AllClear, Sends
<1>7. CASE Records \/ WatcherDies \/ SaveTorn
  BY <1>7 DEF Records, WatcherDies, SaveTorn
<1>8. CASE UNCHANGED fleetVars
  BY <1>8 DEF fleetVars
<1> HIDE DEF ClockTypes
<1> QED
  BY <1>1, <1>2, <1>3, <1>4, <1>6, <1>7, <1>8, <1>9, <1>10 DEF Next, Healer, Watching

FleetTypeInv == LadderInv /\ RungTypes /\ ScanTypes /\ ColumnInv /\ SpacingInv /\ ClockTypes

LEMMA FleetTypeInit == Init => FleetTypeInv
<1> SUFFICES ASSUME Init PROVE FleetTypeInv
  OBVIOUS
<1>1. RungTypes
  BY TruckAssumption DEF Init, LegacyInit, RungTypes, ScriptStages, Verdicts, NoStray
<1>2. ScanTypes
  <2>1. engine \in EngineModes /\ 0 \in 0 .. MaxFaults[engine] /\ 0 \in 0 .. StaleAfter + 1
    BY StaleAssumption, FaultsAssumption DEF Init, LegacyInit
  <2> QED
    BY <2>1 DEF Init, MonitorInit, ScanTypes
<1>3. ClockTypes
  <2>1. watcher \in Watchers
    BY DEF Init, Watchers
  <2>2. 0 \in 0 .. PurchaseTicks /\ 0 \in 0 .. FailCycles
    BY GapAssumption, FailCyclesAssumption
  <2> QED
    BY <2>1, <2>2 DEF Init, ClockTypes
<1> QED
  BY <1>1, <1>2, <1>3, LadderInit, ColumnInit, SpacingInit DEF FleetTypeInv

(* Scanner, ladder, healer and watchers keep their types; in particular the   *)
(* saturating clocks and counts stay within their limits.                   *)
THEOREM FleetTypeCorrect == Spec => []FleetTypeOK
<1>1. FleetTypeInv /\ [Next]_fleetVars => FleetTypeInv'
  BY LadderInvStep, RungTypesStep, ScanTypesStep, ColumnStepInv, SpacingStep, ClockTypesStep
     DEF FleetTypeInv, LadderInv
<1>2. FleetTypeInv => FleetTypeOK
  BY DEF FleetTypeInv, LadderInv, LadderTypes, RungTypes, ScanTypes, ColumnInv, SpacingInv,
         ClockTypes, FleetTypeOK, LegacyTypeOK, MonitorTypeOK
<1> QED
  BY <1>1, <1>2, FleetTypeInit, PTL DEF Spec
=============================================================================
