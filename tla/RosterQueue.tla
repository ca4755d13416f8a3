----------------------------- MODULE RosterQueue -----------------------------
(***************************************************************************)
(* The rotation queue (good360_roster/queue_manager.py) and the mirror     *)
(* that feeds it (missioncontrol/quickbeed_roster_sync.py).                *)
(*                                                                         *)
(* Two databases describe every customer.  dashboard.db is what QuickBeed  *)
(* and the operator edit; roster.db is what the purchase walk picks from.  *)
(* A sync copies the first onto the second: it reads a snapshot of the     *)
(* dashboard, then writes the roster in one transaction, then recomputes   *)
(* the queue positions in another.  The walk writes both databases, in     *)
(* separate commits.  Every commit is an action here, so the steps of a    *)
(* sync, of a walk and of the operator interleave as the processes do.     *)
(*                                                                         *)
(* The walk is the one that holds QUEUE_LOCK; the lock is per process, so  *)
(* this module speaks of a deployment in which one process buys.           *)
(*                                                                         *)
(* Definitions named Slip... are plausible slips in the definition that    *)
(* follows them; no behaviour of Spec uses them.  Each makes TLC refute    *)
(* the property PROJECT.json pairs it with, which shows the property       *)
(* depends on the code being as it is.                                     *)
(***************************************************************************)
EXTENDS Integers, FiniteSets

CONSTANTS
  Orgs,          \* customers of the roster
  Cooldown,      \* days an org rests after a purchase (cooldown_days)
  Poll,          \* the QuickBeed poll thread
  Requests,      \* dashboard requests that may be in their sync at once
  QbStatuses,    \* statuses QuickBeed gives these customers
  Rankings,      \* manual orders the operator drags the queue into
  OperatorActs,  \* what the operator does, a subset of the five acts below
  MaxTime,       \* bound on the clock, in days
  MaxEdits       \* bound on operator and QuickBeed edits

None == 0        \* SQL NULL in a date or a rank; every real day is >= 1

AllQbStatuses == {"active", "paused", "inactive", "suspended", "onboarding"}

ASSUME OrgsFinite == IsFiniteSet(Orgs)
ASSUME CooldownAssumption == Cooldown \in Nat \ {0}
ASSUME SyncersAssumption == Poll \notin Requests
ASSUME StatusesAssumption == QbStatuses \subseteq AllQbStatuses
ASSUME RankingsAssumption == Rankings \subseteq [Orgs -> Nat]
ASSUME BoundsAssumption == MaxTime \in Nat /\ MaxEdits \in Nat
ASSUME ActsAssumption ==
  OperatorActs \subseteq {"toggle", "reorder", "clear", "release", "status"}

VARIABLES
  now,                                     \* the day
  status, until, lastBuy, position, rank, autoBuy,   \* roster.db nonprofits
  qb, rotation, dashRank, dashCooling,               \* dashboard.db customers
  stage, picked,                           \* the walk: its next step, its org
  sync, snapshot,                          \* each sync: next step, what it read
  cli,                                     \* queue_manager.py release <org>
  clearing,                                \* orgs halfway through clear-cooldown
  edits,                                   \* edits so far (bound)
  cleared,    \* history: cooldown lifted by hand since the org last bought
  stale       \* history: orgs made active since positions were recomputed

roster    == <<status, until, lastBuy, position, rank, autoBuy>>
dashboard == <<qb, rotation, dashRank, dashCooling>>
walk      == <<stage, picked>>
syncs     == <<sync, snapshot>>
history   == <<cleared, stale>>
operator == <<cli, clearing>>
vars == <<now, roster, dashboard, walk, syncs, operator, edits, history>>

Syncers == {Poll} \cup Requests

\* What the roster stores for a QuickBeed status, and what its CHECK accepts:
\* 'inactive' is written by the map and refused by the table.
StatusMap(q) == CASE q = "active" -> "active"
                  [] q = "paused" -> "cooldown"
                  [] q \in {"inactive", "suspended"} -> "inactive"
                  [] OTHER -> "pending_setup"

RosterStatuses == {"active", "cooldown", "suspended", "pending_setup"}

Active == {o \in Orgs : status[o] = "active"}
\* Slip: the sweep forgets the date.
SlipExpired(o) == status[o] = "cooldown" /\ until[o] # None

Expired(o) == status[o] = "cooldown" /\ until[o] # None /\ until[o] < now

\* Slip: NULL sorts after every purchase date.
SlipOrderings(S, bought) ==
  {p \in [S -> 1..Cardinality(S)] :
     \A a, b \in S : /\ a # b => p[a] # p[b]
                     /\ \/ bought[a] # None /\ bought[b] = None
                        \/ bought[a] # None /\ bought[a] < bought[b]
                        => p[a] < p[b]}

\* assign_queue_positions, and the same statement at the end of a sync: number
\* the active orgs from the longest waiting (never bought first), ties in the
\* order SQLite happens to return; other rows keep their old number.
Orderings(S, bought) ==
  {p \in [S -> 1..Cardinality(S)] :
     \A a, b \in S : /\ a # b => p[a] # p[b]
                     /\ bought[a] < bought[b] => p[a] < p[b]}

Refresh ==
  /\ \E p \in Orderings(Active, lastBuy) :
       position' = [o \in Orgs |-> IF o \in Active THEN p[o] ELSE position[o]]
  /\ stale' = {}
  /\ UNCHANGED <<status, until, lastBuy, rank, autoBuy, cleared>>

\* What the history records of a commit that changes statuses.
NoteStale ==
  stale' = stale \cup {o \in Orgs : status[o] # "active" /\ status'[o] = "active"}

NoRows == <<>>   \* a sync that has nothing read

TypeOK ==
  /\ now \in Nat \ {0}
  /\ status \in [Orgs -> RosterStatuses]
  /\ until \in [Orgs -> Nat] /\ lastBuy \in [Orgs -> Nat]
  /\ position \in [Orgs -> Nat] /\ rank \in [Orgs -> Nat]
  /\ autoBuy \in [Orgs -> BOOLEAN]
  /\ qb \in [Orgs -> AllQbStatuses] /\ rotation \in [Orgs -> BOOLEAN]
  /\ dashRank \in [Orgs -> Nat] /\ dashCooling \in [Orgs -> BOOLEAN]
  /\ stage \in {"idle", "released", "select", "buy", "refresh", "mirror", "unlist"}
  /\ picked \in Orgs \cup {None}
  /\ sync \in [Syncers -> {"idle", "read", "write", "positions"}]
  /\ snapshot \in [Syncers -> {NoRows} \cup
       [rows : [Orgs -> [qb : AllQbStatuses, rotation : BOOLEAN, rank : Nat]],
        at : Nat]]
  /\ cli \in {"idle", "refresh", "again"}
  /\ clearing \subseteq Orgs
  /\ edits \in Nat
  /\ cleared \in [Orgs -> BOOLEAN]
  /\ stale \subseteq Orgs

DashboardRows == [o \in Orgs |->
  [qb |-> qb[o], rotation |-> rotation[o], rank |-> dashRank[o]]]

Init ==
  /\ now = 1
  /\ status = [o \in Orgs |-> "active"]
  /\ until = [o \in Orgs |-> None] /\ lastBuy = [o \in Orgs |-> None]
  /\ position \in Orderings(Orgs, lastBuy)
  /\ rank = [o \in Orgs |-> None] /\ autoBuy = [o \in Orgs |-> TRUE]
  /\ qb = [o \in Orgs |-> "active"] /\ rotation = [o \in Orgs |-> TRUE]
  /\ dashRank = [o \in Orgs |-> None] /\ dashCooling = [o \in Orgs |-> FALSE]
  /\ stage = "idle" /\ picked = None
  /\ sync = [s \in Syncers |-> "idle"]
  /\ snapshot = [s \in Syncers |-> NoRows]
  /\ cli = "idle" /\ clearing = {} /\ edits = 0
  /\ cleared = [o \in Orgs |-> FALSE] /\ stale = {}

-----------------------------------------------------------------------------
(* The walk: find_next_available_org, the purchase, and its bookkeeping.    *)

\* The sweep that opens every pick; it recomputes positions only when it
\* released an org, and in a commit of its own.
Sweep ==
  /\ stage = "idle"
  /\ status' = [o \in Orgs |-> IF Expired(o) THEN "active" ELSE status[o]]
  /\ until' = [o \in Orgs |-> IF Expired(o) THEN None ELSE until[o]]
  /\ stage' = IF \E o \in Orgs : Expired(o) THEN "released" ELSE "select"
  /\ NoteStale
  /\ UNCHANGED <<now, lastBuy, position, rank, autoBuy, dashboard, picked,
                 syncs, operator, edits, cleared>>

SweepPositions ==
  /\ stage = "released"
  /\ Refresh
  /\ stage' = "select"
  /\ UNCHANGED <<now, dashboard, picked, syncs, operator, edits>>

Eligible == {o \in Orgs : /\ status[o] = "active"
                          /\ until[o] = None \/ until[o] < now
                          /\ autoBuy[o]}

\* ORDER BY (manual_rank IS NULL), manual_rank, queue_position.
Before(a, b) ==
  \/ rank[a] # None /\ rank[b] = None
  \/ rank[a] # None /\ rank[b] # None /\ rank[a] < rank[b]
  \/ rank[a] = rank[b] /\ position[a] < position[b]

\* The caller excludes the orgs it has already tried for this truck.
Select ==
  /\ stage = "select"
  /\ \E excluded \in SUBSET Orgs :
       LET offered == Eligible \ excluded
       IN  \/ \E o \in offered :
                /\ \A other \in offered : ~Before(other, o)
                /\ picked' = o /\ stage' = "buy"
           \/ offered = {} /\ picked' = None /\ stage' = "idle"
  /\ UNCHANGED <<now, roster, dashboard, syncs, operator, edits, history>>

\* The attempt ends without a purchase and without a card failure; the next
\* pick sweeps again.
Miss ==
  /\ stage = "buy"
  /\ stage' = "idle" /\ picked' = None
  /\ UNCHANGED <<now, roster, dashboard, syncs, operator, edits, history>>

\* apply_cooldown's own commit.
Succeed ==
  /\ stage = "buy"
  /\ status' = [status EXCEPT ![picked] = "cooldown"]
  /\ until' = [until EXCEPT ![picked] = now + Cooldown]
  /\ lastBuy' = [lastBuy EXCEPT ![picked] = now]
  /\ cleared' = [cleared EXCEPT ![picked] = FALSE]
  /\ stage' = "refresh"
  /\ UNCHANGED <<now, position, rank, autoBuy, dashboard, picked, syncs, operator,
                 edits, stale>>

CooledPositions ==
  /\ stage = "refresh"
  /\ Refresh
  /\ stage' = "mirror"
  /\ UNCHANGED <<now, dashboard, picked, syncs, operator, edits>>

\* _sync_cooldown_to_dashboard: best effort, a failure is logged and dropped.
MirrorCooldown ==
  /\ stage = "mirror"
  /\ \/ dashCooling' = [dashCooling EXCEPT ![picked] = TRUE]
     \/ dashCooling' = dashCooling
  /\ stage' = "idle" /\ picked' = None
  /\ UNCHANGED <<now, roster, qb, rotation, dashRank, syncs, operator, edits,
                 history>>

\* _suspend_org_autobuy after a card failure: the roster first, ...
Decline ==
  /\ stage = "buy"
  /\ autoBuy' = [autoBuy EXCEPT ![picked] = FALSE]
  /\ stage' = "unlist"
  /\ UNCHANGED <<now, status, until, lastBuy, position, rank, dashboard,
                 picked, syncs, operator, edits, history>>

\* ... then the dashboard, best effort.
Unlist ==
  /\ stage = "unlist"
  /\ \/ rotation' = [rotation EXCEPT ![picked] = FALSE]
     \/ rotation' = rotation
  /\ stage' = "idle" /\ picked' = None
  /\ UNCHANGED <<now, roster, qb, dashRank, dashCooling, syncs, operator, edits,
                 history>>

\* The walking process dies between two of its commits.
WalkDies ==
  /\ stage # "idle"
  /\ stage' = "idle" /\ picked' = None
  /\ UNCHANGED <<now, roster, dashboard, syncs, operator, edits, history>>

-----------------------------------------------------------------------------
(* sync_to_roster, run by the poll thread and by dashboard requests.        *)

SyncRead(s) ==
  /\ sync[s] = IF s = Poll THEN "idle" ELSE "read"
  /\ snapshot' = [snapshot EXCEPT ![s] = [rows |-> DashboardRows, at |-> now]]
  /\ sync' = [sync EXCEPT ![s] = "write"]
  /\ UNCHANGED <<now, roster, dashboard, walk, operator, edits, history>>

Accepted(rows) == \A o \in Orgs : StatusMap(rows[o].qb) \in RosterStatuses

\* Slip: an expired cooldown is pinned again by every sync.
SlipSyncedStatus(o, row, at) ==
  LET mapped == StatusMap(row.qb)
  IN  IF status[o] = "cooldown" /\ until[o] # None /\ mapped = "active"
      THEN "cooldown" ELSE mapped

\* A purchase cooldown survives the sync only while it is in force, by the
\* clock the sync looked at when it read its rows.
SyncedStatus(o, row, at) ==
  LET mapped == StatusMap(row.qb)
  IN  IF /\ status[o] = "cooldown" /\ until[o] # None /\ until[o] > at
         /\ mapped = "active"
      THEN "cooldown" ELSE mapped

\* Slip: no recomputation of the positions after the upsert.
SlipCommitsOnly(s) ==
  LET rows == snapshot[s].rows
  IN  /\ sync[s] = "write"
      /\ Accepted(rows)
      /\ status' = [o \in Orgs |-> SyncedStatus(o, rows[o], snapshot[s].at)]
      /\ autoBuy' = [o \in Orgs |-> /\ StatusMap(rows[o].qb) = "active"
                                    /\ rows[o].rotation]
      /\ rank' = [o \in Orgs |-> rows[o].rank]
      /\ sync' = [sync EXCEPT ![s] = "idle"]
      /\ snapshot' = [snapshot EXCEPT ![s] = NoRows]
      /\ NoteStale
      /\ UNCHANGED <<now, until, lastBuy, position, dashboard, walk, operator,
                     edits, cleared>>

\* Slip: QuickBeed-active alone makes a customer eligible.
SlipActiveIsEnough(s) ==
  LET rows == snapshot[s].rows
  IN  /\ sync[s] = "write"
      /\ Accepted(rows)
      /\ status' = [o \in Orgs |-> SyncedStatus(o, rows[o], snapshot[s].at)]
      /\ autoBuy' = [o \in Orgs |-> StatusMap(rows[o].qb) = "active"]
      /\ rank' = [o \in Orgs |-> rows[o].rank]
      /\ sync' = [sync EXCEPT ![s] = "positions"]
      /\ snapshot' = [snapshot EXCEPT ![s] = NoRows]
      /\ NoteStale
      /\ UNCHANGED <<now, until, lastBuy, position, dashboard, walk, operator,
                     edits, cleared>>

SyncCommits(s) ==
  LET rows == snapshot[s].rows
  IN  /\ sync[s] = "write"
      /\ Accepted(rows)
      /\ status' = [o \in Orgs |-> SyncedStatus(o, rows[o], snapshot[s].at)]
      /\ autoBuy' = [o \in Orgs |-> /\ StatusMap(rows[o].qb) = "active"
                                    /\ rows[o].rotation]
      /\ rank' = [o \in Orgs |-> rows[o].rank]
      /\ sync' = [sync EXCEPT ![s] = "positions"]
      /\ snapshot' = [snapshot EXCEPT ![s] = NoRows]
      /\ NoteStale
      /\ UNCHANGED <<now, until, lastBuy, position, dashboard, walk, operator,
                     edits, cleared>>

\* One row the CHECK refuses rolls the whole sync back; the caller swallows
\* the error.
SyncAborts(s) ==
  /\ sync[s] = "write"
  /\ ~Accepted(snapshot[s].rows)
  /\ sync' = [sync EXCEPT ![s] = "idle"]
  /\ snapshot' = [snapshot EXCEPT ![s] = NoRows]
  /\ UNCHANGED <<now, roster, dashboard, walk, operator, edits, history>>

SyncPositions(s) ==
  /\ sync[s] = "positions"
  /\ Refresh
  /\ sync' = [sync EXCEPT ![s] = "idle"]
  /\ UNCHANGED <<now, dashboard, walk, snapshot, operator, edits>>

-----------------------------------------------------------------------------
(* QuickBeed, the operator and the clock.                                   *)

Edit(act) == act \in OperatorActs /\ edits < MaxEdits /\ edits' = edits + 1

\* A dashboard request commits its edit and then runs a sync of its own.
\* The bound on requests in flight is Requests.
StartSync(r) == sync[r] = "idle" /\ sync' = [sync EXCEPT ![r] = "read"]

\* QuickBeed changes a customer's status and the mirror records it.
SetStatus(o) ==
  /\ Edit("status")
  /\ \E q \in QbStatuses \ {qb[o]} : qb' = [qb EXCEPT ![o] = q]
  /\ UNCHANGED <<now, roster, rotation, dashRank, dashCooling, walk, syncs,
                 operator, history>>

ToggleRotation(o) ==
  /\ Edit("toggle")
  /\ rotation' = [rotation EXCEPT ![o] = ~@]
  /\ \E r \in Requests : StartSync(r)
  /\ UNCHANGED <<now, roster, qb, dashRank, dashCooling, walk, snapshot, operator,
                 history>>

Reorder(order) ==
  /\ Edit("reorder")
  /\ dashRank' = order
  /\ \E r \in Requests : StartSync(r)
  /\ UNCHANGED <<now, roster, qb, rotation, dashCooling, walk, snapshot, operator,
                 history>>

\* customer_clear_cooldown returns early unless the dashboard shows a
\* cooldown, and commits to the dashboard first, ...
ClearCooldown(o) ==
  /\ Edit("clear")
  /\ dashCooling[o]
  /\ dashCooling' = [dashCooling EXCEPT ![o] = FALSE]
  /\ clearing' = clearing \cup {o}
  /\ UNCHANGED <<now, roster, qb, rotation, dashRank, walk, syncs, cli, history>>

\* ... then to the roster, best effort, where it leaves the queue positions
\* alone.
ClearRoster(o) ==
  /\ o \in clearing /\ clearing' = clearing \ {o}
  /\ \/ /\ until' = [until EXCEPT ![o] = None]
        /\ status' = [status EXCEPT ![o] = IF @ = "cooldown" THEN "active" ELSE @]
        /\ cleared' = [cleared EXCEPT ![o] = TRUE]
     \/ UNCHANGED <<until, status, cleared>>
  /\ NoteStale
  /\ UNCHANGED <<now, lastBuy, position, rank, autoBuy, dashboard, walk, syncs,
                 cli, edits>>

\* The command line's release makes the org active whatever it was, ...
ReleaseCooldown(o) ==
  /\ Edit("release")
  /\ cli = "idle" /\ cli' = "refresh"
  /\ status' = [status EXCEPT ![o] = "active"]
  /\ until' = [until EXCEPT ![o] = None]
  /\ cleared' = [cleared EXCEPT ![o] = TRUE]
  /\ NoteStale
  /\ UNCHANGED <<now, lastBuy, position, rank, autoBuy, dashboard, walk, syncs,
                 clearing>>

\* ... and recomputes the positions twice, inside release_cooldown and after.
ReleasePositions ==
  /\ cli # "idle" /\ cli' = IF cli = "refresh" THEN "again" ELSE "idle"
  /\ Refresh
  /\ UNCHANGED <<now, dashboard, walk, syncs, clearing, edits>>

Tick ==
  /\ now < MaxTime
  /\ now' = now + 1
  /\ UNCHANGED <<roster, dashboard, walk, syncs, operator, edits, history>>

-----------------------------------------------------------------------------
Walk == \/ Sweep \/ SweepPositions \/ Select \/ Miss \/ Succeed
        \/ CooledPositions \/ MirrorCooldown \/ Decline \/ Unlist \/ WalkDies

Sync(s) == SyncRead(s) \/ SyncCommits(s) \/ SyncAborts(s) \/ SyncPositions(s)

Edits == \/ \E o \in Orgs : \/ SetStatus(o) \/ ToggleRotation(o)
                            \/ ClearCooldown(o) \/ ClearRoster(o)
                            \/ ReleaseCooldown(o)
         \/ \E order \in Rankings : Reorder(order)
         \/ ReleasePositions

Next == Walk \/ (\E s \in Syncers : Sync(s)) \/ Edits \/ Tick

\* The poll thread syncs every QUICKBEED_POLL_INTERVAL_SECONDS for as long as
\* the dashboard runs, and a request finishes the sync it began.  Nothing
\* makes trucks arrive, the operator act or the clock advance.
Fairness ==
  /\ WF_vars(SyncRead(Poll))
  /\ \A s \in Syncers :
       WF_vars(SyncCommits(s) \/ SyncAborts(s) \/ SyncPositions(s))

Spec == Init /\ [][Next]_vars /\ Fairness

-----------------------------------------------------------------------------
\* Two purchases for one org lie more than the cooldown apart, unless somebody
\* lifted the cooldown by hand in between: no sweep, sync from an old snapshot,
\* QuickBeed pause or crash opens the window early.
SpacedPurchases ==
  [][\A o \in Orgs :
       (/\ stage = "buy" /\ stage' = "refresh" /\ picked = o
        /\ lastBuy[o] # None /\ ~cleared[o])
         => now > lastBuy[o] + Cooldown]_vars

\* The queue is least-recently-bought first (queue_manager's position 1 is the
\* longest waiting), except for orgs that became active since the positions
\* were last recomputed.
PositionsAreLRU ==
  \A a, b \in Active \ stale : lastBuy[a] < lastBuy[b] => position[a] < position[b]

\* A recomputation always follows: no org keeps an old number for good.
StaleIsTransient == \A o \in Orgs : (o \in stale) ~> (o \notin stale)

\* A customer who is for good out of the rotation, or not active in QuickBeed,
\* is in the end, and for good, out of the engine's reach, whatever stale
\* snapshots and suspensions cross on the way.
IneligibleStaysOut ==
  \A o \in Orgs :
    <>[](~rotation[o] \/ qb[o] # "active") => <>[](~autoBuy[o])

\* A lapsed purchase cooldown does not hide an active customer for ever, even
\* if no truck ever comes to run the sweep.
ExpiredIsReleased ==
  \A o \in Orgs :
    (Expired(o) /\ qb[o] = "active") ~> (~Expired(o) \/ qb[o] # "active")
=============================================================================
