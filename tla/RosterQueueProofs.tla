------------------------- MODULE RosterQueueProofs -------------------------
(***************************************************************************)
(* What RosterQueue promises for every roster, cooldown length, clock      *)
(* bound and number of dashboard requests: its types, the order of the     *)
(* queue, and the spacing of purchases.                                    *)
(***************************************************************************)
EXTENDS RosterQueue, FiniteSetTheorems, TLAPS

Rows == [Orgs -> [qb : AllQbStatuses, rotation : BOOLEAN, rank : Nat]]
Snapshots == [rows : Rows, at : Nat]

\* A sync that is about to write has read.
HasRead == \A s \in Syncers : sync[s] = "write" => snapshot[s] \in Snapshots

TypeInv == TypeOK /\ HasRead

-----------------------------------------------------------------------------
\* Numbering a finite set gives each member a natural number.
LEMMA OrderingsAreNumbers ==
  ASSUME NEW S \in SUBSET Orgs, NEW bought, NEW p \in Orderings(S, bought)
  PROVE  p \in [S -> Nat]
<1>1. IsFiniteSet(S)
  BY FS_Subset, OrgsFinite
<1>2. Cardinality(S) \in Nat
  BY <1>1, FS_CardinalityType
<1>3. p \in [S -> 1..Cardinality(S)]
  BY DEF Orderings
<1> QED
  BY <1>2, <1>3

\* A recomputation of the positions keeps the types of the roster.
LEMMA RefreshTypes ==
  ASSUME TypeOK, Refresh
  PROVE  /\ position' \in [Orgs -> Nat]
         /\ stale' \subseteq Orgs
         /\ UNCHANGED <<status, until, lastBuy, rank, autoBuy, cleared>>
<1>1. PICK p \in Orderings(Active, lastBuy) :
        position' = [o \in Orgs |-> IF o \in Active THEN p[o] ELSE position[o]]
  BY DEF Refresh
<1>2. p \in [Active -> Nat]
  BY OrderingsAreNumbers DEF Active
<1>3. position' \in [Orgs -> Nat]
  BY <1>1, <1>2 DEF TypeOK
<1> QED
  BY <1>3 DEF Refresh

LEMMA InitTypes == Init => TypeInv
<1> SUFFICES ASSUME Init PROVE TypeInv
  OBVIOUS
<1>1. position \in [Orgs -> Nat]
  BY OrderingsAreNumbers DEF Init
<1>2. TypeOK
  BY <1>1 DEF Init, TypeOK, RosterStatuses, AllQbStatuses, None, NoRows
<1>3. HasRead
  BY DEF Init, HasRead
<1> QED
  BY <1>2, <1>3 DEF TypeInv

\* The walk's own steps keep the types.
LEMMA WalkTypes == TypeInv /\ Walk => TypeInv'
<1> SUFFICES ASSUME TypeInv, Walk PROVE TypeInv'
  OBVIOUS
<1> USE DEF TypeInv
<1>1. HasRead'
  BY DEF Walk, Sweep, SweepPositions, Select, Miss, Succeed, CooledPositions,
         MirrorCooldown, Decline, Unlist, WalkDies, HasRead, syncs, Snapshots, Rows
<1>2. CASE Sweep
  BY <1>1, <1>2 DEF Sweep, NoteStale, TypeOK, dashboard, syncs, operator,
                        RosterStatuses, None
<1>3. CASE SweepPositions
  <2>1. Refresh
    BY <1>3 DEF SweepPositions
  <2> QED
    BY <1>1, <1>3, <2>1, RefreshTypes DEF SweepPositions, TypeOK, dashboard, syncs,
                                        operator
<1>4. CASE Select
  BY <1>1, <1>4 DEF Select, Eligible, TypeOK, roster, dashboard, syncs,
                         operator, history
<1>5. CASE Miss
  BY <1>1, <1>5 DEF Miss, TypeOK, roster, dashboard, syncs, operator, history
<1>6. CASE Succeed
  <2>1. now \in Nat /\ now + Cooldown \in Nat
    BY CooldownAssumption DEF TypeOK
  <2>2. /\ status' \in [Orgs -> RosterStatuses]
        /\ until' \in [Orgs -> Nat]
        /\ lastBuy' \in [Orgs -> Nat]
        /\ cleared' \in [Orgs -> BOOLEAN]
    BY <1>6, <2>1 DEF Succeed, TypeOK, RosterStatuses
  <2>3. /\ stage' = "refresh"
        /\ UNCHANGED <<now, position, rank, autoBuy, dashboard, picked, syncs,
                       operator, edits, stale>>
    BY <1>6 DEF Succeed
  <2> QED
    BY <1>1, <2>2, <2>3 DEF TypeOK, dashboard, syncs, operator
<1>7. CASE CooledPositions
  <2>1. Refresh
    BY <1>7 DEF CooledPositions
  <2> QED
    BY <1>1, <1>7, <2>1, RefreshTypes DEF CooledPositions, TypeOK, dashboard,
                                        syncs, operator
<1>8. CASE MirrorCooldown
  BY <1>1, <1>8 DEF MirrorCooldown, TypeOK, roster, syncs, operator, history
<1>9. CASE Decline
  BY <1>1, <1>9 DEF Decline, TypeOK, dashboard, syncs, operator, history
<1>10. CASE Unlist
  BY <1>1, <1>10 DEF Unlist, TypeOK, roster, syncs, operator, history
<1>11. CASE WalkDies
  BY <1>1, <1>11 DEF WalkDies, TypeOK, roster, dashboard, syncs, operator, history
<1> QED
  BY <1>2, <1>3, <1>4, <1>5, <1>6, <1>7, <1>8, <1>9, <1>10, <1>11 DEF Walk

\* A sync's steps keep the types; that its write finds rows it has read is
\* what makes the roster's columns well typed.
LEMMA SyncTypes ==
  ASSUME TypeInv, NEW s \in Syncers, Sync(s)
  PROVE  TypeInv'
<1> USE DEF TypeInv
<1>1. CASE SyncRead(s)
  <2>1. [rows |-> DashboardRows, at |-> now] \in Snapshots
    BY DEF DashboardRows, Rows, Snapshots, TypeOK
  <2>2. snapshot' \in [Syncers -> {NoRows} \cup Snapshots]
    BY <1>1, <2>1 DEF SyncRead, TypeOK, Snapshots, Rows
  <2>3. sync' \in [Syncers -> {"idle", "read", "write", "positions"}]
    BY <1>1 DEF SyncRead, TypeOK
  <2>4. HasRead'
    BY <1>1, <2>1 DEF SyncRead, HasRead, TypeOK, Snapshots, Rows
  <2>5. TypeOK'
    BY <1>1, <2>2, <2>3 DEF SyncRead, TypeOK, Snapshots, Rows, roster, dashboard,
                             walk, operator, history
  <2> QED
    BY <2>4, <2>5
<1>2. CASE SyncCommits(s)
  <2>1. snapshot[s] \in Snapshots
    BY <1>2 DEF SyncCommits, HasRead
  <2>2. status' \in [Orgs -> RosterStatuses]
    BY <1>2 DEF SyncCommits, Accepted, SyncedStatus, RosterStatuses
  <2>3. rank' \in [Orgs -> Nat]
    BY <1>2, <2>1 DEF SyncCommits, Snapshots, Rows
  <2>4. autoBuy' \in [Orgs -> BOOLEAN]
    BY <1>2 DEF SyncCommits
  <2>5. HasRead'
    BY <1>2 DEF SyncCommits, HasRead, TypeOK, Snapshots, Rows
  <2>6. /\ sync' \in [Syncers -> {"idle", "read", "write", "positions"}]
        /\ snapshot' \in [Syncers -> {NoRows} \cup Snapshots]
        /\ stale' \subseteq Orgs
    BY <1>2 DEF SyncCommits, NoteStale, TypeOK, Snapshots, Rows
  <2>7. UNCHANGED <<now, until, lastBuy, position, dashboard, walk, operator, edits,
                    cleared>>
    BY <1>2 DEF SyncCommits
  <2>8. TypeOK'
    BY <2>2, <2>3, <2>4, <2>6, <2>7 DEF TypeOK, Snapshots, Rows, dashboard,
                                        walk, operator
  <2> QED
    BY <2>5, <2>8
<1>3. CASE SyncAborts(s)
  BY <1>3 DEF SyncAborts, HasRead, TypeOK, Snapshots, Rows, roster, dashboard,
              walk, operator, history
<1>4. CASE SyncPositions(s)
  <2>1. Refresh
    BY <1>4 DEF SyncPositions
  <2>2. HasRead'
    BY <1>4 DEF SyncPositions, HasRead, TypeOK, Snapshots, Rows
  <2> QED
    BY <1>4, <2>1, <2>2, RefreshTypes DEF SyncPositions, TypeOK, dashboard,
       walk, operator
<1> QED
  BY <1>1, <1>2, <1>3, <1>4 DEF Sync

\* So do the edits of QuickBeed and the operator.
LEMMA EditTypes == TypeInv /\ Edits => TypeInv'
<1> SUFFICES ASSUME TypeInv, Edits PROVE TypeInv'
  OBVIOUS
<1> USE DEF TypeInv
<1>1. ASSUME NEW o \in Orgs, SetStatus(o) PROVE TypeInv'
  <2>1. qb' \in [Orgs -> AllQbStatuses]
    BY <1>1, StatusesAssumption DEF SetStatus, TypeOK
  <2> QED
    BY <1>1, <2>1 DEF SetStatus, Edit, HasRead, TypeOK, roster, walk, syncs,
                        operator, history
<1>2. ASSUME NEW o \in Orgs, ToggleRotation(o) PROVE TypeInv'
  BY <1>2 DEF ToggleRotation, StartSync, Edit, HasRead, TypeOK, Syncers, roster,
              walk, operator, history, Snapshots, Rows
<1>3. ASSUME NEW o \in Orgs, ClearCooldown(o) PROVE TypeInv'
  BY <1>3 DEF ClearCooldown, Edit, HasRead, TypeOK, roster, walk, syncs, history
<1>4. ASSUME NEW o \in Orgs, ClearRoster(o) PROVE TypeInv'
  <2>1. /\ until' \in [Orgs -> Nat]
        /\ status' \in [Orgs -> RosterStatuses]
        /\ cleared' \in [Orgs -> BOOLEAN]
    <3>1. CASE UNCHANGED <<until, status, cleared>>
      BY <3>1 DEF TypeOK
    <3>2. CASE /\ until' = [until EXCEPT ![o] = None]
               /\ status' = [status EXCEPT ![o] = IF @ = "cooldown" THEN "active" ELSE @]
               /\ cleared' = [cleared EXCEPT ![o] = TRUE]
      BY <3>2 DEF TypeOK, RosterStatuses, None
    <3> QED
      BY <1>4, <3>1, <3>2 DEF ClearRoster
  <2>2. clearing' \subseteq Orgs /\ stale' \subseteq Orgs
    BY <1>4 DEF ClearRoster, NoteStale, TypeOK
  <2>3. UNCHANGED <<now, lastBuy, position, rank, autoBuy, dashboard, walk, syncs,
                    cli, edits>>
    BY <1>4 DEF ClearRoster
  <2> QED
    BY <2>1, <2>2, <2>3 DEF HasRead, TypeOK, dashboard, walk, syncs
<1>5. ASSUME NEW o \in Orgs, ReleaseCooldown(o) PROVE TypeInv'
  BY <1>5 DEF ReleaseCooldown, NoteStale, Edit, HasRead, TypeOK, dashboard,
              walk, syncs, RosterStatuses, None
<1>6. ASSUME NEW order \in Rankings, Reorder(order) PROVE TypeInv'
  <2>1. order \in [Orgs -> Nat]
    BY RankingsAssumption
  <2> QED
    BY <1>6, <2>1 DEF Reorder, StartSync, Edit, HasRead, TypeOK, Syncers,
                      roster, walk, operator, history,
                      Snapshots, Rows
<1>7. CASE ReleasePositions
  <2>1. Refresh
    BY <1>7 DEF ReleasePositions
  <2> QED
    BY <1>7, <2>1, RefreshTypes DEF ReleasePositions, HasRead, TypeOK,
       dashboard, walk, syncs
<1> QED
  BY <1>1, <1>2, <1>3, <1>4, <1>5, <1>6, <1>7 DEF Edits

LEMMA StepTypes == TypeInv /\ [Next]_vars => TypeInv'
<1> SUFFICES ASSUME TypeInv, [Next]_vars PROVE TypeInv'
  OBVIOUS
<1>1. CASE Walk
  BY <1>1, WalkTypes
<1>2. ASSUME NEW s \in Syncers, Sync(s) PROVE TypeInv'
  BY <1>2, SyncTypes
<1>3. CASE Edits
  BY <1>3, EditTypes
<1>4. CASE Tick
  BY <1>4 DEF Tick, TypeInv, HasRead, TypeOK, roster, dashboard, walk, syncs,
              operator, history
<1>5. CASE UNCHANGED vars
  BY <1>5 DEF vars, TypeInv, HasRead, TypeOK, roster, dashboard, walk, syncs,
              operator, history
<1> QED
  BY <1>1, <1>2, <1>3, <1>4, <1>5 DEF Next

\* Every column of both databases keeps its type.  In particular no sync puts
\* a status into the roster that its CHECK refuses, and none writes before it
\* has read (sync_to_roster).
THEOREM TypeCorrect == Spec => []TypeOK
<1>1. TypeInv => TypeOK
  BY DEF TypeInv
<1> QED
  BY InitTypes, StepTypes, <1>1, PTL DEF Spec

-----------------------------------------------------------------------------
(* The order of the queue.                                                  *)

\* A recomputation puts all active orgs in order.
LEMMA RefreshOrders ==
  ASSUME TypeOK, Refresh
  PROVE  PositionsAreLRU'
<1>1. PICK p \in Orderings(Active, lastBuy) :
        position' = [o \in Orgs |-> IF o \in Active THEN p[o] ELSE position[o]]
  BY DEF Refresh
<1>2. UNCHANGED <<status, lastBuy>>
  BY DEF Refresh
<1>3. Active' = Active
  BY <1>2 DEF Active
<1>4. ASSUME NEW a \in Active, NEW b \in Active, lastBuy[a] < lastBuy[b]
      PROVE  position'[a] < position'[b]
  <2>1. p[a] < p[b]
    BY <1>4 DEF Orderings
  <2> QED
    BY <1>1, <2>1 DEF Active
<1> QED
  BY <1>2, <1>3, <1>4 DEF PositionsAreLRU

\* A commit that leaves purchases and positions alone keeps the order: it may
\* make orgs active, and notes them as stale.
LEMMA ActivationKeepsOrder ==
  ASSUME TypeOK, PositionsAreLRU, NoteStale, UNCHANGED <<lastBuy, position>>
  PROVE  PositionsAreLRU'
<1>1. Active' \ stale' \subseteq Active \ stale
  BY DEF Active, NoteStale
<1> QED
  BY <1>1 DEF PositionsAreLRU

LEMMA OtherStepsKeepOrder ==
  ASSUME PositionsAreLRU, UNCHANGED <<status, lastBuy, position, stale>>
  PROVE  PositionsAreLRU'
BY DEF PositionsAreLRU, Active

LEMMA StepOrder == TypeOK /\ PositionsAreLRU /\ [Next]_vars => PositionsAreLRU'
<1> SUFFICES ASSUME TypeOK, PositionsAreLRU, [Next]_vars PROVE PositionsAreLRU'
  OBVIOUS
<1>1. CASE Walk
  <2>1. CASE Sweep
    BY <2>1, ActivationKeepsOrder DEF Sweep
  <2>2. CASE SweepPositions \/ CooledPositions
    BY <2>2, RefreshOrders DEF SweepPositions, CooledPositions
  <2>3. CASE Succeed
    <3>1. Active' \subseteq Active \ {picked}
      BY <2>3 DEF Succeed, Active, TypeOK
    <3>2. \A o \in Active' : lastBuy'[o] = lastBuy[o]
      BY <2>3, <3>1 DEF Succeed, Active, TypeOK
    <3>3. UNCHANGED <<position, stale>>
      BY <2>3 DEF Succeed
    <3> QED
      BY <3>1, <3>2, <3>3 DEF PositionsAreLRU
  <2>4. CASE Select \/ Miss \/ MirrorCooldown \/ Decline \/ Unlist \/ WalkDies
    BY <2>4, OtherStepsKeepOrder
    DEF Select, Miss, MirrorCooldown, Decline, Unlist, WalkDies, roster, history
  <2> QED
    BY <1>1, <2>1, <2>2, <2>3, <2>4 DEF Walk
<1>2. ASSUME NEW s \in Syncers, Sync(s) PROVE PositionsAreLRU'
  <2>1. CASE SyncCommits(s)
    BY <2>1, ActivationKeepsOrder DEF SyncCommits
  <2>2. CASE SyncPositions(s)
    BY <2>2, RefreshOrders DEF SyncPositions
  <2>3. CASE SyncRead(s) \/ SyncAborts(s)
    BY <2>3, OtherStepsKeepOrder DEF SyncRead, SyncAborts, roster, history
  <2> QED
    BY <1>2, <2>1, <2>2, <2>3 DEF Sync
<1>3. CASE Edits
  <2>1. ASSUME NEW o \in Orgs, ClearRoster(o) \/ ReleaseCooldown(o)
        PROVE  PositionsAreLRU'
    BY <2>1, ActivationKeepsOrder DEF ClearRoster, ReleaseCooldown
  <2>2. ASSUME NEW o \in Orgs,
               SetStatus(o) \/ ToggleRotation(o) \/ ClearCooldown(o)
        PROVE  PositionsAreLRU'
    BY <2>2, OtherStepsKeepOrder
    DEF SetStatus, ToggleRotation, ClearCooldown, roster, history
  <2>3. ASSUME NEW order \in Rankings, Reorder(order) PROVE PositionsAreLRU'
    BY <2>3, OtherStepsKeepOrder DEF Reorder, roster, history
  <2>4. CASE ReleasePositions
    BY <2>4, RefreshOrders DEF ReleasePositions
  <2> QED
    BY <1>3, <2>1, <2>2, <2>3, <2>4 DEF Edits
<1>4. CASE Tick \/ UNCHANGED vars
  BY <1>4, OtherStepsKeepOrder DEF Tick, vars, roster, history
<1> QED
  BY <1>1, <1>2, <1>3, <1>4 DEF Next

\* The queue is least-recently-bought first among the orgs that were active
\* when the positions were last recomputed, whatever sweeps, syncs, releases
\* and purchases interleave (assign_queue_positions and its callers).
THEOREM QueueIsLRU == Spec => []PositionsAreLRU
<1>1. Init => PositionsAreLRU
  BY DEF Init, PositionsAreLRU, Active, None
<1> QED
  BY <1>1, TypeCorrect, StepOrder, PTL DEF Spec

-----------------------------------------------------------------------------
(* The spacing of purchases.                                                *)

\* The cooldown of an org whose last purchase is recent, unless somebody
\* lifted it.
Resting(o) == ~cleared[o] /\ lastBuy[o] # None /\ now <= lastBuy[o] + Cooldown

\* A resting org's date stands in the roster, and the walk that is about to buy
\* picked an org that rests no longer.  Dates in between, a status that says
\* otherwise and stale snapshots do not matter: the date alone decides.
DateStands == \A o \in Orgs : Resting(o) => until[o] = lastBuy[o] + Cooldown
ReadyToBuy == stage = "buy" => picked \in Orgs /\ ~Resting(picked)

SpacingInv == TypeOK /\ DateStands /\ ReadyToBuy

LEMMA StepSpacing == SpacingInv /\ TypeOK' /\ [Next]_vars => SpacingInv'
<1> SUFFICES ASSUME SpacingInv, TypeOK', [Next]_vars
             PROVE  DateStands' /\ ReadyToBuy'
  BY DEF SpacingInv
<1>t. /\ now \in Nat /\ now' \in Nat /\ Cooldown \in Nat \ {0}
      /\ lastBuy \in [Orgs -> Nat] /\ until \in [Orgs -> Nat]
      /\ cleared \in [Orgs -> BOOLEAN]
  BY CooldownAssumption DEF SpacingInv, TypeOK
\* Commits that leave the dates, the purchases and the walk alone.
<1>a. ASSUME UNCHANGED <<now, until, lastBuy, cleared, stage, picked>>
      PROVE  DateStands' /\ ReadyToBuy'
  BY <1>a DEF SpacingInv, DateStands, ReadyToBuy, Resting
\* Steps of the walk that do not end in "buy" and leave the dates alone.
<1>b. ASSUME UNCHANGED <<now, until, lastBuy, cleared>>, stage' # "buy"
      PROVE  DateStands' /\ ReadyToBuy'
  BY <1>b DEF SpacingInv, DateStands, ReadyToBuy, Resting
\* A cooldown lifted by hand.
<1>c. ASSUME NEW o \in Orgs, ClearRoster(o) \/ ReleaseCooldown(o)
      PROVE  DateStands' /\ ReadyToBuy'
  <2>0. CASE UNCHANGED <<until, status, cleared>> /\ ClearRoster(o)
    BY <1>a, <2>0 DEF ClearRoster, walk
  <2>1. CASE /\ cleared' = [cleared EXCEPT ![o] = TRUE]
             /\ until' = [until EXCEPT ![o] = None]
             /\ UNCHANGED <<now, lastBuy, stage, picked>>
    <3>1. \A p \in Orgs : Resting(p)' => Resting(p) /\ p # o
      BY <2>1, <1>t DEF Resting
    <3>2. DateStands'
      BY <2>1, <3>1, <1>t DEF SpacingInv, DateStands, Resting
    <3>3. ReadyToBuy'
      BY <2>1, <3>1 DEF SpacingInv, ReadyToBuy
    <3> QED
      BY <3>2, <3>3
  <2> QED
    BY <1>c, <2>0, <2>1 DEF ClearRoster, ReleaseCooldown, walk
<1>1. CASE Walk
  <2>1. CASE Sweep
    <3>1. \A o \in Orgs : Resting(o) => until'[o] = until[o]
      BY <2>1, <1>t DEF Sweep, Expired, SpacingInv, DateStands, Resting
    <3> QED
      BY <2>1, <3>1 DEF Sweep, SpacingInv, DateStands, ReadyToBuy, Resting
  <2>2. CASE Select
    <3>1. UNCHANGED <<now, until, lastBuy, cleared>>
      BY <2>2 DEF Select, roster, history
    <3>2. stage' = "buy" => picked' \in Eligible
      BY <2>2 DEF Select
    <3>3. \A o \in Eligible : o \in Orgs /\ ~Resting(o)
      BY <1>t DEF Eligible, Resting, SpacingInv, DateStands, None
    <3> QED
      BY <3>1, <3>2, <3>3 DEF SpacingInv, DateStands, ReadyToBuy, Resting
  <2>3. CASE Succeed
    <3>1. /\ until' = [until EXCEPT ![picked] = now + Cooldown]
          /\ lastBuy' = [lastBuy EXCEPT ![picked] = now]
          /\ cleared' = [cleared EXCEPT ![picked] = FALSE]
          /\ now' = now /\ stage' = "refresh"
      BY <2>3 DEF Succeed
    <3>2. ASSUME NEW o \in Orgs, Resting(o)'
          PROVE  until'[o] = lastBuy'[o] + Cooldown
      <4>1. CASE o = picked
        BY <3>1, <4>1, <1>t
      <4>2. CASE o # picked
        BY <3>1, <3>2, <4>2, <1>t DEF SpacingInv, DateStands, Resting
      <4> QED
        BY <4>1, <4>2
    <3> QED
      BY <3>1, <3>2 DEF DateStands, ReadyToBuy
  <2>4. CASE \/ SweepPositions \/ Miss \/ CooledPositions \/ MirrorCooldown
             \/ Decline \/ Unlist \/ WalkDies
    <3>1. UNCHANGED <<now, until, lastBuy, cleared>> /\ stage' # "buy"
      BY <2>4 DEF SweepPositions, Miss, CooledPositions, MirrorCooldown, Decline,
                  Unlist, WalkDies, Refresh, roster, history
    <3> QED
      BY <3>1, <1>b
  <2> QED
    BY <1>1, <2>1, <2>2, <2>3, <2>4 DEF Walk
<1>2. ASSUME NEW s \in Syncers, Sync(s) PROVE DateStands' /\ ReadyToBuy'
  <2>1. UNCHANGED <<now, until, lastBuy, cleared, stage, picked>>
    BY <1>2 DEF Sync, SyncRead, SyncCommits, SyncAborts, SyncPositions, Refresh,
                roster, history, walk
  <2> QED
    BY <2>1, <1>a
<1>3. CASE Edits
  <2>1. ASSUME NEW o \in Orgs,
               SetStatus(o) \/ ToggleRotation(o) \/ ClearCooldown(o)
        PROVE  UNCHANGED <<now, until, lastBuy, cleared, stage, picked>>
    BY <2>1 DEF SetStatus, ToggleRotation, ClearCooldown, roster, history, walk
  <2>2. ASSUME NEW order \in Rankings, Reorder(order)
        PROVE  UNCHANGED <<now, until, lastBuy, cleared, stage, picked>>
    BY <2>2 DEF Reorder, roster, history, walk
  <2>3. CASE ReleasePositions
    BY <2>3, <1>a DEF ReleasePositions, Refresh, walk
  <2> QED
    BY <1>3, <1>a, <1>c, <2>1, <2>2, <2>3 DEF Edits
<1>4. CASE Tick
  <2>1. now' = now + 1 /\ UNCHANGED <<until, lastBuy, cleared, stage, picked>>
    BY <1>4 DEF Tick, roster, history, walk
  <2>2. \A o \in Orgs : Resting(o)' => Resting(o)
    BY <2>1, <1>t DEF Resting
  <2> QED
    BY <2>1, <2>2 DEF SpacingInv, DateStands, ReadyToBuy, Resting
<1>5. CASE UNCHANGED vars
  BY <1>5, <1>a DEF vars, roster, history, walk
<1> QED
  BY <1>1, <1>2, <1>3, <1>4, <1>5 DEF Next

\* Two purchases of one org lie more than the cooldown apart unless somebody
\* lifted the cooldown in between, whatever syncs from old snapshots, sweeps,
\* crashes of the walk and edits interleave (find_next_available_org,
\* apply_cooldown, release_expired_cooldowns and sync_to_roster together).
THEOREM CooldownIsKept == Spec => SpacedPurchases
<1>1. Init => DateStands /\ ReadyToBuy
  BY DEF Init, DateStands, ReadyToBuy, Resting, None
<1>2. SpacingInv =>
        \A o \in Orgs :
          (/\ stage = "buy" /\ stage' = "refresh" /\ picked = o
           /\ lastBuy[o] # None /\ ~cleared[o])
             => now > lastBuy[o] + Cooldown
  BY CooldownAssumption DEF SpacingInv, TypeOK, ReadyToBuy, Resting
<1>3. Init /\ TypeOK => SpacingInv
  BY <1>1 DEF SpacingInv
<1> QED
  BY <1>2, <1>3, TypeCorrect, StepSpacing, PTL DEF Spec, SpacedPurchases
=============================================================================
