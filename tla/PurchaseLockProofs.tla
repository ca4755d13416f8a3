------------------------- MODULE PurchaseLockProofs -------------------------
(***************************************************************************)
(* The purchase lock, for any number of processes and trucks and any dedup *)
(* window: at most one checkout of a truck at a time, a full window        *)
(* between two checkouts of it, and no flock left behind by a death.       *)
(***************************************************************************)
EXTENDS PurchaseLock, TLAPS

-----------------------------------------------------------------------------
(* The inductive invariant.                                                *)

(* The verdict is known exactly once the caller has been answered.         *)
VerdictFollowsStage ==
  \A c \in Callers :
    /\ pc[c] \in {"idle", "opened", "locked"} => verdict[c] = "none"
    /\ pc[c] = "body" => verdict[c] = "acquired"
    /\ pc[c] \in {"touch", "unlock"} => verdict[c] # "none"

(* Whoever was not refused by the flock itself holds it up to its release. *)
HolderHasFlock ==
  \A c \in Callers :
    \/ pc[c] \in {"locked", "body"}
    \/ pc[c] \in {"touch", "unlock"} /\ verdict[c] # "locked_by_other"
    => holder[key[c]] = c

(* The mtime is at least as late as the end of the last checkout, because  *)
(* it is written before the flock is dropped; neither is in the future.    *)
MtimeCoversEnd ==
  \A k \in Keys : ended[k] # Never =>
    mtime[k] # Never /\ ended[k] <= mtime[k] /\ ended[k] <= now

LockInv ==
  /\ TypeOK
  /\ VerdictFollowsStage
  /\ HolderHasFlock
  /\ NoWedgedKey
  /\ MtimeCoversEnd
  /\ SpacedCheckouts

-----------------------------------------------------------------------------
(* Every step keeps every variable in its range.                           *)
LEMMA TypeStep == TypeOK /\ [Next]_vars => TypeOK'
<1> SUFFICES ASSUME TypeOK, [Next]_vars PROVE TypeOK'
  OBVIOUS
<1> USE WindowAssumption, MaxTimeAssumption, NobodyAssumption
<1> USE DEF TypeOK, Stages, Verdicts, Never
<1>1. ASSUME NEW c \in Callers, NEW k \in Keys, Open(c, k) PROVE TypeOK'
  BY <1>1 DEF Open
<1>2. ASSUME NEW c \in Callers, TryFlock(c) PROVE TypeOK'
  BY <1>2 DEF TryFlock
<1>3. ASSUME NEW c \in Callers, CheckDedup(c) PROVE TypeOK'
  BY <1>3 DEF CheckDedup
<1>4. ASSUME NEW c \in Callers, LeaveBody(c) PROVE TypeOK'
  BY <1>4 DEF LeaveBody
<1>5. ASSUME NEW c \in Callers, Touch(c) PROVE TypeOK'
  BY <1>5 DEF Touch
<1>6. ASSUME NEW c \in Callers, Unlock(c) PROVE TypeOK'
  BY <1>6 DEF Unlock, DropFlock, Forget
<1>7. ASSUME NEW c \in Callers, Die(c) PROVE TypeOK'
  BY <1>7 DEF Die, DropFlock, Forget
<1>8. CASE Tick
  BY <1>8 DEF Tick
<1>9. CASE UNCHANGED vars
  BY <1>9 DEF vars
<1> QED
  BY <1>1, <1>2, <1>3, <1>4, <1>5, <1>6, <1>7, <1>8, <1>9 DEF Next, Step

(* The variables stay in their ranges: the clock counts up in Nat, and a   *)
(* time stamp is Never or a past value of the clock.                       *)
THEOREM TypeCorrect == Spec => []TypeOK
<1>1. Init => TypeOK
  BY NobodyAssumption DEF Init, TypeOK, Stages, Verdicts, Never
<1> QED
  BY <1>1, TypeStep, PTL DEF Spec

(* The invariant holds before any process has opened a lock file.          *)
LEMMA InitLockInv == Init => LockInv
  BY NobodyAssumption
  DEF Init, LockInv, TypeOK, Stages, Verdicts, Never, VerdictFollowsStage,
      HolderHasFlock, NoWedgedKey, MtimeCoversEnd, SpacedCheckouts

(* One step of one caller, or of the clock, preserves it.                  *)
LEMMA StepLockInv == LockInv /\ [Next]_vars => LockInv'
<1> SUFFICES ASSUME LockInv, [Next]_vars, TypeOK' PROVE LockInv'
  BY TypeStep DEF LockInv
<1> USE WindowAssumption, NobodyAssumption
<1> USE DEF LockInv, TypeOK, Stages, Verdicts, Never, VerdictFollowsStage,
            HolderHasFlock, NoWedgedKey, MtimeCoversEnd, SpacedCheckouts
<1>1. ASSUME NEW c \in Callers, NEW k \in Keys, Open(c, k) PROVE LockInv'
  BY <1>1 DEF Open
<1>2. ASSUME NEW c \in Callers, TryFlock(c) PROVE LockInv'
  <2>1. CASE holder[key[c]] = Nobody
    BY <1>2, <2>1 DEF TryFlock
  <2>2. CASE holder[key[c]] # Nobody
    BY <1>2, <2>2 DEF TryFlock
  <2> QED
    BY <2>1, <2>2
<1>3. ASSUME NEW c \in Callers, CheckDedup(c) PROVE LockInv'
  <2>1. CASE TooRecent(key[c])
    BY <1>3, <2>1 DEF CheckDedup
  <2>2. CASE ~TooRecent(key[c])
    (* The mtime is a full window old, and the last end is older still.    *)
    BY <1>3, <2>2 DEF CheckDedup, TooRecent
  <2> QED
    BY <2>1, <2>2
<1>4. ASSUME NEW c \in Callers, LeaveBody(c) PROVE LockInv'
  BY <1>4 DEF LeaveBody
<1>5. ASSUME NEW c \in Callers, Touch(c) PROVE LockInv'
  <2>1. CASE verdict[c] = "acquired"
    (* c holds the flock of its key, so nobody else is in a body over it:  *)
    (* moving ended forward breaks no one's spacing.                       *)
    BY <1>5, <2>1 DEF Touch
  <2>2. CASE verdict[c] # "acquired"
    BY <1>5, <2>2 DEF Touch
  <2> QED
    BY <2>1, <2>2
<1>6. ASSUME NEW c \in Callers, Unlock(c) PROVE LockInv'
  BY <1>6 DEF Unlock, DropFlock, Forget
<1>7. ASSUME NEW c \in Callers, Die(c) PROVE LockInv'
  BY <1>7 DEF Die, DropFlock, Forget
<1>8. CASE Tick
  BY <1>8 DEF Tick
<1>9. CASE UNCHANGED vars
  BY <1>9 DEF vars
<1> QED
  BY <1>1, <1>2, <1>3, <1>4, <1>5, <1>6, <1>7, <1>8, <1>9 DEF Next, Step

(* The strengthened invariant holds in every reachable state.              *)
THEOREM LockInvariant == Spec => []LockInv
  BY InitLockInv, StepLockInv, PTL DEF Spec

-----------------------------------------------------------------------------
(* Two checkouts of one truck never overlap: both would hold its flock.    *)
THEOREM Exclusion == Spec => []MutualExclusion
<1>1. LockInv => MutualExclusion
  BY DEF LockInv, HolderHasFlock, MutualExclusion
<1> QED
  BY <1>1, LockInvariant, PTL

(* A checkout starts at least a window after the previous one of its truck *)
(* ended, although deaths may skip the mtime and refusals may push it on.  *)
THEOREM Spacing == Spec => []SpacedCheckouts
<1>1. LockInv => SpacedCheckouts
  BY DEF LockInv
<1> QED
  BY <1>1, LockInvariant, PTL

(* A flock always belongs to a live caller on its way to the release.      *)
THEOREM NoWedge == Spec => []NoWedgedKey
<1>1. LockInv => NoWedgedKey
  BY DEF LockInv
<1> QED
  BY <1>1, LockInvariant, PTL

(* While a caller is in the body nobody, however refused and however dead, *)
(* takes its flock away.                                                   *)
THEOREM HolderKeepsFlock == Spec => OnlyHolderReleases
<1>1. LockInv /\ LockInv' /\ [Next]_vars =>
      [\A c \in Callers : pc[c] = "body" /\ pc'[c] = "body" =>
         holder'[key[c]] = holder[key[c]]]_vars
  <2> SUFFICES ASSUME LockInv, LockInv', Next, NEW c \in Callers,
                      pc[c] = "body", pc'[c] = "body"
               PROVE  holder'[key[c]] = holder[key[c]]
    BY DEF vars
  <2>1. key'[c] = key[c]
    BY DEF Next, Step, Open, TryFlock, CheckDedup, LeaveBody, Touch, Unlock,
           Die, Tick, LockInv, TypeOK
  <2> QED
    BY <2>1 DEF LockInv, HolderHasFlock
<1> QED
  BY <1>1, LockInvariant, PTL DEF Spec, OnlyHolderReleases
=============================================================================
