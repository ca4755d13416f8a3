---------------------------- MODULE PurchaseLock ----------------------------
(***************************************************************************)
(* The cross-process purchase lock of src/purchase_lock.py: one advisory   *)
(* flock per truck URL, plus a ".last_attempt" file whose mtime drives a   *)
(* dedup window.  Every checkout, of the browser daemon                    *)
(* (good360_daemon.py, checkout) and of the stand-alone script             *)
(* (good360_autobuy.py), runs inside                                       *)
(*                                                                         *)
(*     with exclusive_purchase_lock(truck_url) as (ok, reason): ...        *)
(*                                                                         *)
(* A caller walks through the generator one system call at a time, so that *)
(* every interleaving of two processes is explored, and its process may    *)
(* die at any of these points (the kernel then drops its flock, but nobody *)
(* touches the mtime).                                                     *)
(*                                                                         *)
(* Definitions named Slip... are plausible slips in the definition that    *)
(* follows them; no behaviour of Spec uses them.  Each makes TLC refute    *)
(* the property PROJECT.json pairs it with.                                *)
(***************************************************************************)
EXTENDS Integers

CONSTANTS Callers,   \* processes (or threads: flock is per open file) that buy
          Keys,      \* truck URLs
          Window,    \* dedup_within_seconds, in ticks of the wall clock
          MaxTime,   \* bound of the clock, for TLC only
          Nobody     \* the flock of a key is free

ASSUME WindowAssumption == Window \in Nat
ASSUME MaxTimeAssumption == MaxTime \in Nat
ASSUME NobodyAssumption == Nobody \notin Callers

VARIABLES
  now,       \* time.time(), in ticks
  holder,    \* holder[k]: which caller's descriptor has the flock of k
  mtime,     \* mtime[k]: mtime of k's .last_attempt file, or Never
  pc,        \* pc[c]: where caller c is in exclusive_purchase_lock
  key,       \* key[c]: the truck URL c is working on
  verdict,   \* verdict[c]: what the generator yielded to c
  began,     \* began[c]: history, when c entered the body of the with
  ended      \* ended[k]: history, when a checkout of k last left its with

vars == <<now, holder, mtime, pc, key, verdict, began, ended>>

Never == -1    \* no .last_attempt file, no checkout ended yet

Stages == {"idle", "opened", "locked", "body", "touch", "unlock"}
Verdicts == {"none", "acquired", "locked_by_other", "dedup"}

TypeOK ==
  /\ now \in Nat
  /\ holder \in [Keys -> Callers \cup {Nobody}]
  /\ mtime \in [Keys -> Nat \cup {Never}]
  /\ pc \in [Callers -> Stages]
  /\ key \in [Callers -> Keys]
  /\ verdict \in [Callers -> Verdicts]
  /\ began \in [Callers -> Nat \cup {Never}]
  /\ ended \in [Keys -> Nat \cup {Never}]

Init ==
  /\ now = 0
  /\ holder = [k \in Keys |-> Nobody]
  /\ mtime = [k \in Keys |-> Never]
  /\ pc = [c \in Callers |-> "idle"]
  /\ key \in [Callers -> Keys]
  /\ verdict = [c \in Callers |-> "none"]
  /\ began = [c \in Callers |-> Never]
  /\ ended = [k \in Keys |-> Never]

-----------------------------------------------------------------------------
(* Slip: the window is one tick short. *)
SlipTooRecent(k) == mtime[k] # Never /\ now - mtime[k] < Window - 1

(* The dedup test: a .last_attempt file younger than the window.           *)
TooRecent(k) == mtime[k] # Never /\ now - mtime[k] < Window

(* The with statement is entered and the lock file opened.                 *)
Open(c, k) ==
  /\ pc[c] = "idle"
  /\ pc' = [pc EXCEPT ![c] = "opened"]
  /\ key' = [key EXCEPT ![c] = k]
  /\ UNCHANGED <<now, holder, mtime, verdict, began, ended>>

(* Slip: a caller gets the flock whoever holds it. *)
SlipTryFlock(c) ==
  /\ pc[c] = "opened"
  /\ \/ /\ TRUE
        /\ holder' = [holder EXCEPT ![key[c]] = c]
        /\ pc' = [pc EXCEPT ![c] = "locked"]
        /\ UNCHANGED verdict
     \/ /\ holder[key[c]] # Nobody
        /\ verdict' = [verdict EXCEPT ![c] = "locked_by_other"]
        /\ pc' = [pc EXCEPT ![c] = "touch"]
        /\ UNCHANGED holder
  /\ UNCHANGED <<now, mtime, key, began, ended>>

(* flock(LOCK_EX | LOCK_NB): taken at once, or refused without waiting.  A  *)
(* refusal returns out of the try, so the finally clause still runs.       *)
TryFlock(c) ==
  /\ pc[c] = "opened"
  /\ \/ /\ holder[key[c]] = Nobody
        /\ holder' = [holder EXCEPT ![key[c]] = c]
        /\ pc' = [pc EXCEPT ![c] = "locked"]
        /\ UNCHANGED verdict
     \/ /\ holder[key[c]] # Nobody
        /\ verdict' = [verdict EXCEPT ![c] = "locked_by_other"]
        /\ pc' = [pc EXCEPT ![c] = "touch"]
        /\ UNCHANGED holder
  /\ UNCHANGED <<now, mtime, key, began, ended>>

(* Step 2, under the flock: refuse a key attempted too recently, else run  *)
(* the body of the with statement.                                         *)
CheckDedup(c) ==
  /\ pc[c] = "locked"
  /\ \/ /\ TooRecent(key[c])
        /\ verdict' = [verdict EXCEPT ![c] = "dedup"]
        /\ pc' = [pc EXCEPT ![c] = "touch"]
        /\ UNCHANGED began
     \/ /\ ~TooRecent(key[c])
        /\ verdict' = [verdict EXCEPT ![c] = "acquired"]
        /\ pc' = [pc EXCEPT ![c] = "body"]
        /\ began' = [began EXCEPT ![c] = now]
  /\ UNCHANGED <<now, holder, mtime, key, ended>>

(* The checkout returns or raises: either way control reaches the finally. *)
LeaveBody(c) ==
  /\ pc[c] = "body"
  /\ pc' = [pc EXCEPT ![c] = "touch"]
  /\ UNCHANGED <<now, holder, mtime, key, verdict, began, ended>>

(* finally: os.utime(last_path) BEFORE the flock is dropped, whatever the  *)
(* generator had yielded.  For the history variable a checkout has ended    *)
(* when its finally clause runs; one cut short by a death has not.         *)
Touch(c) ==
  /\ pc[c] = "touch"
  /\ mtime' = [mtime EXCEPT ![key[c]] = now]
  /\ ended' = IF verdict[c] = "acquired" THEN [ended EXCEPT ![key[c]] = now]
                                         ELSE ended
  /\ pc' = [pc EXCEPT ![c] = "unlock"]
  /\ UNCHANGED <<now, holder, key, verdict, began>>

(* LOCK_UN on c's own descriptor frees the key only if c holds it.         *)
DropFlock(c) ==
  holder' = [holder EXCEPT ![key[c]] = IF @ = c THEN Nobody ELSE @]

(* The generator's frame is gone.                                          *)
Forget(c) ==
  /\ pc' = [pc EXCEPT ![c] = "idle"]
  /\ verdict' = [verdict EXCEPT ![c] = "none"]
  /\ began' = [began EXCEPT ![c] = Never]

(* Slip: the descriptor stays open and locked. *)
SlipUnlock(c) ==
  /\ pc[c] = "unlock"
  /\ UNCHANGED holder
  /\ Forget(c)
  /\ UNCHANGED <<now, mtime, key, ended>>

Unlock(c) ==
  /\ pc[c] = "unlock"
  /\ DropFlock(c)
  /\ Forget(c)
  /\ UNCHANGED <<now, mtime, key, ended>>

(* The process dies; the kernel releases its flock.                        *)
Die(c) ==
  /\ pc[c] # "idle"
  /\ DropFlock(c)
  /\ Forget(c)
  /\ UNCHANGED <<now, mtime, key, ended>>

Tick ==
  /\ now < MaxTime
  /\ now' = now + 1
  /\ UNCHANGED <<holder, mtime, pc, key, verdict, began, ended>>

Step(c) == TryFlock(c) \/ CheckDedup(c) \/ LeaveBody(c) \/ Touch(c) \/ Unlock(c)

Next ==
  \/ \E c \in Callers : Step(c) \/ Die(c) \/ \E k \in Keys : Open(c, k)
  \/ Tick

(* A process that is not dead keeps executing; checkouts end (the daemon's  *)
(* job cap guarantees it), dying and starting another attempt are optional. *)
Fairness == \A c \in Callers : WF_vars(Step(c))

Spec == Init /\ [][Next]_vars /\ Fairness

-----------------------------------------------------------------------------
(* Two checkouts of one truck never overlap, in whatever processes they    *)
(* run: the double charge of purchase_lock.py's docstring, point 1.        *)
MutualExclusion ==
  \A c, d \in Callers :
    pc[c] = "body" /\ pc[d] = "body" /\ key[c] = key[d] => c = d

(* A checkout that starts has left a full window since the previous one of *)
(* the same truck ran to its end, although the mtime is written some steps *)
(* after that end and by any of several processes (docstring, point 2).    *)
SpacedCheckouts ==
  \A c \in Callers :
    pc[c] = "body" /\ ended[key[c]] # Never =>
      began[c] - ended[key[c]] >= Window

(* A flock is never left behind: the caller recorded as its holder is      *)
(* still on its way to the release, so a death cannot wedge a truck.       *)
NoWedgedKey ==
  \A k \in Keys : holder[k] # Nobody =>
    /\ pc[holder[k]] \in {"locked", "body", "touch", "unlock"}
    /\ key[holder[k]] = k

(* An attempt refused because of the flock leaves the winner in place: no  *)
(* step of one caller takes the flock away from another.                   *)
OnlyHolderReleases ==
  [][\A c \in Callers : pc[c] = "body" /\ pc'[c] = "body" =>
       holder'[key[c]] = holder[key[c]]]_vars

(* Whatever the others do, and die doing, a key in use is released.        *)
KeyIsReleased == \A k \in Keys : holder[k] # Nobody ~> holder[k] = Nobody
=============================================================================
