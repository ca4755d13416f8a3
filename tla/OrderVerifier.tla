---------------------------- MODULE OrderVerifier ----------------------------
(***************************************************************************)
(* The order verifier of the dashboard, missioncontrol/order_verifier.py:  *)
(* it scrapes the Order History page of one customer and brings the        *)
(* customer's successful purchase_attempts up to date with it.  A row with *)
(* an order number is matched by that number; a row that only has the      *)
(* daemon's evidence text is paired with an order nobody claims, by date,  *)
(* where the pairing is unambiguous.  A manual row is left alone by a call  *)
(* that read it as one.                                                    *)
(*                                                                         *)
(* The daily run of the monitor and the operator's button come here from   *)
(* several processes: the button takes no lock, and the daily run's lock   *)
(* file counts for fifteen minutes, so calls for one customer overlap.     *)
(* Each scrapes, reads the rows, and writes them in a transaction of its   *)
(* own; meanwhile purchases are booked and the operator sets statuses.     *)
(***************************************************************************)
EXTENDS Integers, FiniteSets

CONSTANTS
  Attempts,   \* ids of the customer's attempts, in the order of their rows;
              \* also the number of the order each of them placed
  Syncs,      \* concurrent calls of verify_customer
  Days,       \* calendar days
  Skews       \* by how many days the site's date lies before completed_at

ASSUME AttemptsAssumption ==
  IsFiniteSet(Attempts) /\ Attempts = 1 .. Cardinality(Attempts)
ASSUME DaysAssumption == Days \subseteq Nat /\ Days # {}
ASSUME SkewsAssumption == Skews \subseteq Int /\ Skews # {}

Unbooked == 0    \* no success on record
Evidence == -1   \* success, with the daemon's evidence text
Confirmations == {Unbooked, Evidence} \cup Attempts

VARIABLES
  day,       \* day[a]: date of completed_at
  orderDay,  \* orderDay[o]: date of order o on the site
  placed,    \* orders on the site
  conf,      \* conf[a]: confirmation_number of a successful attempt
  manual,    \* manual[a]: order_status_source = 'manual'
  stage,     \* stage[s]: where call s is
  site,      \* site[s]: orders s found on the page
  rows       \* rows[s]: confirmation and source of the rows as s read them

orders == <<day, orderDay, placed>>
calls == <<stage, site, rows>>
vars == <<orders, conf, manual, calls>>

Row == [conf : Confirmations, manual : BOOLEAN]
Rows == [a \in Attempts |-> [conf |-> conf[a], manual |-> manual[a]]]
NoRows == [a \in Attempts |-> [conf |-> Unbooked, manual |-> FALSE]]

TypeOK ==
  /\ day \in [Attempts -> Days]
  /\ orderDay \in [Attempts -> Int]
  /\ placed \subseteq Attempts
  /\ conf \in [Attempts -> Confirmations]
  /\ manual \in [Attempts -> BOOLEAN]
  /\ stage \in [Syncs -> {"idle", "read", "write"}]
  /\ site \in [Syncs -> SUBSET Attempts]
  /\ rows \in [Syncs -> [Attempts -> Row]]

(* Later rows are later purchases.                                         *)
Init ==
  /\ day \in {d \in [Attempts -> Days] :
                \A a, b \in Attempts : a < b => d[a] <= d[b]}
  /\ \E skew \in [Attempts -> Skews] :
       orderDay = [a \in Attempts |-> day[a] - skew[a]]
  /\ placed = {}
  /\ conf = [a \in Attempts |-> Unbooked]
  /\ manual = [a \in Attempts |-> FALSE]
  /\ stage = [s \in Syncs |-> "idle"]
  /\ site = [s \in Syncs |-> {}]
  /\ rows = [s \in Syncs |-> NoRows]

-----------------------------------------------------------------------------
(* The engine and the operator.                                            *)

PlaceOrder(a) ==
  /\ a \notin placed
  /\ placed' = placed \cup {a}
  /\ UNCHANGED <<day, orderDay, conf, manual, calls>>

(* The success is recorded with the order number, if the page showed one.   *)
Book(a) ==
  /\ a \in placed /\ conf[a] = Unbooked
  /\ \E c \in {Evidence, a} : conf' = [conf EXCEPT ![a] = c]
  /\ UNCHANGED <<orders, manual, calls>>

(* _set_order_status, on a purchase the dashboard lists.                   *)
SetManual(a) ==
  /\ conf[a] # Unbooked /\ ~manual[a]
  /\ manual' = [manual EXCEPT ![a] = TRUE]
  /\ UNCHANGED <<orders, conf, calls>>

-----------------------------------------------------------------------------
(* verify_customer.                                                        *)

(* The page shows some of the orders; none of use, and sync_rows returns.   *)
Scrape(s) ==
  /\ stage[s] = "idle"
  /\ \E found \in SUBSET placed \ {{}} : site' = [site EXCEPT ![s] = found]
  /\ stage' = [stage EXCEPT ![s] = "read"]
  /\ UNCHANGED <<orders, conf, manual, rows>>

(* No saved session, an expired one, a browser error, a locked database, or *)
(* the thread dies with its process.                                       *)
Fails(s) ==
  /\ stage[s] # "idle"
  /\ stage' = [stage EXCEPT ![s] = "idle"]
  /\ site' = [site EXCEPT ![s] = {}]
  /\ rows' = [rows EXCEPT ![s] = NoRows]
  /\ UNCHANGED <<orders, conf, manual>>

ReadRows(s) ==
  /\ stage[s] = "read"
  /\ rows' = [rows EXCEPT ![s] = Rows]
  /\ stage' = [stage EXCEPT ![s] = "write"]
  /\ UNCHANGED <<orders, conf, manual, site>>

-----------------------------------------------------------------------------
(* The pairing of sync_rows, on the rows and orders it has before it.      *)

(* Slip: the number of a manual row claims nothing. *)
SlipClaimed(s) == {o \in site[s] : \E a \in Attempts : rows[s][a].conf = o
                                                     /\ ~rows[s][a].manual}

(* Orders whose number is on a row, a manual one included.                 *)
Claimed(s) == {o \in site[s] : \E a \in Attempts : rows[s][a].conf = o}

Numbered(s) == {a \in Attempts : rows[s][a].conf \in site[s] /\ ~rows[s][a].manual}

Pending(s) == {a \in Attempts : rows[s][a].conf = Evidence /\ ~rows[s][a].manual}

Near(o, a, skew) == LET d == orderDay[o] - day[a] IN -skew <= d /\ d <= skew

(* Slip: other rows of the day do not matter. *)
SlipUnambiguous(a, o, left, pending, skew) ==
  {c \in left : Near(c, a, skew)} = {o}

(* Exactly one order of left fits a, and no other pending row fits it.     *)
Unambiguous(a, o, left, pending, skew) ==
  /\ {c \in left : Near(c, a, skew)} = {o}
  /\ {p \in pending : Near(o, p, skew)} \subseteq {a}

(* What pairs becomes when row a is looked at with this skew; every pair is *)
(* taken out before the next row.                                          *)
Paired(s, pairs, a, skew) ==
  LET left == (site[s] \ Claimed(s)) \ {p[2] : p \in pairs}
      pending == Pending(s) \ {p[1] : p \in pairs}
  IN pairs \cup {<<a, o>> : o \in {c \in left : a \in pending
                                       /\ Unambiguous(a, c, left, pending, skew)}}

(* Round n of two: each row on the same day, then each within a day.       *)
Round(s, pairs, n) ==
  LET count == Cardinality(Attempts)
  IN Paired(s, pairs, ((n - 1) % count) + 1, (n - 1) \div count)

DatePairs(s) ==
  LET After[n \in 0 .. 2 * Cardinality(Attempts)] ==
        IF n = 0 THEN {} ELSE Round(s, After[n - 1], n)
  IN After[2 * Cardinality(Attempts)]

(* The updates go out by row id, whatever has become of the row since.     *)
Write(s) ==
  /\ stage[s] = "write"
  /\ LET pairs == DatePairs(s)
         dated == {p[1] : p \in pairs}
     IN /\ conf' = [a \in Attempts |->
               IF a \in dated THEN (CHOOSE p \in pairs : p[1] = a)[2]
               ELSE IF a \in Numbered(s) THEN rows[s][a].conf ELSE conf[a]]
        /\ manual' = [a \in Attempts |->
               manual[a] /\ a \notin dated \cup Numbered(s)]
  /\ stage' = [stage EXCEPT ![s] = "idle"]
  /\ site' = [site EXCEPT ![s] = {}]
  /\ rows' = [rows EXCEPT ![s] = NoRows]
  /\ UNCHANGED orders

-----------------------------------------------------------------------------
Next ==
  \/ \E a \in Attempts : PlaceOrder(a) \/ Book(a) \/ SetManual(a)
  \/ \E s \in Syncs : Scrape(s) \/ Fails(s) \/ ReadRows(s) \/ Write(s)

Spec == Init /\ [][Next]_vars

-----------------------------------------------------------------------------
OneAttemptPerOrder ==
  \A a, b \in Attempts : conf[a] = conf[b] /\ conf[a] \in Attempts => a = b

Writes(s) == stage[s] = "write" /\ stage'[s] = "idle" /\ <<conf, manual>>' # <<conf, manual>>

(* A call whose rows are still the rows of the database does not give one   *)
(* order to two attempts, whatever earlier calls have made of the numbers. *)
OrdersStayDistinct ==
  [][\A s \in Syncs : Writes(s) /\ rows[s] = Rows /\ OneAttemptPerOrder
                        => OneAttemptPerOrder']_vars

(* The pairing by date does not mistake one purchase for another: an order  *)
(* only goes to the wrong attempt when its own attempt was not among the    *)
(* rows waiting for one (not booked yet, or manual, or mistaken before), or *)
(* the site dates it on another day than the daemon.                       *)
DateMatchIsOwn ==
  [][\A s \in Syncs : Writes(s) =>
       \A a, o \in Attempts :
         conf'[a] = o /\ conf[a] = Evidence /\ o # a
           => o \notin Pending(s) \/ orderDay[o] # day[o]]_vars

-----------------------------------------------------------------------------
(* What the repository says of the verifier, and the code does not do.     *)

(* "NEVER overwritten" (sync_rows), "Manual always wins" (_set_order_status): *)
(* once the operator has set a status no call makes it automatic again.    *)
ManualWins == [][\A a \in Attempts : manual[a] => manual'[a]]_vars
=============================================================================
