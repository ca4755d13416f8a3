------------------------- MODULE OrderVerifierProofs -------------------------
(***************************************************************************)
(* The order verifier for any number of attempts and concurrent calls, any *)
(* days and any skew between the two clocks.  The pairing by date is a     *)
(* loop over the rows; what it computes is proved by induction over its    *)
(* rounds, in the form of a least counterexample: the library states the   *)
(* induction principle with an operator parameter, and the least element   *)
(* of a set of numbers (WFMin) without.                                    *)
(***************************************************************************)
EXTENDS OrderVerifier, FiniteSetTheorems, WellFoundedInduction, TLAPS

(* A set of natural numbers that is not empty has a least element.         *)
LEMMA LeastElement ==
  ASSUME NEW T \in SUBSET Nat, T # {}
  PROVE  \E m \in T : \A k \in Nat : k < m => k \notin T
<1>1. \E m \in T : \A k \in T : ~(<<k, m>> \in OpToRel(<, Nat))
  BY NatLessThanWellFounded, WFMin
<1>2. PICK m \in T : \A k \in T : ~(<<k, m>> \in OpToRel(<, Nat))
  BY <1>1
<1>3. ASSUME NEW k \in Nat, k < m PROVE k \notin T
  <2>1. <<k, m>> \in OpToRel(<, Nat)
    BY <1>3 DEF OpToRel
  <2> QED
    BY <1>2, <2>1
<1> QED
  BY <1>3

(* What holds at the start and is kept from one number to the next holds of *)
(* all numbers up to a bound.                                              *)
LEMMA Induction ==
  ASSUME NEW last \in Nat, NEW Good \in SUBSET Nat, 0 \in Good,
         \A n \in 1 .. last : n - 1 \in Good => n \in Good
  PROVE  \A n \in 0 .. last : n \in Good
<1> DEFINE Bad == {n \in 0 .. last : n \notin Good}
<1>1. SUFFICES ASSUME Bad # {} PROVE FALSE
  OBVIOUS
<1>2. Bad \in SUBSET Nat
  OBVIOUS
<1>3. \E m \in Bad : \A k \in Nat : k < m => k \notin Bad
  <2> HIDE DEF Bad
  <2> QED
    BY <1>1, <1>2, LeastElement
<1>4. PICK m \in Bad : \A k \in Nat : k < m => k \notin Bad
  BY <1>3
<1>5. m \in 1 .. last /\ m - 1 \in 0 .. last
  BY <1>4
<1>6. m - 1 \in Good
  BY <1>4, <1>5
<1> QED
  BY <1>4, <1>5, <1>6

-----------------------------------------------------------------------------
(* The pairing.                                                            *)

Last == 2 * Cardinality(Attempts)

(* The recursive function inside DatePairs.                                *)
Pairs(s) ==
  CHOOSE After : After = [n \in 0 .. Last |->
                            IF n = 0 THEN {} ELSE Round(s, After[n - 1], n)]

LEMMA LastIsNat == Last \in Nat
  BY AttemptsAssumption, FS_CardinalityType DEF Last

(* The loop has a result: each round has one before it to start from.      *)
LEMMA PairsByRound ==
  ASSUME NEW s
  PROVE  /\ DatePairs(s) = Pairs(s)[Last]
         /\ Pairs(s)[0] = {}
         /\ \A n \in 1 .. Last : Pairs(s)[n] = Round(s, Pairs(s)[n - 1], n)
<1> DEFINE Loop(g, n) == g = [i \in 0 .. n |-> IF i = 0 THEN {} ELSE Round(s, g[i - 1], i)]
           Good == {n \in Nat : \E g : Loop(g, n)}
<1>1. 0 \in Good
  <2>1. Loop([i \in 0 .. 0 |-> {}], 0)
    OBVIOUS
  <2> QED
    BY <2>1
<1>2. ASSUME NEW n \in 1 .. Last, n - 1 \in Good PROVE n \in Good
  <2>1. PICK g : Loop(g, n - 1)
    BY <1>2
  <2> DEFINE h == [i \in 0 .. n |-> IF i = n THEN Round(s, g[n - 1], n) ELSE g[i]]
  <2>2. n \in Nat /\ n # 0
    BY LastIsNat
  <2>3. ASSUME NEW i \in 0 .. n
        PROVE  h[i] = IF i = 0 THEN {} ELSE Round(s, h[i - 1], i)
    <3>1. CASE i = n
      BY <2>2, <3>1
    <3>2. CASE i # n
      <4>1. i \in 0 .. n - 1 /\ h[i] = g[i] /\ (i # 0 => h[i - 1] = g[i - 1])
        BY <2>2, <3>2
      <4>2. g[i] = IF i = 0 THEN {} ELSE Round(s, g[i - 1], i)
        BY <2>1, <4>1
      <4> QED
        BY <4>1, <4>2
    <3> QED
      BY <3>1, <3>2
  <2>4. Loop(h, n)
    BY <2>3
  <2> QED
    BY <2>2, <2>4
<1>3. Last \in Good
  <2>1. Good \in SUBSET Nat
    OBVIOUS
  <2>2. \A n \in 1 .. Last : n - 1 \in Good => n \in Good
    BY <1>2
  <2> HIDE DEF Good
  <2>3. \A n \in 0 .. Last : n \in Good
    BY <1>1, <2>1, <2>2, LastIsNat, Induction
  <2> QED
    BY <2>3, LastIsNat
<1>4. Loop(Pairs(s), Last)
  BY <1>3 DEF Pairs
<1>5. DatePairs(s) = Pairs(s)[Last]
  BY DEF DatePairs, Pairs, Last
<1>6. ASSUME NEW n \in 0 .. Last
      PROVE  Pairs(s)[n] = IF n = 0 THEN {} ELSE Round(s, Pairs(s)[n - 1], n)
  BY <1>4
<1>7. 0 \in 0 .. Last /\ \A n \in 1 .. Last : n \in 0 .. Last /\ n # 0
  BY LastIsNat
<1> QED
  BY <1>5, <1>6, <1>7

LEMMA AttemptIds == \A a \in Attempts : a \in Nat /\ a # Unbooked /\ a # Evidence
  BY AttemptsAssumption, FS_CardinalityType DEF Unbooked, Evidence

Free(s) == site[s] \ Claimed(s)

(* An attempt whose own order is free, and dated on its day.               *)
Dated(s) == {a \in Pending(s) : a \in Free(s) /\ orderDay[a] = day[a]}

(* What the pairs of any round are: rows that wait with orders nobody       *)
(* claims, none twice, and rows of Dated(s) with nothing but their own.    *)
PairsOk(s, pairs) ==
  /\ pairs \subseteq Pending(s) \X Free(s)
  /\ \A p, q \in pairs : p[1] = q[1] \/ p[2] = q[2] => p = q
  /\ \A p \in pairs : \A a \in Dated(s) : a \in {p[1], p[2]} => p = <<a, a>>

LEMMA SkewIsNat ==
  ASSUME NEW n \in 1 .. Last
  PROVE  (n - 1) \div Cardinality(Attempts) \in Nat
<1> DEFINE count == Cardinality(Attempts)
<1>1. count \in Nat /\ count > 0 /\ n - 1 \in Nat
  BY AttemptsAssumption, FS_CardinalityType DEF Last
<1> HIDE DEF count
<1>2. (n - 1) \div count \in Nat
  BY <1>1
<1> QED
  BY <1>2 DEF count

(* One row more.                                                           *)
LEMMA PairedOk ==
  ASSUME TypeOK, NEW s \in Syncs, NEW pairs, PairsOk(s, pairs), NEW a, NEW skew \in Nat
  PROVE  PairsOk(s, Paired(s, pairs, a, skew))
<1> DEFINE left == Free(s) \ {p[2] : p \in pairs}
           pending == Pending(s) \ {p[1] : p \in pairs}
           new == {<<a, o>> : o \in {c \in left : a \in pending
                                         /\ Unambiguous(a, c, left, pending, skew)}}
<1>0. Paired(s, pairs, a, skew) = pairs \cup new
  BY DEF Paired, Free
<1>1. \A p \in new : \E o \in left : /\ p = <<a, o>> /\ a \in pending
                                   /\ Unambiguous(a, o, left, pending, skew)
  OBVIOUS
<1> HIDE DEF new
<1>2. \A p, q \in new : p = q
  BY <1>1 DEF Unambiguous
<1>3. ASSUME NEW p \in new, NEW x \in Dated(s), x \in {p[1], p[2]}
      PROVE  p = <<x, x>>
  <2>1. PICK o \in left : p = <<a, o>> /\ a \in pending
                           /\ Unambiguous(a, o, left, pending, skew)
    BY <1>1
  <2>2. x \in Pending(s) /\ x \in Free(s) /\ Near(x, x, skew)
    BY DEF Dated, Near, Pending, TypeOK
  <2>3. CASE x \in left /\ x \in pending
    BY <1>3, <2>1, <2>2, <2>3 DEF Unambiguous
  <2>4. CASE x \notin left \/ x \notin pending
    <3>1. PICK q \in pairs : x \in {q[1], q[2]}
      BY <2>2, <2>4
    <3>2. q = <<x, x>>
      BY <3>1 DEF PairsOk
    <3> QED
      BY <1>3, <2>1, <3>2
  <2> QED
    BY <2>3, <2>4
<1>4. ASSUME NEW p \in new PROVE p \in Pending(s) \X Free(s)
  <2>1. PICK o \in left : p = <<a, o>> /\ a \in pending
    BY <1>1
  <2> QED
    BY <2>1
<1>5. ASSUME NEW p \in new, NEW q \in pairs PROVE p[1] # q[1] /\ p[2] # q[2]
  <2>1. PICK o \in left : p = <<a, o>> /\ a \in pending
    BY <1>1
  <2>2. q[1] \notin pending /\ q[2] \notin left
    OBVIOUS
  <2> QED
    BY <2>1, <2>2
<1> QED
  BY <1>0, <1>2, <1>3, <1>4, <1>5 DEF PairsOk

(* All rows, twice.                                                        *)
LEMMA DatePairsOk ==
  ASSUME TypeOK, NEW s \in Syncs
  PROVE  PairsOk(s, DatePairs(s))
<1> DEFINE Good == {n \in Nat : PairsOk(s, Pairs(s)[n])}
<1>1. 0 \in Good
  BY PairsByRound DEF PairsOk
<1>2. ASSUME NEW n \in 1 .. Last, n - 1 \in Good PROVE n \in Good
  BY <1>2, LastIsNat, PairsByRound, PairedOk, SkewIsNat DEF Round
<1>3. Good \in SUBSET Nat
  OBVIOUS
<1>4. \A n \in 1 .. Last : n - 1 \in Good => n \in Good
  BY <1>2
<1> HIDE DEF Good
<1>5. \A n \in 0 .. Last : n \in Good
  BY <1>1, <1>3, <1>4, LastIsNat, Induction
<1>6. Last \in Good
  BY <1>5, LastIsNat
<1> QED
  BY <1>6, PairsByRound DEF Good

-----------------------------------------------------------------------------
(* The rows a call holds are older than the database's, and a number, once  *)
(* on a row, is only replaced by a number.                                 *)
NumbersStay ==
  \A s \in Syncs : \A a \in Attempts : rows[s][a].conf \in Attempts => conf[a] \in Attempts

VerifierInv == TypeOK /\ NumbersStay

(* What a write makes of one row.                                          *)
LEMMA WriteOutcome ==
  ASSUME TypeOK, NEW s \in Syncs, Write(s), NEW a \in Attempts
  PROVE  \/ /\ a \in Numbered(s)
            /\ conf'[a] = rows[s][a].conf /\ conf'[a] \in Attempts /\ ~manual'[a]
         \/ /\ a \in Pending(s) /\ <<a, conf'[a]>> \in DatePairs(s)
            /\ conf'[a] \in Free(s) /\ ~manual'[a]
         \/ conf'[a] = conf[a] /\ manual'[a] = manual[a]
<1> DEFINE pairs == DatePairs(s)
           dated == {p[1] : p \in pairs}
<1>1. PairsOk(s, pairs)
  BY DatePairsOk
<1>2. /\ conf'[a] = IF a \in dated THEN (CHOOSE p \in pairs : p[1] = a)[2]
                    ELSE IF a \in Numbered(s) THEN rows[s][a].conf ELSE conf[a]
      /\ manual'[a] = (manual[a] /\ a \notin dated \cup Numbered(s))
  BY DEF Write
<1> HIDE DEF pairs
<1>3. CASE a \in dated
  <2>1. PICK p \in pairs : p[1] = a /\ conf'[a] = p[2]
    BY <1>2, <1>3
  <2>2. p \in Pending(s) \X Free(s)
    BY <1>1, <2>1 DEF PairsOk
  <2>3. <<a, conf'[a]>> \in pairs /\ a \in Pending(s) /\ conf'[a] \in Free(s)
    BY <2>1, <2>2
  <2>4. ~manual'[a]
    BY <1>2, <1>3
  <2> QED
    BY <2>3, <2>4 DEF pairs
<1>4. CASE a \notin dated /\ a \in Numbered(s)
  BY <1>2, <1>4 DEF Numbered, TypeOK
<1>5. CASE a \notin dated /\ a \notin Numbered(s)
  BY <1>2, <1>5 DEF TypeOK
<1> QED
  BY <1>3, <1>4, <1>5

LEMMA VerifierInit == Init => VerifierInv
<1> SUFFICES ASSUME Init PROVE VerifierInv
  OBVIOUS
<1>1. TypeOK
  <2>1. day \in [Attempts -> Days]
    BY DEF Init
  <2>2. PICK skew \in [Attempts -> Skews] : orderDay = [a \in Attempts |-> day[a] - skew[a]]
    BY DEF Init
  <2>3. ASSUME NEW a \in Attempts PROVE day[a] \in Int /\ skew[a] \in Int
    <3>1. day[a] \in Days /\ skew[a] \in Skews
      BY <2>1, <2>2
    <3>2. day[a] \in Nat
      BY <3>1, DaysAssumption
    <3>3. skew[a] \in Int
      BY <3>1, SkewsAssumption
    <3> QED
      BY <3>2, <3>3
  <2>4. orderDay \in [Attempts -> Int]
    BY <2>2, <2>3
  <2> QED
    BY <2>1, <2>4 DEF Init, TypeOK, Confirmations, NoRows, Row
<1>2. NumbersStay
  BY AttemptIds DEF Init, NumbersStay, NoRows
<1> QED
  BY <1>1, <1>2 DEF VerifierInv

LEMMA VerifierStep ==
  ASSUME VerifierInv, [Next]_vars
  PROVE  VerifierInv'
<1> USE DEF VerifierInv, TypeOK, NumbersStay, orders, calls
<1>1. ASSUME NEW a \in Attempts, PlaceOrder(a) PROVE VerifierInv'
  BY <1>1 DEF PlaceOrder
<1>2. ASSUME NEW a \in Attempts, Book(a) PROVE VerifierInv'
  BY <1>2, AttemptIds DEF Book, Confirmations
<1>3. ASSUME NEW a \in Attempts, SetManual(a) PROVE VerifierInv'
  BY <1>3 DEF SetManual
<1>4. ASSUME NEW s \in Syncs, Scrape(s) PROVE VerifierInv'
  BY <1>4 DEF Scrape
<1>5. NoRows \in [Attempts -> Row] /\ \A a \in Attempts : NoRows[a].conf \notin Attempts
  BY AttemptIds DEF NoRows, Row, Confirmations
<1>6. ASSUME NEW s \in Syncs, Fails(s) PROVE VerifierInv'
  BY <1>5, <1>6 DEF Fails
<1>7. ASSUME NEW s \in Syncs, ReadRows(s) PROVE VerifierInv'
  <2>1. Rows \in [Attempts -> Row] /\ \A a \in Attempts : Rows[a].conf = conf[a]
    BY DEF Rows, Row
  <2> QED
    BY <1>7, <2>1 DEF ReadRows
<1>8. ASSUME NEW s \in Syncs, Write(s) PROVE VerifierInv'
  <2>1. \A a \in Attempts : conf'[a] \in Attempts \/ conf'[a] = conf[a]
    BY <1>8, WriteOutcome DEF Free
  <2>2. conf' \in [Attempts -> Confirmations]
    BY <1>8, <2>1 DEF Write, Confirmations
  <2>3. manual' \in [Attempts -> BOOLEAN]
    BY <1>8 DEF Write
  <2>4. TypeOK'
    BY <1>5, <1>8, <2>2, <2>3 DEF Write
  <2>5. NumbersStay'
    BY <1>5, <1>8, <2>1 DEF Write
  <2> QED
    BY <2>4, <2>5
<1>9. CASE UNCHANGED vars
  BY <1>9 DEF vars
<1> QED
  BY <1>1, <1>2, <1>3, <1>4, <1>6, <1>7, <1>8, <1>9 DEF Next

LEMMA VerifierInvariant == Spec => []VerifierInv
  BY VerifierInit, VerifierStep, PTL DEF Spec

(* Rows, numbers and calls stay in their ranges.                           *)
THEOREM TypeCorrect == Spec => []TypeOK
<1>1. VerifierInv => TypeOK
  BY DEF VerifierInv
<1> QED
  BY <1>1, VerifierInvariant, PTL

(* Only a write changes the number or the source of a row, bookings and the *)
(* operator aside.                                                         *)
LEMMA OnlyWriteWrites ==
  ASSUME TypeOK, [Next]_vars, NEW s \in Syncs, Writes(s)
  PROVE  Write(s)
<1>1. ASSUME NEW a \in Attempts, PlaceOrder(a) \/ Book(a) \/ SetManual(a) PROVE FALSE
  BY <1>1 DEF Writes, PlaceOrder, Book, SetManual, calls, TypeOK
<1>2. ASSUME NEW c \in Syncs, Scrape(c) \/ Fails(c) \/ ReadRows(c) PROVE FALSE
  BY <1>2 DEF Writes, Scrape, Fails, ReadRows
<1>3. ASSUME NEW c \in Syncs, Write(c) PROVE c = s
  BY <1>3 DEF Writes, Write, TypeOK
<1>4. CASE UNCHANGED vars
  BY <1>4 DEF Writes, vars
<1> QED
  BY <1>1, <1>2, <1>3, <1>4 DEF Next

(* A call with current rows gives no order to two attempts.                *)
THEOREM DistinctStayDistinct == Spec => OrdersStayDistinct
<1>1. ASSUME VerifierInv, [Next]_vars, NEW s \in Syncs,
             Writes(s), rows[s] = Rows, OneAttemptPerOrder
      PROVE  OneAttemptPerOrder'
  <2>1. TypeOK /\ Write(s)
    BY <1>1, OnlyWriteWrites DEF VerifierInv
  <2>2. \A a \in Attempts : rows[s][a].conf = conf[a]
    BY <1>1 DEF Rows
  <2>3. PairsOk(s, DatePairs(s))
    BY <2>1, DatePairsOk
  <2>4. ASSUME NEW a \in Attempts, conf'[a] # conf[a]
        PROVE  <<a, conf'[a]>> \in DatePairs(s) /\ conf'[a] \in Free(s)
    BY <2>1, <2>2, <2>4, WriteOutcome
  <2>5. \A a, b \in Attempts : conf[b] \in site[s] => conf[b] \notin Free(s)
    BY <2>2 DEF Free, Claimed
  <2>6. ASSUME NEW a \in Attempts, NEW b \in Attempts, conf'[a] = conf'[b],
               conf'[a] \in Attempts, conf'[a] # conf[a]
        PROVE  a = b
    <3>1. conf'[b] # conf[b]
      BY <2>4, <2>5, <2>6 DEF Free
    <3> QED
      BY <2>3, <2>4, <2>6, <3>1 DEF PairsOk
  <2> QED
    BY <1>1, <2>6 DEF OneAttemptPerOrder
<1>2. VerifierInv /\ [Next]_vars =>
       [\A s \in Syncs : Writes(s) /\ rows[s] = Rows /\ OneAttemptPerOrder
                           => OneAttemptPerOrder']_vars
  BY <1>1
<1> QED
  BY <1>2, VerifierInvariant, PTL DEF Spec, OrdersStayDistinct

(* The pairing by date gives an order to the wrong attempt only where the    *)
(* right one was not waiting for it, or the two dates of the order differ.  *)
THEOREM DatesDoNotMistake == Spec => DateMatchIsOwn
<1>1. ASSUME VerifierInv, [Next]_vars, NEW s \in Syncs, Writes(s),
             NEW a \in Attempts, NEW o \in Attempts,
             conf'[a] = o, conf[a] = Evidence, o # a, o \in Pending(s), orderDay[o] = day[o]
      PROVE  FALSE
  <2>1. TypeOK /\ Write(s)
    BY <1>1, OnlyWriteWrites DEF VerifierInv
  <2>2. PairsOk(s, DatePairs(s))
    BY <2>1, DatePairsOk
  <2>3. conf'[a] # conf[a] /\ rows[s][a].conf \notin Attempts
    BY <1>1, AttemptIds DEF VerifierInv, NumbersStay
  <2>4. <<a, o>> \in DatePairs(s) /\ o \in Free(s)
    BY <1>1, <2>1, <2>3, WriteOutcome
  <2>5. o \in Dated(s)
    BY <1>1, <2>4 DEF Dated
  <2>6. <<a, o>> = <<o, o>>
    BY <2>2, <2>4, <2>5 DEF PairsOk
  <2> QED
    BY <1>1, <2>6
<1>2. VerifierInv /\ [Next]_vars =>
       [\A s \in Syncs : Writes(s) =>
          \A a, o \in Attempts :
            conf'[a] = o /\ conf[a] = Evidence /\ o # a
              => o \notin Pending(s) \/ orderDay[o] # day[o]]_vars
  BY <1>1
<1> QED
  BY <1>2, VerifierInvariant, PTL DEF Spec, DateMatchIsOwn
=============================================================================
