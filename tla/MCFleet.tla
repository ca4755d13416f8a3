------------------------------- MODULE MCFleet -------------------------------
(* Supervision for TLC: a truck, a waiting customer, every engine.         *)
EXTENDS Supervision

CONSTANTS t1, c1, nobody

(* With nothing to buy, two faults; one beside the purchases.              *)
Faults == [e \in EngineModes |-> IF e = "idle" THEN 2 ELSE 1]
=============================================================================
