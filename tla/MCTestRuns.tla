------------------------------ MODULE MCTestRuns ------------------------------
(* Two users of the daemon or of the master account, of any kind; the one   *)
(* is like the other, and so are the dashboard's worker processes.  No      *)
(* liveness is checked.                                                    *)
EXTENDS TestRuns, TLC
CONSTANTS engine, live, purchase, readiness, agent
MCKeyOf == [k \in Kinds |-> k]
Symmetry == {p @@ q : p \in Permutations(Requests), q \in Permutations(Workers)}
=============================================================================
