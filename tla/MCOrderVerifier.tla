---------------------------- MODULE MCOrderVerifier ----------------------------
(* Two purchases of one customer within three days, two calls at a time;  *)
(* the site's date is that of the daemon or the day before (Eastern time    *)
(* against UTC).                                                           *)
EXTENDS OrderVerifier, TLC
CONSTANTS s1, s2
MCAttempts == 1 .. 2
MCDays == 1 .. 3
EasternTime == {0, 1}
Symmetry == Permutations(Syncs)
=============================================================================
