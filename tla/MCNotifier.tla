----------------------------- MODULE MCNotifier -----------------------------
(* Two callers of one process; the first organisation has asked for SMS.   *)
EXTENDS Notifier
CONSTANTS c1, c2, o1, o2
=============================================================================
