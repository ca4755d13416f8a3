---------------------------- MODULE MCRosterQueue ----------------------------
(* Small instances of RosterQueue for TLC. *)
EXTENDS RosterQueue

CONSTANTS o1, o2, r1

MCOrgs == {o1, o2}
OneOrg == {o1}

\* One dashboard request at a time runs a sync beside the poll thread.
OneRequest == {r1}
NoRequest == {}

\* The order the operator drags the only org into, and none at all.
OneRanking == {[o \in OneOrg |-> 1]}
NoRanking == {}

AllButRelease == {"toggle", "reorder", "clear", "status"}
CooldownActs == {"clear", "release", "status"}
OnlyStatus == {"status"}

\* Statuses whose mapped value the roster's CHECK accepts ...
Accepting == {"active", "paused"}
\* ... and one whose mapped value it refuses.
WithInactive == {"active", "inactive"}
BothKinds == {"active", "onboarding", "suspended"}
=============================================================================
