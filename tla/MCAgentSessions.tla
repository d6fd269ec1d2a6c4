-------------------------- MODULE MCAgentSessions --------------------------
(* Instances of AgentSessions for TLC: a launcher that may die, and its    *)
(* successor on the lane.                                                  *)
EXTENDS AgentSessions

CONSTANTS l1, l2

TwoLaunchers == {l1, l2}

(* Bound: behaviours are followed up to the first mishap of the lane's     *)
(* lock and beyond one mishap of the sessions, to the second.              *)
OneMishap == laneMishaps = {} /\ Cardinality(mishaps) <= 1
=============================================================================
