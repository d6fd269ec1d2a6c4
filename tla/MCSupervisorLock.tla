-------------------------- MODULE MCSupervisorLock --------------------------
(* Instances of SupervisorLock for TLC: three daemon processes, so that a  *)
(* crashed holder, its successor and a late contender can meet.            *)
EXTENDS SupervisorLock

CONSTANTS d1, d2, d3

ThreeDaemons == {d1, d2, d3}
=============================================================================
