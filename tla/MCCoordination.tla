---------------------------- MODULE MCCoordination ----------------------------
(* Instances of Coordination: the commands that settle the clarification   *)
(* or hand it to another agent.                                            *)
EXTENDS Coordination

Settling == {"resolve", "reroute"}
=============================================================================
