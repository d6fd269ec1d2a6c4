--------------------------- MODULE MCAutonomous ---------------------------
(* Instances of Autonomous.                                                *)
EXTENDS Autonomous
LaneWaves == 1..2
LaneDesigns == {1}
LaneReconcilers == {"loop", "launcher", "operator"}
=============================================================================
