---------------------------- MODULE MCTelemetry ----------------------------
EXTENDS Telemetry

CONSTANTS p1, p2

TwoProcs    == {p1, p2}
ThreeEvents == 1 .. 3
LastPoison  == {3}
=============================================================================
