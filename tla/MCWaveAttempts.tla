--------------------------- MODULE MCWaveAttempts ---------------------------
(* Instances of WaveAttempts for TLC.                                      *)
EXTENDS WaveAttempts

CONSTANTS d1, a1, a2, E0, A8, A0

OneDesign    == {d1}
OneImpl      == {a1}
TwoImpl      == {a1, a2}
EvalAndQa    == <<E0, A0>>
TwoStages    == <<A8, A0>>
Strict       == Closure
NoGaps       == {}
EvalGaps     == {E0}
Nothing      == {}
Requests     == Externals
NoEvidence   == {"none"}
SomePassed   == {"none", "ok"}
NoTargets    == {}
SomeTargets  == {{a1}, {d1, NoAgent}}
NoOverrides  == {{}}
SomeOverrides == {{}, {d1}, {E0, A0}}

(* Bounds: one kind of record is open at a time, and an earlier launcher   *)
(* left what it may reuse, with the verdicts of all stewards or of none.   *)
OneRecord ==
    Cardinality({x \in {"human", "help", "asked", "blockers", "override"} :
        \/ x = "human" /\ human
        \/ x = "help" /\ help # "clear"
        \/ x = "asked" /\ asked # {}
        \/ x = "blockers" /\ blockers # {}
        \/ x = "override" /\ override # {}}) <= 1

TidyEvidence ==
    pc = "head" /\ attempt = 1 =>
        {a \in Agents : result[a] # "none"} \in {pre, pre \cup Closure}

Bounds == OneRecord /\ TidyEvidence
=============================================================================
