------------------------- MODULE WaveAttemptsProofs -------------------------
(***************************************************************************)
(* Proofs about WaveAttempts, for any agents, any number of retries, any   *)
(* overrides and any interleaving of what happens outside the launcher.    *)
(*                                                                         *)
(* ControlInv says where agents may run and how far the attempts may get.  *)
(* EvidenceInv carries the verdict of the gates to the record of the wave, *)
(* FreshInv the launches of the stewards through the sweep, and OwnersInv  *)
(* that an owner is a failure only while its evidence does not pass.       *)
(***************************************************************************)
EXTENDS WaveAttempts, WellFoundedInduction, TLAPS

LEMMA FirstStewardExists ==
  ASSUME NEW S, S \subseteq Closure, S # {}
  PROVE  FirstSteward(S) # {}
<1> DEFINE J == {j \in 1 .. Len(Order) : Order[j] \in S}
           R == OpToRel(<, Nat)
<1>1. J # {} /\ J \subseteq Nat
  BY WaveAssumption DEF Closure
<1>2. IsWellFoundedOn(R, Nat)
  BY NatLessThanWellFounded
<1> HIDE DEF J
<1>3. PICK j \in J : \A i \in J : <<i, j>> \notin R
  BY <1>1, <1>2, WFMin
<1>4. \A i \in J : ~(i < j)
  BY <1>1, <1>3 DEF OpToRel
<1>5. Len(Order) \in Nat
  BY WaveAssumption
<1>6. j \in 1 .. Len(Order) /\ Order[j] \in S
  BY <1>3 DEF J
<1>7. ASSUME NEW k \in 1 .. j - 1
      PROVE  Order[k] \notin S
  BY <1>4, <1>5, <1>6, <1>7 DEF J
<1>8. Order[j] \in FirstSteward(S)
  BY <1>6, <1>7, Zenon DEF FirstSteward
<1>9. QED
  BY <1>8
-----------------------------------------------------------------------------
(* Between the head of the loop and the decision the attempt is within the *)
(* budget; agents run only in the two waiting states; and a sweep that     *)
(* waits does so for the agent of its first stage.                         *)
AttemptBounded ==
    pc \in {"run", "sweep", "stage", "gates", "settle"}
        => attempt <= MaxRetries + 1

RunningInWaits == running # {} => pc \in {"run", "stage"}

SweepWaitsForStage ==
    pc = "stage" =>
        /\ queue # <<>> /\ running \subseteq {Stage}
        /\ running = {} => result[Stage] # "none"

ControlInv ==
    /\ WaveTypeOK
    /\ AttemptBounded
    /\ RunningInWaits
    /\ SweepWaitsForStage

LEMMA HeadInClosure ==
  ASSUME NEW s \in Seq(Closure), s # <<>>
  PROVE  Head(s) \in Closure /\ Tail(s) \in Seq(Closure)
OBVIOUS

LEMMA FirstStewardInClosure ==
  ASSUME NEW S
  PROVE  FirstSteward(S) \subseteq S \cap Closure
BY WaveAssumption DEF FirstSteward, Closure

LEMMA ControlInit == Init => ControlInv
<1> SUFFICES ASSUME Init PROVE ControlInv
  OBVIOUS
<1>1. WaveTypeOK
  <2>1. toLaunch \subseteq Agents
    BY WaveAssumption DEF Init, Initial, Agents
  <2>2. result \in [Agents -> Results]
    BY WaveAssumption DEF Init
  <2>3. queue \in Seq(Closure) /\ attempt \in 1 .. MaxRetries + 2
    BY WaveAssumption DEF Init
  <2>4. pre \subseteq Designs \cup Impl
    BY DEF Init, Reusable
  <2>5. QED
    BY <2>1, <2>2, <2>3, <2>4 DEF Init, WaveTypeOK
<1>2. QED
  BY <1>1 DEF Init, ControlInv, AttemptBounded, RunningInWaits,
              SweepWaitsForStage

LEMMA RelaunchInAgents ==
  ASSUME ControlInv
  PROVE  Relaunch \subseteq Agents /\ Selected \subseteq Agents
<1>1. PhaseRuns \subseteq Agents
  BY FirstStewardInClosure DEF PhaseRuns, Agents, Gapped, Unproven
<1>2. {f.agent : f \in failures} \ {NoAgent} \subseteq Agents
  BY DEF ControlInv, WaveTypeOK, Failures
<1>3. /\ Unproven(Agents) \subseteq Agents
      /\ asked \ {NoAgent} \subseteq Agents
      /\ blockers \ {NoAgent} \subseteq Agents
  BY DEF Unproven, ControlInv, WaveTypeOK
<1>4. help \in Agents => {help} \subseteq Agents
  OBVIOUS
<1>5. Relaunch \subseteq Agents
  BY <1>1, <1>2, <1>3, <1>4 DEF Relaunch
<1>6. QED
  BY <1>5 DEF Selected, ControlInv, WaveTypeOK

LEMMA GateFailuresTyped ==
  ASSUME ControlInv
  PROVE  GateFailures \subseteq Failures
<1>1. \A a \in Agents : GateFailure(a) \in Failures
  BY DEF GateFailure, Failure, Failures, Codes
<1>2. /\ Unproven(Impl) \subseteq Agents /\ Unproven(Designs) \subseteq Agents
      /\ FirstSteward(Unproven(Closure)) \subseteq Agents
  BY FirstStewardInClosure DEF Unproven, Agents
<1>3. /\ Failure(NoAgent, "barrier") \in Failures
      /\ Failure(NoAgent, "clarification") \in Failures
  BY DEF Failure, Failures, Codes
<1>4. QED
  BY <1>1, <1>2, <1>3 DEF GateFailures

LEMMA ControlStep == ControlInv /\ [Next]_vars => ControlInv'
<1> SUFFICES ASSUME ControlInv, [Next]_vars PROVE ControlInv'
  OBVIOUS
<1> USE DEF ControlInv, WaveTypeOK, AttemptBounded, RunningInWaits,
            SweepWaitsForStage, sweep, coordination, verdict
<1>1. CASE BeginAttempt
  <2>1. result' \in [Agents -> Results] /\ judged' \subseteq Closure
        /\ running' \subseteq Agents
    BY <1>1 DEF BeginAttempt, Launch, Results
  <2>2. closing' \subseteq Closure /\ queue' \in Seq(Closure)
    BY <1>1, WaveAssumption DEF BeginAttempt, StartSweep, ClosureOnly
  <2>3. QED
    BY <1>1, <2>1, <2>2, WaveAssumption
    DEF BeginAttempt, Launch, StartSweep, Stage
<1>2. ASSUME NEW a \in Agents, NEW o \in Outcomes(a), Finish(a, o)
      PROVE  ControlInv'
  <2>1. o \in Results /\ o # "none"
    BY DEF Outcomes, Results
  <2>2. QED
    BY <1>2, <2>1 DEF Finish, Stage
<1>3. CASE AgentsFailed
  <2>1. failures' \subseteq Failures
    BY <1>3 DEF AgentsFailed, Fail, Crashed, Failure, Failures, Codes
  <2>2. QED
    BY <1>3, <2>1 DEF AgentsFailed, Fail
<1>4. CASE DesignReady
  BY <1>4, WaveAssumption DEF DesignReady, Agents
<1>5. CASE DesignBlocked
  <2>1. failures' \subseteq Failures
    BY <1>5 DEF DesignBlocked, Fail, Unproven, Failure, Failures, Codes, Agents
  <2>2. QED
    BY <1>5, <2>1 DEF DesignBlocked, Fail
<1>6. CASE AfterRuns
  <2>1. failures' \subseteq Failures
    BY <1>6, GateFailuresTyped DEF AfterRuns, Fail
  <2>2. closing' \subseteq Closure /\ queue' \in Seq(Closure)
        /\ forwarded' \subseteq Failures
    BY <1>6, WaveAssumption DEF AfterRuns, StartSweep
  <2>3. pc' \in {"sweep", "settle", "gates"}
    BY <1>6 DEF AfterRuns, StartSweep, Fail
  <2>4. QED
    BY <1>6, <2>1, <2>2, <2>3 DEF AfterRuns
<1>7. CASE SkipStage
  <2>1. Stage \in Closure /\ Tail(queue) \in Seq(Closure)
    BY <1>7, HeadInClosure DEF SkipStage, Stage
  <2>2. failures' \subseteq Failures
    BY <1>7, <2>1 DEF SkipStage, Fail, Failure, Failures, Codes, Agents
  <2>3. queue' \in Seq(Closure)
    BY <1>7, <2>1 DEF SkipStage, Fail
  <2>4. QED
    BY <1>7, <2>2, <2>3 DEF SkipStage, Fail
<1>8. CASE LaunchStage
  <2>1. Stage \in Closure
    BY <1>8, HeadInClosure DEF LaunchStage, Stage
  <2>2. /\ result' \in [Agents -> Results] /\ judged' \subseteq Closure
        /\ running' = {Stage}
    BY <1>8, <2>1 DEF LaunchStage, Launch, Results
  <2>3. Stage' = Stage
    BY <1>8 DEF LaunchStage, Stage
  <2>4. QED
    BY <1>8, <2>1, <2>2, <2>3 DEF LaunchStage, Agents
<1>9. CASE EndStage
  <2>1. Stage \in Closure /\ Tail(queue) \in Seq(Closure) /\ Stage \in Agents
    BY <1>9, HeadInClosure DEF EndStage, Stage, Agents
  <2>2. failures' \subseteq Failures
    BY <1>9, <2>1 DEF EndStage, Fail, Failure, Failures, Codes, Results
  <2>3. Failure(Stage, "gap") \in Failures
    BY <2>1 DEF Failure, Failures, Codes
  <2>4. blockers' \subseteq Agents \cup {NoAgent}
    BY <1>9 DEF EndStage, Agents
  <2>5. forwarded' \subseteq Failures
    BY <1>9, <2>3 DEF EndStage
  <2>6. queue' \in Seq(Closure)
    BY <1>9, <2>1 DEF EndStage
  <2>7. QED
    BY <1>9, <2>2, <2>4, <2>5, <2>6 DEF EndStage, Fail
<1>10. CASE EndSweep
  BY <1>10 DEF EndSweep, Fail
<1>11. CASE ReadGates
  <2>1. failures' \subseteq Failures
    BY <1>11, GateFailuresTyped DEF ReadGates, Fail
  <2>2. QED
    BY <1>11, <2>1 DEF ReadGates, Fail
<1>12. CASE CompleteAttempt
  BY <1>12 DEF CompleteAttempt
<1>13. CASE GiveUp
  <2>1. Unproven(Agents) \subseteq Agents /\ Named \subseteq Agents
    BY DEF Unproven, Named, Failures
  <2>2. override' \subseteq Agents
    BY <1>13, <2>1, RelaunchInAgents DEF GiveUp
  <2>3. QED
    BY <1>13, <2>2 DEF GiveUp, Stop
<1>14. CASE Wait
  BY <1>14 DEF Wait, Stop
<1>15. CASE Retry
  <2>1. toLaunch' \subseteq Agents
    BY <1>15, RelaunchInAgents DEF Retry
  <2>2. QED
    BY <1>15, <2>1, WaveAssumption DEF Retry, LastAttempt
<1>16. CASE MarkWaveCompleted
  BY <1>16 DEF MarkWaveCompleted
<1>17. CASE Outside
  <2> USE DEF Outside, Human, Helper, Clarify, Block, WriteOverride
  <2>1. override' \subseteq Agents
    BY <1>17, WaveAssumption
  <2>2. UNCHANGED program
    BY <1>17
  <2>3. human' \in BOOLEAN
    BY <1>17, Zenon
  <2>4. help' \in {"clear", "unassigned", "outbound"} \cup Agents
    <3>1. CASE Helper
      <4> DEFINE named == UNION Targets
      <4>1. help' \in ({"clear", "unassigned", "outbound"} \cup (Agents \cap named)) \ {help}
        BY <3>1
      <4> HIDE DEF named
      <4>2. QED
        BY <4>1
    <3>2. CASE help' = help
      BY <3>2
    <3>3. Helper \/ help' = help
      BY <1>17, Zenon
    <3>4. QED
      BY <3>1, <3>2, <3>3
  <2>5. asked' \subseteq Agents \cup {NoAgent}
    BY <1>17, WaveAssumption
  <2>6. blockers' \subseteq Agents \cup {NoAgent}
    BY <1>17, WaveAssumption
  <2>7. Stage' = Stage
    BY <2>2 DEF program, Stage
  <2>8. QED
    BY <2>1, <2>2, <2>3, <2>4, <2>5, <2>6, <2>7 DEF program
<1>18. CASE UNCHANGED vars
  BY <1>18 DEF vars, Stage
<1>19. QED
  BY <1>1, <1>2, <1>3, <1>4, <1>5, <1>6, <1>7, <1>8, <1>9, <1>10, <1>11,
     <1>12, <1>13, <1>14, <1>15, <1>16, <1>17, <1>18
  DEF Next, Launcher, EndOfRuns

LEMMA ControlHolds == Spec => []ControlInv
BY ControlInit, ControlStep, PTL DEF Spec

(* The loop's variables keep their types, for any agents, retries,         *)
(* overrides and events outside the launcher.                              *)
THEOREM WaveTypeCorrect == Spec => []WaveTypeOK
<1>1. ControlInv => WaveTypeOK
  BY DEF ControlInv
<1>2. QED
  BY <1>1, ControlHolds, PTL

-----------------------------------------------------------------------------
(* The verdict of the gates is still true when the attempt is decided: no  *)
(* agent is launched from "gates" on, and only "gates" settles without     *)
(* failures.                                                               *)
AcceptedAtGates == pc = "settle" /\ failures = {} => Unproven(Agents) = {}

CompletedIsFinal ==
    recorded = "completed" =>
        pc \in {"mark", "done"} /\ Unproven(Agents) = {} /\ running = {}

EvidenceInv == AcceptedAtGates /\ CompletedIsFinal

LEMMA OpenGatesProveAll ==
  ASSUME GateFailures = {}
  PROVE  Unproven(Agents) = {}
<1>1. Unproven(Impl) = {}
  BY DEF GateFailures
<1>2. Unproven(Designs) = {}
  BY <1>1 DEF GateFailures
<1>3. Unproven(Closure) = {}
  <2>1. FirstSteward(Unproven(Closure)) = {} \/ Unproven(Closure) = {}
    BY <1>1, <1>2 DEF GateFailures
  <2>2. Unproven(Closure) \subseteq Closure
    BY DEF Unproven
  <2>3. QED
    BY <2>1, <2>2, FirstStewardExists
<1>4. QED
  BY <1>1, <1>2, <1>3 DEF Unproven, Agents

LEMMA EvidenceStep ==
  ControlInv /\ EvidenceInv /\ [Next]_vars => EvidenceInv'
<1> SUFFICES ASSUME ControlInv, EvidenceInv, [Next]_vars PROVE EvidenceInv'
  OBVIOUS
<1> USE DEF EvidenceInv, AcceptedAtGates, CompletedIsFinal, sweep,
            coordination, verdict
<1>1. CASE BeginAttempt
  BY <1>1 DEF BeginAttempt, StartSweep
<1>2. ASSUME NEW a \in Agents, NEW o \in Outcomes(a), Finish(a, o)
      PROVE  EvidenceInv'
  BY <1>2 DEF Finish, ControlInv, RunningInWaits
<1>3. CASE AgentsFailed
  BY <1>3 DEF AgentsFailed, Fail, Crashed
<1>4. CASE DesignReady
  BY <1>4 DEF DesignReady, ContinueImplementation
<1>5. CASE DesignBlocked
  BY <1>5 DEF DesignBlocked, Fail
<1>6. CASE AfterRuns
  BY <1>6 DEF AfterRuns, StartSweep, Fail
<1>7. CASE SkipStage
  BY <1>7 DEF SkipStage, Fail
<1>8. CASE LaunchStage
  BY <1>8 DEF LaunchStage
<1>9. CASE EndStage
  BY <1>9 DEF EndStage, Fail
<1>10. CASE EndSweep
  BY <1>10 DEF EndSweep, Fail
<1>11. CASE ReadGates
  <2>1. failures' = {} => GateFailures = {}
    BY <1>11 DEF ReadGates, Fail
  <2>2. failures' = {} => Unproven(Agents) = {}
    BY <2>1, OpenGatesProveAll
  <2>3. Unproven(Agents)' = Unproven(Agents)
    BY <1>11 DEF ReadGates, Unproven
  <2>4. QED
    BY <1>11, <2>2, <2>3 DEF ReadGates
<1>12. CASE CompleteAttempt
  <2>1. Unproven(Agents)' = {} /\ running' = {}
    BY <1>12 DEF CompleteAttempt, Unproven, ControlInv, RunningInWaits
  <2>2. QED
    BY <1>12, <2>1 DEF CompleteAttempt
<1>13. CASE GiveUp
  BY <1>13 DEF GiveUp, Stop
<1>14. CASE Wait
  BY <1>14 DEF Wait, Stop
<1>15. CASE Retry
  BY <1>15 DEF Retry
<1>16. CASE MarkWaveCompleted
  BY <1>16 DEF MarkWaveCompleted, Unproven
<1>17. CASE Outside
  <2>1. UNCHANGED program
    BY <1>17 DEF Outside, Human, Helper, Clarify, Block, WriteOverride
  <2>2. QED
    BY <2>1 DEF program, Unproven
<1>18. CASE UNCHANGED vars
  BY <1>18 DEF vars, Unproven
<1>19. QED
  BY <1>1, <1>2, <1>3, <1>4, <1>5, <1>6, <1>7, <1>8, <1>9, <1>10, <1>11,
     <1>12, <1>13, <1>14, <1>15, <1>16, <1>17, <1>18
  DEF Next, Launcher, EndOfRuns

LEMMA EvidenceHolds == Spec => []EvidenceInv
<1>1. Init => EvidenceInv
  BY DEF Init, EvidenceInv, AcceptedAtGates, CompletedIsFinal
<1>2. QED
  BY <1>1, EvidenceStep, ControlHolds, PTL DEF Spec

(* A wave recorded as completed rests on passing evidence of every agent   *)
(* and nothing runs any more, whatever humans, helpers and operators do.   *)
THEOREM CompletedWavesHaveEvidence == Spec => []CompletedOnEvidence
<1>1. EvidenceInv => CompletedOnEvidence
  BY DEF EvidenceInv, CompletedIsFinal, CompletedOnEvidence, Unproven
<1>2. QED
  BY <1>1, EvidenceHolds, PTL

-----------------------------------------------------------------------------
(* Only stewards are forwarded failures, and an owner is a failure of the  *)
(* attempt only for want of proof.                                         *)
ForwardedAreStewards == \A f \in forwarded : f.agent \in Closure

FailuresUnproven ==
    pc = "settle" => \A f \in failures : f.agent \in Impl => result[f.agent] # "ok"

OwnersInv == ForwardedAreStewards /\ FailuresUnproven

(* The decisions: what they record does not touch the evidence.            *)
LEMMA GateFailuresUnproven ==
  \A f \in GateFailures : f.agent \in Impl => result[f.agent] # "ok"
<1>1. \A a : GateFailure(a).agent = a
  BY DEF GateFailure, Failure
<1>2. FirstSteward(Unproven(Closure)) \cap Impl = {}
  BY FirstStewardInClosure, WaveAssumption
<1>3. \A c : Failure(NoAgent, c).agent \notin Impl
  BY WaveAssumption DEF Failure, Agents
<1>4. \A f \in GateFailures :
        \/ \E a \in Unproven(Impl) \cup Unproven(Designs)
                     \cup FirstSteward(Unproven(Closure)) : f = GateFailure(a)
        \/ \E c \in Codes : f = Failure(NoAgent, c)
  BY DEF GateFailures, Codes
<1>5. ASSUME NEW f \in GateFailures, f.agent \in Impl
      PROVE  result[f.agent] # "ok"
  <2>1. PICK a \in Unproven(Impl) \cup Unproven(Designs)
                      \cup FirstSteward(Unproven(Closure)) : f = GateFailure(a)
    BY <1>3, <1>4, <1>5
  <2>2. f.agent = a
    BY <1>1, <2>1
  <2>3. a \in Unproven(Impl)
    BY <1>2, <1>5, <2>1, <2>2, WaveAssumption DEF Unproven
  <2>4. QED
    BY <2>2, <2>3 DEF Unproven
<1>6. QED
  BY <1>5

LEMMA OwnersStep ==
  ControlInv /\ OwnersInv /\ [Next]_vars => OwnersInv'
<1> SUFFICES ASSUME ControlInv, OwnersInv, [Next]_vars PROVE OwnersInv'
  OBVIOUS
<1> USE DEF OwnersInv, ForwardedAreStewards, FailuresUnproven, sweep,
            coordination, verdict
<1>1. CASE BeginAttempt
  BY <1>1 DEF BeginAttempt, StartSweep
<1>2. ASSUME NEW a \in Agents, NEW o \in Outcomes(a), Finish(a, o)
      PROVE  OwnersInv'
  BY <1>2 DEF Finish, ControlInv, RunningInWaits
<1>3. CASE AgentsFailed
  BY <1>3 DEF AgentsFailed, Fail, Crashed, Failure
<1>4. CASE DesignReady
  BY <1>4 DEF DesignReady
<1>5. CASE DesignBlocked
  BY <1>5, WaveAssumption DEF DesignBlocked, Fail, Unproven, Failure
<1>6. CASE AfterRuns
  BY <1>6, GateFailuresUnproven DEF AfterRuns, StartSweep, Fail
<1>7. CASE SkipStage
  <2>1. Stage \in Closure
    BY <1>7, HeadInClosure DEF SkipStage, Stage, ControlInv, WaveTypeOK
  <2>2. Stage \notin Impl
    BY <2>1, WaveAssumption
  <2>3. QED
    BY <1>7, <2>2 DEF SkipStage, Fail, Failure
<1>8. CASE LaunchStage
  BY <1>8 DEF LaunchStage
<1>9. CASE EndStage
  <2>1. Stage \in Closure
    BY <1>9, HeadInClosure
    DEF EndStage, Stage, ControlInv, WaveTypeOK, SweepWaitsForStage
  <2>2. closing \subseteq Closure /\ Stage \notin Impl
    BY <2>1, WaveAssumption DEF ControlInv, WaveTypeOK
  <2>3. ForwardedAreStewards'
    BY <1>9, <2>1, <2>2 DEF EndStage, Failure
  <2>4. FailuresUnproven'
    BY <1>9, <2>2 DEF EndStage, Fail, Failure
  <2>5. QED
    BY <2>3, <2>4
<1>10. CASE EndSweep
  BY <1>10, WaveAssumption DEF EndSweep, Fail
<1>11. CASE ReadGates
  BY <1>11, GateFailuresUnproven DEF ReadGates, Fail
<1>12. CASE CompleteAttempt
  BY <1>12 DEF CompleteAttempt
<1>13. CASE GiveUp
  BY <1>13 DEF GiveUp, Stop
<1>14. CASE Wait
  BY <1>14 DEF Wait, Stop
<1>15. CASE Retry
  BY <1>15 DEF Retry
<1>16. CASE MarkWaveCompleted
  BY <1>16 DEF MarkWaveCompleted
<1>17. CASE Outside
  <2>1. UNCHANGED program
    BY <1>17 DEF Outside, Human, Helper, Clarify, Block, WriteOverride
  <2>2. QED
    BY <2>1 DEF program
<1>18. CASE UNCHANGED vars
  BY <1>18 DEF vars
<1>19. QED
  BY <1>1, <1>2, <1>3, <1>4, <1>5, <1>6, <1>7, <1>8, <1>9, <1>10, <1>11,
     <1>12, <1>13, <1>14, <1>15, <1>16, <1>17, <1>18
  DEF Next, Launcher, EndOfRuns

LEMMA OwnersHold == Spec => []OwnersInv
<1>1. Init => OwnersInv
  BY DEF Init, OwnersInv, ForwardedAreStewards, FailuresUnproven
<1>2. QED
  BY <1>1, OwnersStep, ControlHolds, PTL DEF Spec

(* An owner in the planner's choice lacks proof or is named by a record.   *)
LEMMA RelaunchSparesOwners ==
  ASSUME OwnersInv, pc = "settle", NEW a \in Relaunch \cap Impl
  PROVE  result[a] # "ok" \/ Requested(a)
<1>1. CASE a = help \/ a \in asked \cup blockers
  BY <1>1 DEF Requested
<1>2. CASE ~(a = help \/ a \in asked \cup blockers)
  <2>1. a \notin PhaseRuns
    BY FirstStewardInClosure, WaveAssumption DEF PhaseRuns
  <2>2. a \in Unproven(Agents) \/ a \in {f.agent : f \in failures}
    BY <1>2, <2>1 DEF Relaunch
  <2>3. QED
    BY <2>2 DEF OwnersInv, FailuresUnproven, Unproven
<1>3. QED
  BY <1>1, <1>2

(* No retry, of any wave, takes away the proof of an owner that landed it, *)
(* unless a request, a blocker record or an operator names that owner.     *)
THEOREM RetriesSpareProvenOwners == Spec => ProvenOwnersReused
<1>1. ASSUME OwnersInv, Retry, NEW a \in toLaunch' \cap Impl
      PROVE  result[a] # "ok" \/ Requested(a)
  <2>1. a \in Selected
    BY <1>1 DEF Retry
  <2>2. CASE override # {}
    BY <2>1, <2>2 DEF Selected, Requested
  <2>3. CASE override = {}
    BY <1>1, <2>1, <2>3, RelaunchSparesOwners DEF Selected, Retry
  <2>4. QED
    BY <2>2, <2>3
<1>2. OwnersInv =>
        [Retry => \A a \in toLaunch' \cap Impl :
            result[a] # "ok" \/ Requested(a)]_vars
  BY <1>1
<1>3. QED
  BY <1>2, OwnersHold, PTL DEF ProvenOwnersReused

(* While a design agent is unproven the planner chooses design agents, the *)
(* first steward with a gap or agents named by a record: the designs come  *)
(* before the owners in phaseFromGate, and a set of them is never empty.   *)
LEMMA RelaunchDesignsFirst ==
  ASSUME Unproven(Designs) # {}, NEW a \in Relaunch \cap Impl
  PROVE  Requested(a)
<1>1. SUFFICES ASSUME ~Requested(a) PROVE FALSE
  OBVIOUS
<1>2. PhaseRuns # {} /\ a \notin PhaseRuns
  <2>1. CASE Gapped # {}
    <3>1. PhaseRuns = FirstSteward(Gapped) /\ Gapped \subseteq Closure
      BY <2>1, WaveAssumption DEF PhaseRuns, Gapped
    <3>2. QED
      BY <2>1, <3>1, FirstStewardExists, FirstStewardInClosure, WaveAssumption
  <2>2. CASE Gapped = {}
    <3>1. PhaseRuns = Designs
      BY <2>2 DEF PhaseRuns
    <3>2. QED
      BY <3>1, WaveAssumption DEF Unproven
  <2>3. QED
    BY <2>1, <2>2
<1>3. QED
  BY <1>1, <1>2 DEF Relaunch, Requested

(* No owner is selected while a design packet is not accepted, by a retry  *)
(* or by the hand-off after a design pass, unless a request, a blocker     *)
(* record or an operator names that owner.                                 *)
THEOREM DesignsComeFirst == Spec => DesignBeforeImplementation
<1>1. ASSUME OwnersInv, [Next]_vars, toLaunch' # toLaunch, NEW a \in toLaunch' \cap Impl
      PROVE  Unproven(Designs) = {} \/ Requested(a)
  <2>1. Retry \/ DesignReady
    BY <1>1
       DEF Next, Launcher, EndOfRuns, Outside, BeginAttempt, Finish, AgentsFailed, DesignReady,
           DesignBlocked, AfterRuns, SkipStage, LaunchStage, EndStage, EndSweep, ReadGates,
           CompleteAttempt, GiveUp, Wait, Stop, Retry, MarkWaveCompleted, Human, Helper,
           Clarify, Block, WriteOverride, program, vars
  <2>2. CASE DesignReady
    BY <2>2 DEF DesignReady, ContinueImplementation
  <2>3. CASE Retry
    <3>1. a \in Selected
      BY <1>1, <2>3 DEF Retry
    <3>2. CASE override # {}
      BY <3>1, <3>2 DEF Selected, Requested
    <3>3. CASE override = {} /\ Unproven(Designs) # {}
      BY <1>1, <3>1, <3>3, RelaunchDesignsFirst DEF Selected
    <3>4. QED
      BY <3>2, <3>3
  <2>4. QED
    BY <2>1, <2>2, <2>3
<1>2. OwnersInv /\ [Next]_vars =>
        [toLaunch' # toLaunch => \A a \in toLaunch' \cap Impl :
            Unproven(Designs) = {} \/ Requested(a)]_vars
  BY <1>1
<1>3. QED
  BY <1>2, OwnersHold, PTL DEF Spec, DesignBeforeImplementation

-----------------------------------------------------------------------------
(* Every pass runs implementation agents, and is followed by the whole     *)
(* sweep, or is a sweep itself, or runs design agents without owners: such *)
(* a pass goes to the gates with whatever verdicts there are.              *)
PassHasOwners ==
    /\ pc \in {"head", "run"} /\ toLaunch = {} => Closure = {}
    /\ pc = "run" => Closure = {} \/ toLaunch \cap Impl # {} \/ DesignPass

Queued == {queue[i] : i \in 1 .. Len(queue)}

(* In the sweep the required stewards have run or are still queued.        *)
JudgedInSweep ==
    /\ pc \in {"sweep", "stage"} => Required \subseteq judged \cup Queued
    /\ pc = "stage" => Stage \in judged

Judged == Required \subseteq judged \/ DesignPass

JudgedAtGates ==
    /\ pc = "gates" => Judged
    /\ pc = "settle" /\ failures = {} => Judged
    /\ recorded = "completed" => pc \in {"mark", "done"} /\ Judged

FreshInv == PassHasOwners /\ JudgedInSweep /\ JudgedAtGates

LEMMA SeqElements ==
  ASSUME NEW s \in Seq(Closure), s # <<>>
  PROVE  {s[i] : i \in 1 .. Len(s)}
             \subseteq {Head(s)} \cup {Tail(s)[i] : i \in 1 .. Len(Tail(s))}
<1> SUFFICES ASSUME NEW i \in 1 .. Len(s), i # 1
             PROVE  \E j \in 1 .. Len(Tail(s)) : Tail(s)[j] = s[i]
  OBVIOUS
<1>1. i - 1 \in 1 .. Len(Tail(s)) /\ Tail(s)[i - 1] = s[i]
  OBVIOUS
<1>2. QED
  BY <1>1

LEMMA FreshInit == Init => FreshInv
<1> SUFFICES ASSUME Init PROVE FreshInv
  OBVIOUS
<1>1. toLaunch = {} => Closure = {}
  BY DEF Init, Initial
<1>2. QED
  BY <1>1 DEF Init, FreshInv, PassHasOwners, JudgedInSweep, JudgedAtGates

LEMMA FreshStep == ControlInv /\ FreshInv /\ [Next]_vars => FreshInv'
<1> SUFFICES ASSUME ControlInv, FreshInv, [Next]_vars PROVE FreshInv'
  OBVIOUS
<1>a. toLaunch \subseteq Agents /\ Required \subseteq Closure
  BY WaveAssumption DEF ControlInv, WaveTypeOK
<1>b. Impl \cap Closure = {}
  BY WaveAssumption
<1>c. (Closure = {Order[i] : i \in 1 .. Len(Order)}) /\ Required \subseteq Closure
  BY WaveAssumption DEF Closure
<1>d. toLaunch' = toLaunch => (DesignPass' <=> DesignPass)
  BY DEF DesignPass
<1> USE DEF FreshInv, PassHasOwners, JudgedInSweep, JudgedAtGates, Judged, sweep,
            coordination, verdict
<1>1. CASE BeginAttempt
  <2>1. CASE ClosureOnly /\ StartSweep(toLaunch)
    <3>1. Required \subseteq Queued'
      BY <1>c, <2>1 DEF StartSweep, Queued
    <3>2. QED
      BY <1>1, <2>1, <3>1 DEF BeginAttempt, StartSweep
  <2>2. CASE ~ClosureOnly /\ Launch(toLaunch) /\ pc' = "run"
    <3>1. Closure = {} \/ toLaunch \cap Impl # {} \/ DesignPass
      BY <1>a, <1>1, <2>2 DEF BeginAttempt, ClosureOnly, DesignPass, Agents
    <3>2. DesignPass' <=> DesignPass
      BY <1>1 DEF BeginAttempt, DesignPass
    <3>3. QED
      BY <1>1, <2>2, <3>1, <3>2 DEF BeginAttempt
  <2>3. QED
    BY <1>1, <2>1, <2>2 DEF BeginAttempt
<1>2. ASSUME NEW a \in Agents, NEW o \in Outcomes(a), Finish(a, o)
      PROVE  FreshInv'
  BY <1>d, <1>2 DEF Finish, Queued, Stage
<1>3. CASE AgentsFailed
  BY <1>3 DEF AgentsFailed, Fail
<1>4. CASE DesignReady
  BY <1>4 DEF DesignReady, ContinueImplementation
<1>5. CASE DesignBlocked
  BY <1>5 DEF DesignBlocked, Fail
<1>6. CASE AfterRuns
  <2>1. CASE StartSweep(Closure) /\ UNCHANGED failures
    <3>1. Required \subseteq Queued'
      BY <1>c, <2>1 DEF StartSweep, Queued
    <3>2. QED
      BY <1>6, <2>1, <3>1 DEF AfterRuns, StartSweep
  <2>2. CASE \E f \in GateFailures : Fail({f})
    BY <1>6, <2>2 DEF AfterRuns, Fail
  <2>3. CASE toLaunch \cap Impl = {} /\ pc' = "gates" /\ UNCHANGED failures
    <3>1. Closure = {} \/ DesignPass
      BY <1>6, <2>3 DEF AfterRuns
    <3>2. QED
      BY <1>a, <1>d, <1>6, <2>3, <3>1 DEF AfterRuns
  <2>4. QED
    BY <1>6, <2>1, <2>2, <2>3 DEF AfterRuns
<1>7. CASE SkipStage
  <2>1. CASE Stage \in Required
    BY <1>7, <2>1 DEF SkipStage, Fail
  <2>2. CASE Stage \notin Required
    <3>1. Queued \subseteq {Stage} \cup Queued'
      <4>1. queue \in Seq(Closure) /\ queue # <<>> /\ queue' = Tail(queue)
        BY <1>7, <2>2 DEF SkipStage, ControlInv, WaveTypeOK
      <4>2. QED
        BY <4>1, SeqElements DEF Queued, Stage
    <3>2. QED
      BY <1>7, <2>2, <3>1 DEF SkipStage
  <2>3. QED
    BY <2>1, <2>2
<1>8. CASE LaunchStage
  <2>1. Stage \in Closure
    BY <1>8, HeadInClosure DEF LaunchStage, Stage, ControlInv, WaveTypeOK
  <2>2. judged' = judged \cup {Stage}
    BY <1>8, <1>b, <2>1 DEF LaunchStage, Launch
  <2>3. Stage' = Stage /\ Queued' = Queued
    BY <1>8 DEF LaunchStage, Stage, Queued
  <2>4. QED
    BY <1>8, <2>2, <2>3 DEF LaunchStage
<1>9. CASE EndStage
  <2>1. CASE pc' = "settle"
    BY <1>9, <2>1 DEF EndStage, Fail
  <2>2. CASE pc' = "sweep" /\ queue' = Tail(queue)
    <3>1. queue \in Seq(Closure) /\ queue # <<>>
      BY <1>9 DEF EndStage, ControlInv, WaveTypeOK, SweepWaitsForStage
    <3>2. Queued \subseteq {Stage} \cup Queued'
      BY <2>2, <3>1, SeqElements DEF Queued, Stage
    <3>3. QED
      BY <1>9, <2>2, <3>2 DEF EndStage
  <2>3. QED
    BY <1>9, <2>1, <2>2 DEF EndStage, Fail
<1>10. CASE EndSweep
  <2>1. Queued = {}
    BY <1>10 DEF EndSweep, Queued
  <2>2. QED
    BY <1>d, <1>10, <2>1 DEF EndSweep, Fail
<1>11. CASE ReadGates
  BY <1>d, <1>11 DEF ReadGates, Fail
<1>12. CASE CompleteAttempt
  BY <1>d, <1>12 DEF CompleteAttempt
<1>13. CASE GiveUp
  BY <1>13 DEF GiveUp, Stop
<1>14. CASE Wait
  BY <1>14 DEF Wait, Stop
<1>15. CASE Retry
  BY <1>15 DEF Retry
<1>16. CASE MarkWaveCompleted
  BY <1>d, <1>16 DEF MarkWaveCompleted
<1>17. CASE Outside
  <2>1. UNCHANGED program
    BY <1>17 DEF Outside, Human, Helper, Clarify, Block, WriteOverride
  <2>2. QED
    BY <1>d, <2>1 DEF program, Queued, Stage
<1>18. CASE UNCHANGED vars
  BY <1>d, <1>18 DEF vars, Queued, Stage
<1>19. QED
  BY <1>1, <1>2, <1>3, <1>4, <1>5, <1>6, <1>7, <1>8, <1>9, <1>10, <1>11,
     <1>12, <1>13, <1>14, <1>15, <1>16, <1>17, <1>18
  DEF Next, Launcher, EndOfRuns

(* A completed wave was judged by every required steward after the last    *)
(* launch of an implementation agent, whatever evidence an earlier         *)
(* launcher left and whatever retries, overrides, requests and records     *)
(* came between, except by an attempt narrowed to design agents.           *)
THEOREM StewardsJudgeFinalCode == Spec => []ClosureJudgesFinalCode
<1>1. FreshInv => ClosureJudgesFinalCode
  BY DEF FreshInv, JudgedAtGates, Judged, ClosureJudgesFinalCode
<1>2. QED
  BY <1>1, FreshInit, FreshStep, ControlHolds, PTL DEF Spec
=============================================================================
