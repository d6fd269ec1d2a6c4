---------------------------- MODULE WaveAttempts ----------------------------
(***************************************************************************)
(* The attempts of one wave: the loop of runLauncherCli in                 *)
(* scripts/wave-orchestrator/launcher.mjs, with the closure sweep of       *)
(* closure-engine.mjs, the gates of gate-engine.mjs and the choice of      *)
(* agents to relaunch of retry-engine.mjs and implementation-engine.mjs.   *)
(*                                                                         *)
(* An agent's evidence (status, envelope, report) is reduced to what the   *)
(* gates make of it; an earlier launcher of the wave may have left some.   *)
(* Agents, operators and other lanes write coordination records between    *)
(* any two steps of the loop.  The wave declares no shared component and   *)
(* no hybrid design agent, autoClosure is off, and the launcher was not    *)
(* started with --resume-control-state.                                    *)
(***************************************************************************)
EXTENDS Integers, FiniteSets, Sequences

CONSTANTS
    Designs,        \* docs-only design agents
    Impl,           \* agents that own implementation slices
    Order,          \* the closure stewards in the order of planClosureStages
    Required,       \* stewards whose stage fails when no run is provided
    GapStewards,    \* stewards that may report wave-proof-gap (cont-EVAL)
    MaxRetries,     \* options.maxRetriesPerWave
    Earlier,        \* the evidence an earlier launcher may have left
    External,       \* what happens outside the launcher, see Externals
    Targets,        \* the names a request or a blocker record may carry
    Overrides,      \* the retry overrides an operator may write
    NoAgent         \* no agent of the wave

Closure == {Order[i] : i \in 1 .. Len(Order)}
Agents  == Designs \cup Impl \cup Closure

Externals == {"human", "helper", "clarify", "block"}

Results == {"none", "ok", "exit", "timeout", "gate", "adjudicate", "gap"}
Codes   == {"exit", "timeout", "gate", "adjudicate", "gap", "missing",
            "barrier", "clarification"}

ASSUME WaveAssumption ==
    /\ Order \in Seq(Closure)
    /\ \A i, j \in 1 .. Len(Order) : Order[i] = Order[j] => i = j
    /\ Designs \cap Impl = {}
    /\ (Designs \cup Impl) \cap Closure = {}
    /\ Required \subseteq Closure
    /\ GapStewards \subseteq Closure
    /\ MaxRetries \in Nat
    /\ Earlier \subseteq Results
    /\ External \subseteq Externals
    /\ \A S \in Targets : S \subseteq Agents \cup {NoAgent}
    /\ \A S \in Overrides : S \subseteq Agents
    /\ NoAgent \notin Agents

VARIABLES
    pc,         \* where the loop is
    attempt,
    toLaunch,   \* runsToLaunch
    running,    \* agents launched and not yet settled
    result,     \* what the gates make of each agent's latest evidence
    pre,        \* preCompletedAgentIds
    closing,    \* closureRuns of the sweep
    queue,      \* closure stages left in the sweep
    forwarded,  \* forwardedFailures of the sweep
    failures,
    human,      \* a human-feedback or escalation record blocks the wave
    help,       \* the helper request or dependency that blocks the wave
    asked,      \* names the clarification follow-up requests are sent to
    blockers,   \* names in the open blocker records
    override,   \* retry override on disk, {} if none
    recorded,   \* the wave_run state
    marked,     \* markWaveCompleted was called
    judged      \* history: stewards launched after the last implementation run

vars == <<pc, attempt, toLaunch, running, result, pre, closing, queue,
          forwarded, failures, human, help, asked, blockers, override,
          recorded, marked, judged>>

coordination == <<human, help, asked, blockers, override>>
sweep        == <<closing, queue, forwarded>>
verdict      == <<recorded, marked>>

Failures == [agent : Agents \cup {NoAgent}, code : Codes]

Failure(a, c) == [agent |-> a, code |-> c]

(* The evidence a run of an agent may leave.                               *)
Outcomes(a) ==
    {"ok", "exit", "timeout", "gate"}
        \cup (IF a \in Impl THEN {"adjudicate"} ELSE {})
        \cup (IF a \in GapStewards THEN {"gap"} ELSE {})

(* Mutant: exit 0 is taken for proof.                                      *)
UnprovenByExit(S) == {a \in S : result[a] \in {"none", "exit", "timeout"}}

Crashed(S)  == {a \in S : result[a] \in {"exit", "timeout"}}
Unproven(S) == {a \in S : result[a] # "ok"}
Gapped      == {a \in GapStewards : result[a] = "gap"}

FirstSteward(S) == {Order[i] : i \in {j \in 1 .. Len(Order) :
    Order[j] \in S /\ \A k \in 1 .. j - 1 : Order[k] \notin S}}

-----------------------------------------------------------------------------
(* Which agents run next.                                                  *)

(* selectInitialWaveRuns over the agents without reusable proof.           *)
Initial(done) ==
    IF Designs \ done # {} THEN Designs \ done
    ELSE IF Impl \ done # {} THEN Impl \ done
    ELSE Closure

(* A follow-up request of a clarification is also a helper assignment, so  *)
(* that both kinds of request hold the assignment barrier.                 *)
Barred == help # "clear" \/ asked # {}

(* Mutant: the implementation phase is tested before the design phase.     *)
PhaseRunsImplFirst ==
    IF Unproven(Impl) # {} \/ Barred THEN {}
    ELSE IF Unproven(Designs) # {} THEN Designs
    ELSE FirstSteward(Unproven(Closure))

(* phaseFromGate of the first failing gate, and its agents.                *)
PhaseRuns ==
    IF Gapped # {} THEN FirstSteward(Gapped)
    ELSE IF Unproven(Designs) # {} THEN Designs
    ELSE IF Unproven(Impl) # {} \/ Barred THEN {}
    ELSE FirstSteward(Unproven(Closure))

(* Mutant: an implementation retry relaunches the whole fan-out.           *)
RelaunchAll ==
    IF human THEN {}
    ELSE IF asked # {} THEN asked \ {NoAgent}
    ELSE IF help = "unassigned" THEN {}
    ELSE IF help \in Agents THEN {help}
    ELSE IF blockers # {} THEN blockers \ {NoAgent}
    ELSE IF PhaseRuns # {} THEN PhaseRuns
    ELSE Agents

(* resolveRelaunchRunsFromWaveState, without its executor fallbacks.  Who  *)
(* wrote a request or a blocker record does not matter, and neither does   *)
(* what the agents it names have proved.  In the implementation phase      *)
(* every agent without proof is invalidated.                               *)
Relaunch ==
    IF human THEN {}
    ELSE IF asked # {} THEN asked \ {NoAgent}
    ELSE IF help = "unassigned" THEN {}
    ELSE IF help \in Agents THEN {help}
    ELSE IF blockers # {} THEN blockers \ {NoAgent}
    ELSE IF PhaseRuns # {} THEN PhaseRuns
    ELSE IF Unproven(Agents) # {} THEN Unproven(Agents)
    ELSE {f.agent : f \in failures} \ {NoAgent}

(* The launch of a set of agents: their earlier evidence is removed.       *)
Launch(S) ==
    /\ running' = S
    /\ result' = [a \in Agents |-> IF a \in S THEN "none" ELSE result[a]]
    /\ judged' = IF S \cap Impl # {} THEN {} ELSE judged \cup (S \cap Closure)

-----------------------------------------------------------------------------
(* selectReusablePreCompletedAgentIds: exit 0 under the same prompt, and   *)
(* of a design agent a packet that is accepted.  Stewards are never among  *)
(* them, but their evidence stays on disk for the gates.                   *)
Reusable ==
    {a \in Designs : result[a] = "ok"}
        \cup {a \in Impl : result[a] \in {"ok", "gate", "adjudicate"}}

Init ==
    /\ result \in [Agents -> Earlier]
    /\ \A a \in Agents : result[a] \in Outcomes(a) \cup {"none"}
    /\ pre \in SUBSET Reusable
    /\ \E S \in Overrides :
        toLaunch = IF S # {} /\ S \cap pre = {} THEN S ELSE Initial(pre)
    /\ pc = "head" /\ attempt = 1
    /\ running = {} /\ failures = {} /\ judged = {}
    /\ closing = {} /\ queue = <<>> /\ forwarded = {}
    /\ human = FALSE /\ help = "clear" /\ asked = {} /\ blockers = {}
    /\ override = {}
    /\ recorded = "started" /\ marked = FALSE

ClosureOnly == toLaunch # {} /\ toLaunch \subseteq Closure

StartSweep(S) ==
    /\ closing' = S
    /\ queue' = Order
    /\ forwarded' = {}
    /\ pc' = "sweep"

(* The head of the loop: launch the selected agents together, or go        *)
(* straight to the sweep when all of them are closure stewards.            *)
BeginAttempt ==
    /\ pc = "head" /\ attempt <= MaxRetries + 1
    /\ failures' = {}
    /\ \/ /\ ClosureOnly
          /\ StartSweep(toLaunch)
          /\ UNCHANGED <<running, result, judged>>
       \/ /\ ~ClosureOnly
          /\ Launch(toLaunch)
          /\ pc' = "run"
          /\ UNCHANGED sweep
    /\ UNCHANGED <<attempt, toLaunch, pre, coordination, verdict>>

(* An agent ends, or is given up at its deadline.                          *)
Finish(a, o) ==
    /\ a \in running
    /\ running' = running \ {a}
    /\ result' = [result EXCEPT ![a] = o]
    /\ UNCHANGED <<pc, attempt, toLaunch, pre, sweep, failures, coordination,
                   verdict, judged>>

Fail(F) == failures' = F /\ pc' = "settle"

(* resolvePostDesignPassTransition after a pass without implementation     *)
(* agents: TRUE when it continues with those that were not precompleted.   *)
DesignPass == toLaunch \cap Designs # {} /\ toLaunch \cap Impl = {}
ContinueImplementation == Unproven(Designs) = {} /\ Impl \ pre # {}

(* The launched agents have ended.                                         *)
AgentsFailed ==
    /\ pc = "run" /\ running = {}
    /\ Crashed(toLaunch) # {}
    /\ Fail({Failure(a, result[a]) : a \in Crashed(toLaunch)})
    /\ UNCHANGED <<attempt, toLaunch, running, result, pre, sweep,
                   coordination, verdict, judged>>

DesignReady ==
    /\ pc = "run" /\ running = {}
    /\ Crashed(toLaunch) = {}
    /\ DesignPass /\ ContinueImplementation
    /\ toLaunch' = Impl \ pre
    /\ attempt' = attempt + 1
    /\ pc' = "head"
    /\ UNCHANGED <<running, result, pre, sweep, failures, coordination,
                   verdict, judged>>

DesignBlocked ==
    /\ pc = "run" /\ running = {}
    /\ Crashed(toLaunch) = {}
    /\ DesignPass /\ Unproven(Designs) # {}
    /\ \E d \in Unproven(Designs) : Fail({Failure(d, "gate")})
    /\ UNCHANGED <<attempt, toLaunch, running, result, pre, sweep,
                   coordination, verdict, judged>>

-----------------------------------------------------------------------------
(* The gates, in the order the loop reads them: the implementation gate,   *)
(* the barriers, then the first failing gate of the reducer's snapshot.    *)
(* A set: the gate names one of the agents, or none.                       *)

(* Mutant: the state of the evidence is passed on as the status code.      *)
GateFailureRaw(a) == Failure(a, result[a])

GateFailure(a) ==
    Failure(a, IF result[a] = "adjudicate" THEN "adjudicate" ELSE "gate")

GateFailures ==
    IF Unproven(Impl) # {} THEN {GateFailure(a) : a \in Unproven(Impl)}
    ELSE IF Barred THEN {Failure(NoAgent, "barrier")}
    ELSE IF Unproven(Designs) # {} THEN {GateFailure(a) : a \in Unproven(Designs)}
    ELSE IF Unproven(Closure) # {}
         THEN {GateFailure(a) : a \in FirstSteward(Unproven(Closure))}
    ELSE IF human THEN {Failure(NoAgent, "clarification")}
    ELSE {}

(* Mutant: a pass that ran implementation agents again skips the sweep     *)
(* when every steward has passed before.                                   *)
AfterRunsReusesVerdicts ==
    /\ pc = "run" /\ running = {}
    /\ Crashed(toLaunch) = {}
    /\ IF toLaunch \cap Impl # {} /\ Unproven(Closure) # {}
       THEN StartSweep(Closure)
       ELSE pc' = "gates" /\ UNCHANGED sweep
    /\ UNCHANGED <<attempt, toLaunch, running, result, pre, failures,
                   coordination, verdict, judged>>

(* No agent crashed: the full sweep follows an implementation pass whose   *)
(* gates hold, any other pass goes to the gates.                           *)
AfterRuns ==
    /\ pc = "run" /\ running = {}
    /\ Crashed(toLaunch) = {}
    /\ ~(DesignPass /\ (ContinueImplementation \/ Unproven(Designs) # {}))
    /\ \/ /\ toLaunch \cap Impl # {}
          /\ Unproven(Impl) = {} /\ ~Barred
          /\ StartSweep(Closure)
          /\ UNCHANGED failures
       \/ /\ toLaunch \cap Impl # {}
          /\ Unproven(Impl) # {} \/ Barred
          /\ \E f \in GateFailures : Fail({f})
          /\ UNCHANGED sweep
       \/ /\ toLaunch \cap Impl = {}
          /\ pc' = "gates"
          /\ UNCHANGED <<sweep, failures>>
    /\ UNCHANGED <<attempt, toLaunch, running, result, pre, coordination,
                   verdict, judged>>

-----------------------------------------------------------------------------
(* runClosureSweepPhase: one stage after the other.                        *)
Stage == Head(queue)

SkipStage ==
    /\ pc = "sweep" /\ queue # <<>>
    /\ Stage \notin closing
    /\ IF Stage \in Required
       THEN Fail({Failure(Stage, "missing")}) /\ UNCHANGED sweep
       ELSE /\ queue' = Tail(queue)
            /\ UNCHANGED <<closing, forwarded, failures, pc>>
    /\ UNCHANGED <<attempt, toLaunch, running, result, pre, coordination,
                   verdict, judged>>

LaunchStage ==
    /\ pc = "sweep" /\ queue # <<>>
    /\ Stage \in closing
    /\ Launch({Stage})
    /\ pc' = "stage"
    /\ UNCHANGED <<attempt, toLaunch, pre, sweep, failures, coordination,
                   verdict>>

(* The stage's agent ended.  A proof gap is recorded as a blocker for it   *)
(* and the later stages, which run all the same.                           *)
EndStage ==
    /\ pc = "stage" /\ running = {}
    /\ \/ /\ result[Stage] = "ok"
          /\ queue' = Tail(queue)
          /\ pc' = "sweep"
          /\ UNCHANGED <<closing, forwarded, failures, blockers>>
       \/ /\ result[Stage] = "gap"
          /\ queue' = Tail(queue)
          /\ forwarded' = forwarded \cup {Failure(Stage, "gap")}
          /\ blockers' = blockers \cup ({queue[i] : i \in 1 .. Len(queue)} \cap closing)
          /\ pc' = "sweep"
          /\ UNCHANGED <<closing, failures>>
       \/ /\ result[Stage] \notin {"ok", "gap"}
          /\ Fail({Failure(Stage, result[Stage])})
          /\ UNCHANGED <<sweep, blockers>>
    /\ UNCHANGED <<attempt, toLaunch, running, result, pre, human, help,
                   asked, override, verdict, judged>>

EndSweep ==
    /\ pc = "sweep" /\ queue = <<>>
    /\ IF forwarded = {} THEN pc' = "gates" /\ UNCHANGED failures
       ELSE Fail(forwarded)
    /\ UNCHANGED <<attempt, toLaunch, running, result, pre, sweep,
                   coordination, verdict, judged>>

ReadGates ==
    /\ pc = "gates"
    /\ IF GateFailures = {} THEN Fail({})
       ELSE \E f \in GateFailures : Fail({f})
    /\ UNCHANGED <<attempt, toLaunch, running, result, pre, sweep,
                   coordination, verdict, judged>>

-----------------------------------------------------------------------------
(* The end of an attempt, after `await flushWaveControlTelemetry`.         *)
(* planRetryWaveAttempt: an operator's override comes first.               *)
Selected    == IF override # {} THEN override ELSE Relaunch
LastAttempt == attempt >= MaxRetries + 1
Named       == {f.agent : f \in failures} \ {NoAgent}
Recoverable == \A f \in failures : f.code = "timeout"
Undecided   == \A f \in failures : f.code = "adjudicate"

Stop(state) ==
    /\ recorded' = state
    /\ pc' = "done"
    /\ UNCHANGED <<attempt, toLaunch, marked>>

CompleteAttempt ==
    /\ pc = "settle" /\ failures = {}
    /\ recorded' = "completed"
    /\ pc' = "mark"
    /\ UNCHANGED <<attempt, toLaunch, running, result, pre, sweep, failures,
                   coordination, marked, judged>>

(* Out of attempts: recoverable failures leave an override for the next    *)
(* launcher (exit 43), others fail the wave (exit 1 or 42).                *)
GiveUp ==
    /\ pc = "settle" /\ failures # {} /\ LastAttempt
    /\ IF Recoverable
       THEN /\ override' = Selected \cup Unproven(Agents) \cup Named
            /\ Stop("blocked")
       ELSE Stop("failed") /\ UNCHANGED override
    /\ UNCHANGED <<running, result, pre, sweep, failures, human, help, asked,
                   blockers, judged>>

(* Nothing to relaunch, adjudication pending, or no executor left for a    *)
(* crashed agent: exit 43, and wave_run stays as it is.                    *)
Wait ==
    /\ pc = "settle" /\ failures # {} /\ ~LastAttempt
    /\ \/ Undecided
       \/ /\ override = {}
          /\ Relaunch = {} \/ \E f \in failures : f.code \in {"exit", "timeout"}
    /\ Stop(recorded)
    /\ UNCHANGED <<running, result, pre, sweep, failures, coordination, judged>>

(* Mutant: the attempt is not counted.                                     *)
RetryUncounted ==
    /\ pc = "settle" /\ failures # {} /\ ~LastAttempt
    /\ ~Undecided
    /\ toLaunch' = Selected
    /\ toLaunch' # {}
    /\ override' = {}
    /\ pc' = "head"
    /\ UNCHANGED <<attempt, running, result, pre, sweep, failures, human, help,
                   asked, blockers, verdict, judged>>

Retry ==
    /\ pc = "settle" /\ failures # {} /\ ~LastAttempt
    /\ ~Undecided
    /\ toLaunch' = Selected
    /\ toLaunch' # {}
    /\ override' = {}
    /\ attempt' = attempt + 1
    /\ pc' = "head"
    /\ UNCHANGED <<running, result, pre, sweep, failures, human, help, asked,
                   blockers, verdict, judged>>

(* After the loop, however it was left.                                    *)
MarkWaveCompleted ==
    /\ pc = "mark" \/ (pc = "head" /\ attempt > MaxRetries + 1)
    /\ marked' = TRUE
    /\ pc' = "done"
    /\ UNCHANGED <<attempt, toLaunch, running, result, pre, sweep, failures,
                   coordination, recorded, judged>>

-----------------------------------------------------------------------------
(* Outside the launcher.                                                   *)
program == <<pc, attempt, toLaunch, running, result, pre, sweep, failures,
             verdict, judged>>

Human ==
    /\ "human" \in External
    /\ human' = ~human
    /\ UNCHANGED <<program, help, asked, blockers, override>>

(* A helper request or a dependency is opened, assigned or resolved.       *)
Helper ==
    /\ "helper" \in External
    /\ help' \in ({"clear", "unassigned", "outbound"}
                      \cup (Agents \cap UNION Targets)) \ {help}
    /\ UNCHANGED <<program, human, asked, blockers, override>>

(* A clarification is routed to agents, or its follow-ups are resolved.    *)
Clarify ==
    /\ "clarify" \in External
    /\ asked' \in (Targets \cup {{}}) \ {asked}
    /\ UNCHANGED <<program, human, help, blockers, override>>

(* Anybody raises a blocker record, or the open ones are resolved.         *)
Block ==
    /\ "block" \in External
    /\ blockers' \in {blockers \cup S : S \in Targets} \cup {{}}
    /\ UNCHANGED <<program, human, help, asked, override>>

WriteOverride ==
    /\ override = {}
    /\ override' \in Overrides \ {{}}
    /\ UNCHANGED <<program, human, help, asked, blockers>>

Outside == pc # "done" /\ (Human \/ Helper \/ Clarify \/ Block \/ WriteOverride)

EndOfRuns == AgentsFailed \/ DesignReady \/ DesignBlocked \/ AfterRuns

Launcher ==
    \/ BeginAttempt
    \/ \E a \in Agents : \E o \in Outcomes(a) : Finish(a, o)
    \/ EndOfRuns
    \/ SkipStage \/ LaunchStage \/ EndStage \/ EndSweep
    \/ ReadGates
    \/ CompleteAttempt \/ GiveUp \/ Wait \/ Retry
    \/ MarkWaveCompleted

Next == Launcher \/ Outside

Spec == Init /\ [][Next]_vars

(* Agents end or are given up at their deadline, and the launcher is one   *)
(* process whose loop never waits for anything else.                       *)
FairSpec == Spec /\ WF_vars(Launcher)

-----------------------------------------------------------------------------
WaveTypeOK ==
    /\ pc \in {"head", "run", "sweep", "stage", "gates", "settle", "mark", "done"}
    /\ attempt \in 1 .. MaxRetries + 2
    /\ toLaunch \subseteq Agents
    /\ running \subseteq Agents
    /\ result \in [Agents -> Results]
    /\ pre \subseteq Designs \cup Impl
    /\ closing \subseteq Closure
    /\ queue \in Seq(Closure)
    /\ forwarded \subseteq Failures
    /\ failures \subseteq Failures
    /\ human \in BOOLEAN
    /\ help \in {"clear", "unassigned", "outbound"} \cup Agents
    /\ asked \subseteq Agents \cup {NoAgent}
    /\ blockers \subseteq Agents \cup {NoAgent}
    /\ override \subseteq Agents
    /\ recorded \in {"started", "completed", "failed", "blocked"}
    /\ marked \in BOOLEAN
    /\ judged \subseteq Closure

(* A wave_run recorded as completed rests on evidence of every agent that  *)
(* its gate accepts, and no agent is still running: nothing ran again      *)
(* between the gates and the record.                                       *)
CompletedOnEvidence ==
    recorded = "completed" =>
        (\A a \in Agents : result[a] = "ok") /\ running = {}

(* The stewards whose verdict completes a wave all ran after the last      *)
(* implementation agent this launcher started: none of them judged older   *)
(* code.  The code guarantees it when the completing attempt ran owners or *)
(* was a sweep; an attempt that an operator, a request or a blocker record *)
(* narrows to design agents goes to the gates with the verdicts that lie   *)
(* there.                                                                  *)
ClosureJudgesFinalCode ==
    recorded = "completed" /\ ~DesignPass => Required \subseteq judged

(* Somebody outside the launcher asked for this agent by name.             *)
Requested(a) == help = a \/ a \in asked \cup blockers \cup override

(* "Owners that already landed valid proof stay reusable": a retry never   *)
(* relaunches an implementation agent whose evidence passes, unless a      *)
(* request, a blocker record or an operator names it.                      *)
ProvenOwnersReused ==
    [][Retry => \A a \in toLaunch' \cap Impl :
            result[a] # "ok" \/ Requested(a)]_vars

(* Implementation starts after the design packets are accepted: no retry   *)
(* and no hand-off selects an owner while a design agent is unproven,      *)
(* unless a request, a blocker record or an operator names that owner.     *)
DesignBeforeImplementation ==
    [][toLaunch' # toLaunch => \A a \in toLaunch' \cap Impl :
            Unproven(Designs) = {} \/ Requested(a)]_vars

(* The attempts end: the loop neither spins nor waits forever.             *)
WaveSettles == <>(pc = "done")

-----------------------------------------------------------------------------
(* What the documentation says and the code does not do.                   *)

(* A wave is marked completed only when its gates passed.                  *)
MarkedOnGates == marked => recorded = "completed"
=============================================================================
