----------------------------- MODULE Autonomous -----------------------------
(***************************************************************************)
(* `wave autonomous`: scripts/wave-orchestrator/autonomous.mjs, with the   *)
(* launchers it submits to the supervisor, which run one after the other.  *)
(* The run state is read and written by the launcher of the lane, by the   *)
(* reconciles of the loop (also while a launcher runs) and by operators.   *)
(***************************************************************************)
EXTENDS RunState, Sequences

CONSTANTS
    MaxAttempts,  \* --max-attempts-per-wave
    MaxRuns,      \* bound: submitted runs
    MaxEvents,    \* bound: edits, failing and operators' reconciles
    MaxHandOffs,  \* bound: launchers that leave at a design hand-off
    AutoClosure,  \* automatic closure is configured
    DesignWaves   \* waves whose design agents run before the others

ASSUME AutonomousAssumption ==
    /\ MaxAttempts \in Nat \ {0} /\ MaxRuns \in Nat /\ MaxEvents \in Nat
    /\ MaxHandOffs \in Nat
    /\ AutoClosure \in BOOLEAN /\ DesignWaves \subseteq Waves
    /\ Reconcilers = {"loop", "launcher", "operator"}

VARIABLES
    auto,      \* the loop: where it is, its wave, attempt, and what it read
    runs,      \* the runs it submitted, in order
    launcher,  \* the launcher of the lane
    events,    \* events so far
    proven,    \* history: waves whose evidence was complete at some time
    handed     \* history: runs whose launcher left at a design hand-off

autoVars == <<entry, evidence, rec, auto, runs, launcher, events, proven, handed>>

NoLauncher == [at |-> "off", run |-> 0, read |-> Unread]

Init ==
    /\ RunStateInit
    /\ auto = [at |-> "preflight", wave |-> 0, attempt |-> 0, status |-> "none"]
    /\ runs = <<>>
    /\ launcher = NoLauncher
    /\ events = 0
    /\ proven = {w \in Waves : evidence[w] = "ok" \/ entry[w] = "legacy"}
    /\ handed = {}

-----------------------------------------------------------------------------
(* The launcher: it reconciles, runs its wave, and marks it completed.     *)
Wave == runs[launcher.run].wave

Start(r) ==
    /\ launcher.at = "off" /\ runs[r].status = "pending"
    /\ \A q \in 1..(r - 1) : runs[q].status # "pending"
    /\ launcher' = [NoLauncher EXCEPT !.at = "reconcile", !.run = r]
    /\ BeginReconcile("launcher")
    /\ UNCHANGED <<entry, evidence, auto, runs, events, proven, handed>>

(* The agents are launched; those with reusable results are not.           *)
BeginWave ==
    /\ launcher.at = "reconcile" /\ rec["launcher"].at = "idle"
    /\ launcher' = [launcher EXCEPT !.at = "wave"]
    /\ \E e \in {"gone", evidence[Wave]} : evidence' = [evidence EXCEPT ![Wave] = e]
    /\ UNCHANGED <<entry, rec, auto, runs, events, proven, handed>>

(* The gates pass and the loop over the attempts ends.                     *)
GatesPass ==
    /\ launcher.at = "wave"
    /\ \E e \in {"ok"} \cup (IF AutoClosure THEN {"partial"} ELSE {}) :
        evidence' = [evidence EXCEPT ![Wave] = e]
    /\ launcher' = [launcher EXCEPT !.at = "read"]
    /\ proven' = proven \cup {Wave}
    /\ UNCHANGED <<entry, rec, auto, runs, events, handed>>

(* The design agents pass on the last attempt while implementation agents  *)
(* remain: the launcher queues them and counts the attempt, which ends the *)
(* loop, and goes on as after the gates though it evaluated none.          *)
HandOff ==
    /\ launcher.at = "wave" /\ Wave \in DesignWaves
    /\ Cardinality(handed) < MaxHandOffs
    /\ launcher' = [launcher EXCEPT !.at = "read"]
    /\ handed' = handed \cup {launcher.run}
    /\ UNCHANGED <<entry, evidence, rec, auto, runs, events, proven>>

MarkRead ==
    /\ launcher.at = "read"
    /\ launcher' = [launcher EXCEPT !.at = "mark", !.read = entry]
    /\ UNCHANGED <<entry, evidence, rec, auto, runs, events, proven, handed>>

MarkWrite ==
    /\ launcher.at = "mark"
    /\ entry' = Marked(launcher.read, Wave)
    /\ launcher' = [launcher EXCEPT !.at = "exit"]
    /\ UNCHANGED <<evidence, rec, auto, runs, events, proven, handed>>

Exit ==
    /\ launcher.at = "exit"
    /\ runs' = [runs EXCEPT ![launcher.run].status = "completed"]
    /\ launcher' = NoLauncher
    /\ UNCHANGED <<entry, evidence, rec, auto, events, proven, handed>>

(* The wave fails or the launcher dies.                                    *)
Fail ==
    /\ launcher.at \in {"wave", "read", "mark"}
    /\ runs' = [runs EXCEPT ![launcher.run].status = "failed"]
    /\ launcher' = NoLauncher
    /\ UNCHANGED <<entry, evidence, rec, auto, events, proven, handed>>

-----------------------------------------------------------------------------
(* The loop.  It runs its reconciles as subprocesses and waits for them.   *)
Free == rec["loop"].at = "idle"

Preflight ==
    /\ auto.at = "preflight"
    /\ auto' = [auto EXCEPT !.at = "choose"]
    /\ BeginReconcile("loop")
    /\ UNCHANGED <<entry, evidence, runs, launcher, events, proven, handed>>

(* readRunState, nextIncompleteWave and readAutonomousBarrier, which may   *)
(* find open dependencies or questions and stop the loop.                  *)
Choose ==
    /\ auto.at = "choose" /\ Free
    /\ LET left == {w \in Waves : ~Complete(entry[w])} IN
        \/ auto' = [auto EXCEPT !.at = "stopped"]
        \/ left = {} /\ auto' = [auto EXCEPT !.at = "done"]
        \/ \E w \in left :
             /\ \A v \in left : w <= v
             /\ auto' = [auto EXCEPT !.at = "submit", !.wave = w, !.attempt = 1]
    /\ UNCHANGED <<entry, evidence, rec, runs, launcher, events, proven, handed>>

(* submitLauncherRun of buildSingleWaveLauncherArgs.                       *)
Submit ==
    /\ auto.at = "submit"
    /\ Len(runs) < MaxRuns
    /\ runs' = Append(runs, [wave |-> auto.wave, status |-> "pending"])
    /\ auto' = [auto EXCEPT !.at = "observe"]
    /\ UNCHANGED <<entry, evidence, rec, launcher, events, proven, handed>>

(* Mutant: no reconcile follows the last look at the run.                  *)
ObserveTrustsRunState ==
    /\ auto.at = "observe" /\ Free
    /\ IF runs[Len(runs)].status \in {"completed", "failed"}
       THEN /\ auto' = [auto EXCEPT !.at = "judge", !.status = runs[Len(runs)].status]
            /\ UNCHANGED rec
       ELSE BeginReconcile("loop") /\ UNCHANGED auto
    /\ UNCHANGED <<entry, evidence, runs, launcher, events, proven, handed>>

(* Mutant: only a completed run ends the observation.                      *)
ObserveAwaitsSuccess ==
    /\ auto.at = "observe" /\ Free
    /\ auto' = IF runs[Len(runs)].status = "completed"
               THEN [auto EXCEPT !.at = "judge", !.status = "completed"]
               ELSE auto
    /\ BeginReconcile("loop")
    /\ UNCHANGED <<entry, evidence, runs, launcher, events, proven, handed>>

(* waitForRunState returns a settled run, or its time is up; either way a  *)
(* reconcile follows.                                                      *)
Observe ==
    /\ auto.at = "observe" /\ Free
    /\ LET status == runs[Len(runs)].status IN
        auto' = IF status \in {"completed", "failed"}
                THEN [auto EXCEPT !.at = "judge", !.status = status]
                ELSE auto
    /\ BeginReconcile("loop")
    /\ UNCHANGED <<entry, evidence, runs, launcher, events, proven, handed>>

(* The reconcile while the loop waits fails: so does the attempt, though   *)
(* its run goes on.                                                        *)
ReconcileFails ==
    /\ auto.at \in {"choose", "observe", "judge"} /\ rec["loop"].at = "scan"
    /\ events < MaxEvents
    /\ events' = events + 1
    /\ auto' = CASE auto.at = "choose"  -> [auto EXCEPT !.at = "stopped"]
                 [] auto.at = "observe" -> [auto EXCEPT !.at = "judge", !.status = "failed"]
                 [] auto.at = "judge"   -> auto
    /\ rec' = [rec EXCEPT !["loop"] = Idle]
    /\ UNCHANGED <<entry, evidence, runs, launcher, proven, handed>>

(* Mutant: one attempt too many.                                           *)
JudgeOneMore ==
    /\ auto.at = "judge" /\ Free
    /\ auto' = IF auto.status = "completed" THEN [auto EXCEPT !.at = "choose", !.status = "none"]
               ELSE IF auto.attempt <= MaxAttempts
                    THEN [auto EXCEPT !.at = "submit", !.attempt = @ + 1, !.status = "none"]
                    ELSE [auto EXCEPT !.at = "stopped", !.status = "none"]
    /\ UNCHANGED <<entry, evidence, rec, runs, launcher, events, proven, handed>>

Judge ==
    /\ auto.at = "judge" /\ Free
    /\ auto' = CASE auto.status = "completed" -> [auto EXCEPT !.at = "choose", !.status = "none"]
                 [] auto.status = "failed" /\ auto.attempt < MaxAttempts ->
                        [auto EXCEPT !.at = "submit", !.attempt = @ + 1, !.status = "none"]
                 [] auto.status = "failed" /\ auto.attempt >= MaxAttempts ->
                        [auto EXCEPT !.at = "stopped", !.status = "none"]
    /\ UNCHANGED <<entry, evidence, rec, runs, launcher, events, proven, handed>>

-----------------------------------------------------------------------------
(* A wave file is edited, or a record of a wave is opened.                 *)
Disturb ==
    /\ events < MaxEvents
    /\ events' = events + 1
    /\ \E w \in Waves : \E e \in {"drifted", "gone"} :
        /\ evidence[w] = "ok"
        /\ evidence' = [evidence EXCEPT ![w] = e]
    /\ UNCHANGED <<entry, rec, auto, runs, launcher, proven, handed>>

OperatorReconciles ==
    /\ events < MaxEvents
    /\ events' = events + 1
    /\ rec["operator"].at = "idle"
    /\ BeginReconcile("operator")
    /\ UNCHANGED <<entry, evidence, auto, runs, launcher, proven, handed>>

ReconcileStep(p) ==
    Reconcile(p) /\ UNCHANGED <<auto, runs, launcher, events, proven, handed>>

LauncherStep ==
    \/ \E r \in DOMAIN runs : Start(r)
    \/ BeginWave \/ GatesPass \/ HandOff \/ MarkRead \/ MarkWrite \/ Exit \/ Fail

LoopStep == Preflight \/ Choose \/ Submit \/ Observe \/ Judge

Next ==
    \/ LauncherStep \/ LoopStep
    \/ \E p \in Reconcilers : ReconcileStep(p)
    \/ ReconcileFails \/ Disturb \/ OperatorReconciles

AutoSpec == Init /\ [][Next]_autoVars

(* Processes keep running; the supervisor starts what is pending, and a    *)
(* wave ends one way or the other.                                         *)
AutoFairSpec ==
    /\ AutoSpec
    /\ WF_autoVars(LauncherStep) /\ WF_autoVars(LoopStep)
    /\ \A p \in Reconcilers : WF_autoVars(ReconcileStep(p))

-----------------------------------------------------------------------------
(* Type invariant.                                                         *)
AutoTypeOK ==
    /\ RunStateTypeOK
    /\ auto \in [at : {"preflight", "choose", "submit", "observe", "judge", "stopped", "done"},
                 wave : Waves \cup {0}, attempt : 0..MaxAttempts,
                 status : {"none", "completed", "failed"}]
    /\ runs \in Seq([wave : Waves, status : {"pending", "completed", "failed"}])
    /\ launcher \in [at : {"off", "reconcile", "wave", "read", "mark", "exit"},
                     run : 0..Len(runs), read : [Waves -> Entries \cup {"unread"}]]
    /\ events \in 0..MaxEvents
    /\ proven \subseteq Waves
    /\ handed \subseteq DOMAIN runs

(* What a complete entry of the run state rests on: complete evidence, or  *)
(* a launcher that left at a design hand-off.                              *)
Vouched == proven \cup {runs[r].wave : r \in handed}

(* Waves run in order: a wave is submitted, and the loop reports all waves *)
(* complete, only when every earlier one has had complete evidence or was  *)
(* marked by a launcher that left at a design hand-off, in spite of the    *)
(* reconciles that overwrite each other, fail, and of edits.               *)
WavesInOrder ==
    /\ \A r \in DOMAIN runs : \A w \in Waves : w < runs[r].wave => w \in Vouched
    /\ auto.at = "done" => Waves \subseteq Vouched

(* The loop ends: it does not launch waves for ever.                       *)
AutonomousEnds == <>(auto.at \in {"stopped", "done"})

(* A wave whose run completed, but for a design hand-off, is not submitted *)
(* again while no edit, no failing and no operator's reconcile interferes: *)
(* the loop goes on to the next wave (docs/architecture/README.md,         *)
(* Autonomous Mode).  After a hand-off it does submit the wave again.      *)
CompletedNotRelaunched ==
    [][\A r \in DOMAIN runs :
          Submit /\ events = 0 /\ r \notin handed =>
             runs[r] # [wave |-> auto.wave, status |-> "completed"]]_autoVars
=============================================================================
