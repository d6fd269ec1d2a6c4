-------------------------- MODULE AutonomousProofs --------------------------
(***************************************************************************)
(* Proofs about Autonomous, for any set of waves and any bounds, with or   *)
(* without automatic closure.                                              *)
(*                                                                         *)
(* WavesInOrder is not inductive: whatever a process has read of the run   *)
(* state or of the evidence, and may write or act upon later, has to be    *)
(* vouched for too (Grounded).                                             *)
(***************************************************************************)
EXTENDS Autonomous, SequenceTheorems, TLAPS

(* What the locals of loop and launcher are good for.                      *)
LauncherHasRun == launcher.at # "off" => launcher.run \in DOMAIN runs
LauncherRead   == launcher.at = "mark" => launcher.read \in [Waves -> Entries]
LoopHasWave    == auto.at \in {"submit", "observe", "judge"} => auto.wave \in Waves
LoopHasStatus  == auto.at = "judge" => auto.status # "none"

TypeInv == AutoTypeOK /\ LauncherHasRun /\ LauncherRead /\ LoopHasWave /\ LoopHasStatus

(* Whatever is taken for complete is vouched for: in the file, in every    *)
(* copy of it, and in what was seen of the evidence.                       *)
Entered   == \A w \in Waves : Complete(entry[w]) => w \in Vouched
Evident   == \A w \in Waves : evidence[w] = "ok" => w \in Vouched
Scanned   == \A p \in Reconcilers, w \in Waves : rec[p].seen[w] = "ok" => w \in Vouched
ReadEntry == \A p \in Reconcilers, w \in Waves : Complete(rec[p].before[w]) => w \in Vouched
MarkEntry == \A w \in Waves : Complete(launcher.read[w]) => w \in Vouched
Passed    == launcher.at \in {"read", "mark"} => Wave \in Vouched
Earlier   == auto.at \in {"submit", "observe", "judge"} =>
                \A w \in Waves : w < auto.wave => w \in Vouched

Grounded ==
    /\ Entered /\ Evident /\ Scanned /\ ReadEntry /\ MarkEntry /\ Passed
    /\ Earlier /\ WavesInOrder

-----------------------------------------------------------------------------
LEMMA InitTyped == Init => TypeInv
<1> SUFFICES ASSUME Init PROVE TypeInv
  OBVIOUS
<1> USE RunStateAssumption, AutonomousAssumption DEF Init, RunStateInit
<1>1. RunStateTypeOK
  BY DEF RunStateTypeOK, Idle, Unread, Evidence, Entries
<1>2. runs \in Seq([wave : Waves, status : {"pending", "completed", "failed"}]) /\ Len(runs) = 0
  OBVIOUS
<1>3. launcher \in [at : {"off", "reconcile", "wave", "read", "mark", "exit"},
                     run : 0..Len(runs), read : [Waves -> Entries \cup {"unread"}]]
  BY <1>2 DEF NoLauncher, Unread
<1>4. AutoTypeOK
  BY <1>1, <1>2, <1>3 DEF AutoTypeOK, Evidence
<1>5. QED
  BY <1>4 DEF TypeInv, LauncherHasRun, LauncherRead, LoopHasWave, LoopHasStatus, NoLauncher

(* The run of a launcher names one of the waves.                           *)
LEMMA RunWave ==
  ASSUME TypeInv, NEW r \in DOMAIN runs
  PROVE  runs[r].wave \in Waves
<1> DEFINE R == [wave : Waves, status : {"pending", "completed", "failed"}]
<1>1. runs \in Seq(R)
  BY DEF TypeInv, AutoTypeOK
<1>2. runs[r] \in R
  <2> HIDE DEF R
  <2> QED BY <1>1, ElementOfSeq
<1>3. QED
  BY <1>2

(* The end of a launcher's run keeps the sequence of runs.                 *)
LEMMA RunEnds ==
  ASSUME TypeInv, launcher.at # "off", NEW s \in {"completed", "failed"},
         runs' = [runs EXCEPT ![launcher.run].status = s]
  PROVE  /\ runs' \in Seq([wave : Waves, status : {"pending", "completed", "failed"}])
         /\ Len(runs') = Len(runs)
         /\ \A r \in DOMAIN runs : runs'[r].wave = runs[r].wave
<1> DEFINE R == [wave : Waves, status : {"pending", "completed", "failed"}]
           e == [runs[launcher.run] EXCEPT !.status = s]
<1>1. runs \in Seq(R) /\ launcher.run \in 1..Len(runs)
  BY DEF TypeInv, AutoTypeOK, LauncherHasRun
<1> HIDE DEF R
<1>2. runs[launcher.run] \in R
  BY <1>1, ElementOfSeq
<1>3. e \in R /\ e.wave = runs[launcher.run].wave
  BY <1>2 DEF R
<1>4. runs' = [runs EXCEPT ![launcher.run] = e]
  OBVIOUS
<1> HIDE DEF e
<1>5. runs' \in Seq(R) /\ Len(runs') = Len(runs)
      /\ \A r \in 1..Len(runs) : runs'[r] = IF r = launcher.run THEN e ELSE runs[r]
  BY <1>1, <1>3, <1>4, ExceptSeq
<1>6. QED
  BY <1>1, <1>3, <1>5 DEF R

-----------------------------------------------------------------------------
(* What a reconcile does to its copy of the files keeps its type.          *)
Copies ==
    [at : {"idle", "scan", "write"}, seen : [Waves -> Evidence \cup {"unread"}],
     before : [Waves -> Entries \cup {"unread"}]]

LEMMA CopyTyped ==
  ASSUME NEW r \in Copies
  PROVE  /\ \A b \in [Waves -> Entries] : [r EXCEPT !.at = "write", !.before = b] \in Copies
         /\ \A w \in Waves, e \in Evidence : [r EXCEPT !.seen[w] = e] \in Copies
<1>1. ASSUME NEW b \in [Waves -> Entries]
      PROVE  [r EXCEPT !.at = "write", !.before = b] \in Copies
  BY DEF Copies
<1>2. ASSUME NEW w \in Waves, NEW e \in Evidence
      PROVE  [r EXCEPT !.seen[w] = e] \in Copies
  <2>1. [r.seen EXCEPT ![w] = e] \in [Waves -> Evidence \cup {"unread"}]
    BY DEF Copies
  <2>2. QED
    BY <2>1 DEF Copies
<1>3. QED
  BY <1>1, <1>2

(* A reconcile, whoever runs it, keeps its copy and the run state typed.   *)
LEMMA ReconcileTyped ==
  ASSUME RunStateTypeOK, NEW p \in Reconcilers, Reconcile(p)
  PROVE  RunStateTypeOK'
<1> USE RunStateAssumption
<1>1. CASE Scan(p)
  <2>1. rec \in [Reconcilers -> Copies] /\ entry \in [Waves -> Entries]
        /\ evidence \in [Waves -> Evidence]
    BY DEF RunStateTypeOK, Copies
  <2>2. ASSUME rec' = [rec EXCEPT ![p] = [@ EXCEPT !.at = "write", !.before = entry]]
        PROVE  rec' \in [Reconcilers -> Copies]
    <3>1. [rec[p] EXCEPT !.at = "write", !.before = entry] \in Copies
      BY <2>1, CopyTyped
    <3>2. QED
      BY <2>1, <2>2, <3>1
  <2>3. ASSUME NEW w \in Waves, rec' = [rec EXCEPT ![p].seen[w] = evidence[w]]
        PROVE  rec' \in [Reconcilers -> Copies]
    <3>1. [rec[p] EXCEPT !.seen[w] = evidence[w]] \in Copies
      BY <2>1, CopyTyped
    <3>2. QED
      BY <2>1, <2>3, <3>1
  <2>4. rec' \in [Reconcilers -> Copies]
    <3>1. \/ rec' = [rec EXCEPT ![p] = [@ EXCEPT !.at = "write", !.before = entry]]
          \/ \E w \in Waves : rec' = [rec EXCEPT ![p].seen[w] = evidence[w]]
      BY <1>1, Zenon DEF Scan
    <3>2. QED
      BY <2>2, <2>3, <3>1
  <2>5. QED
    BY <1>1, <2>1, <2>4 DEF Scan, RunStateTypeOK, Copies
<1>2. CASE WriteVerdicts(p)
  <2>1. \A w \in Waves : Verdict(rec[p].before[w], rec[p].seen[w]) \in Entries
    BY DEF Verdict, Entries
  <2>2. QED
    BY <1>2, <2>1 DEF WriteVerdicts, Idle, Unread, RunStateTypeOK
<1>3. QED
  BY <1>1, <1>2 DEF Reconcile

LEMMA BeginTyped ==
  ASSUME RunStateTypeOK, NEW p \in Reconcilers, BeginReconcile(p),
         UNCHANGED <<entry, evidence>>
  PROVE  RunStateTypeOK'
BY DEF RunStateTypeOK, BeginReconcile, Idle, Unread, Entries, Evidence

(* Changes of the loop's locals that keep their type.                      *)
LoopLocals ==
    [at : {"preflight", "choose", "submit", "observe", "judge", "stopped", "done"},
     wave : Waves \cup {0}, attempt : 0..MaxAttempts, status : {"none", "completed", "failed"}]

LEMMA LoopTyped ==
  ASSUME auto \in LoopLocals
  PROVE  /\ [auto EXCEPT !.at = "stopped"] \in LoopLocals
         /\ [auto EXCEPT !.at = "done"] \in LoopLocals
         /\ \A w \in Waves :
                [auto EXCEPT !.at = "submit", !.wave = w, !.attempt = 1] \in LoopLocals
         /\ [auto EXCEPT !.at = "choose", !.status = "none"] \in LoopLocals
         /\ [auto EXCEPT !.at = "stopped", !.status = "none"] \in LoopLocals
         /\ [auto EXCEPT !.at = "judge", !.status = "failed"] \in LoopLocals
         /\ auto.attempt < MaxAttempts =>
                [auto EXCEPT !.at = "submit", !.attempt = @ + 1, !.status = "none"] \in LoopLocals
<1>1. ASSUME NEW w \in Waves
      PROVE  [auto EXCEPT !.at = "submit", !.wave = w, !.attempt = 1] \in LoopLocals
  <2>1. [auto EXCEPT !.at = "submit"] \in LoopLocals
    BY DEF LoopLocals
  <2>2. \A a \in LoopLocals : [a EXCEPT !.wave = w] \in LoopLocals
    BY DEF LoopLocals
  <2>3. \A a \in LoopLocals : [a EXCEPT !.attempt = 1] \in LoopLocals
    BY AutonomousAssumption DEF LoopLocals
  <2>4. QED
    BY <2>1, <2>2, <2>3
<1>2. ASSUME auto.attempt < MaxAttempts
      PROVE  [auto EXCEPT !.at = "submit", !.attempt = @ + 1, !.status = "none"] \in LoopLocals
  <2>1. auto.attempt + 1 \in 0..MaxAttempts
    BY <1>2, AutonomousAssumption DEF LoopLocals
  <2>2. QED
    BY <2>1 DEF LoopLocals
<1>3. QED
  BY <1>1, <1>2 DEF LoopLocals

LEMMA TypeStep ==
  ASSUME TypeInv, [Next]_autoVars
  PROVE  TypeInv'
<1> DEFINE Run == [wave : Waves, status : {"pending", "completed", "failed"}]
<1> USE RunStateAssumption, AutonomousAssumption
    DEF TypeInv, AutoTypeOK, LauncherHasRun, LauncherRead, LoopHasWave, LoopHasStatus
<1>0. Len(runs) \in Nat /\ DOMAIN runs = 1..Len(runs)
  OBVIOUS
<1>a. auto \in LoopLocals
  BY DEF LoopLocals
<1>1. ASSUME NEW r \in DOMAIN runs, Start(r) PROVE TypeInv'
  <2>1. RunStateTypeOK'
    BY <1>1, BeginTyped DEF Start
  <2>2. launcher' = [at |-> "reconcile", run |-> r, read |-> Unread]
    BY <1>1 DEF Start, NoLauncher
  <2>3. launcher' \in [at : {"off", "reconcile", "wave", "read", "mark", "exit"},
                       run : 0..Len(runs), read : [Waves -> Entries \cup {"unread"}]]
    BY <1>0, <2>2 DEF Unread
  <2>4. QED
    BY <1>0, <1>1, <2>1, <2>2, <2>3 DEF Start
<1>2. CASE BeginWave
  <2>1. Wave \in Waves
    BY <1>2, RunWave DEF BeginWave, Wave
  <2>2. PICK e \in {"gone", evidence[Wave]} : evidence' = [evidence EXCEPT ![Wave] = e]
    BY <1>2 DEF BeginWave
  <2>3. RunStateTypeOK'
    BY <1>2, <2>1, <2>2 DEF BeginWave, RunStateTypeOK, Evidence
  <2>4. launcher' = [at |-> "wave", run |-> launcher.run, read |-> launcher.read]
    BY <1>2 DEF BeginWave
  <2>5. QED
    BY <1>0, <1>2, <2>3, <2>4 DEF BeginWave
<1>3. CASE GatesPass
  <2>1. Wave \in Waves
    BY <1>3, RunWave DEF GatesPass, Wave
  <2>2. RunStateTypeOK'
    BY <1>3, <2>1 DEF GatesPass, RunStateTypeOK, Evidence
  <2>3. QED
    BY <1>0, <1>3, <2>1, <2>2 DEF GatesPass
<1>18. CASE HandOff
  <2>1. RunStateTypeOK'
    BY <1>18 DEF HandOff, RunStateTypeOK
  <2>2. QED
    BY <1>0, <1>18, <2>1 DEF HandOff
<1>4. CASE MarkRead
  <2>1. entry \in [Waves -> Entries] /\ launcher.run \in 0..Len(runs) /\ launcher.run \in DOMAIN runs
    BY <1>4 DEF MarkRead, RunStateTypeOK
  <2>2. launcher' = [at |-> "mark", run |-> launcher.run, read |-> entry]
    BY <1>4 DEF MarkRead
  <2>3. launcher' \in [at : {"off", "reconcile", "wave", "read", "mark", "exit"},
                       run : 0..Len(runs), read : [Waves -> Entries \cup {"unread"}]]
    BY <2>1, <2>2
  <2>4. RunStateTypeOK'
    BY <1>4 DEF MarkRead, RunStateTypeOK
  <2>5. QED
    BY <1>0, <1>4, <2>1, <2>2, <2>3, <2>4 DEF MarkRead
<1>5. CASE MarkWrite
  <2>1. RunStateTypeOK'
    BY <1>5 DEF MarkWrite, Marked, RunStateTypeOK, Entries
  <2>2. QED
    BY <1>0, <1>5, <2>1 DEF MarkWrite
<1>6. CASE Exit \/ Fail
  <2>1. runs' \in Seq(Run) /\ Len(runs') = Len(runs)
    BY <1>6, RunEnds DEF Exit, Fail
  <2>2. RunStateTypeOK'
    BY <1>6 DEF Exit, Fail, RunStateTypeOK
  <2>3. launcher' = [at |-> "off", run |-> 0, read |-> Unread]
        /\ UNCHANGED <<auto, events, proven, handed>>
    BY <1>6 DEF Exit, Fail, NoLauncher
  <2>4. QED
    BY <1>0, <2>1, <2>2, <2>3 DEF Unread
<1>7. CASE Preflight
  <2>1. RunStateTypeOK'
    BY <1>7, BeginTyped DEF Preflight
  <2>2. QED
    BY <1>0, <1>7, <2>1 DEF Preflight
<1>8. CASE Choose
  <2>1. RunStateTypeOK'
    BY <1>8 DEF Choose, RunStateTypeOK
  <2>2. auto' = [auto EXCEPT !.at = "stopped"] \/ auto' = [auto EXCEPT !.at = "done"]
        \/ \E w \in Waves : auto' = [auto EXCEPT !.at = "submit", !.wave = w, !.attempt = 1]
    BY <1>8 DEF Choose
  <2>4. auto' \in LoopLocals
    <3>1. ASSUME NEW w \in Waves, auto' = [auto EXCEPT !.at = "submit", !.wave = w, !.attempt = 1]
          PROVE  auto' \in LoopLocals
      BY <3>1, <1>a, LoopTyped
    <3>2. QED
      BY <2>2, <3>1, <1>a, LoopTyped
  <2>5. auto'.at \in {"stopped", "done"} \/ (auto'.at = "submit" /\ auto'.wave \in Waves)
    BY <2>2, <1>a DEF LoopLocals
  <2>6. QED
    BY <1>0, <1>8, <2>1, <2>4, <2>5 DEF Choose, LoopLocals
<1>9. CASE Submit
  <2>1. [wave |-> auto.wave, status |-> "pending"] \in Run
    BY <1>9 DEF Submit
  <2>2. runs' \in Seq(Run) /\ Len(runs') = Len(runs) + 1
    BY <1>0, <1>9, <2>1, AppendProperties DEF Submit
  <2>3. RunStateTypeOK'
    BY <1>9 DEF Submit, RunStateTypeOK
  <2>4. launcher' = launcher /\ 0..Len(runs) \subseteq 0..Len(runs')
    BY <1>0, <1>9, <2>2 DEF Submit
  <2>5. launcher' \in [at : {"off", "reconcile", "wave", "read", "mark", "exit"},
                       run : 0..Len(runs'), read : [Waves -> Entries \cup {"unread"}]]
    BY <2>4
  <2>6. DOMAIN runs \subseteq DOMAIN runs'
    BY <1>0, <2>2
  <2>7. auto' = [auto EXCEPT !.at = "observe"]
    BY <1>9 DEF Submit
  <2>8. QED
    BY <1>0, <1>9, <2>2, <2>3, <2>4, <2>5, <2>6, <2>7 DEF Submit
<1>10. CASE Observe
  <2>1. RunStateTypeOK'
    BY <1>10, BeginTyped DEF Observe
  <2>2. QED
    BY <1>0, <1>10, <2>1 DEF Observe
<1>11. CASE Judge
  <2>1. RunStateTypeOK'
    BY <1>11 DEF Judge, RunStateTypeOK
  <2>2. auto.status \in {"completed", "failed"}
    BY <1>11 DEF Judge
  <2>4. \/ auto' = [auto EXCEPT !.at = "choose", !.status = "none"]
        \/ /\ auto.attempt < MaxAttempts
           /\ auto' = [auto EXCEPT !.at = "submit", !.attempt = @ + 1, !.status = "none"]
        \/ auto' = [auto EXCEPT !.at = "stopped", !.status = "none"]
    BY <1>11, <2>2 DEF Judge
  <2>5. auto' \in LoopLocals
    BY <2>4, <1>a, LoopTyped
  <2>6. auto'.at \in {"choose", "stopped"} \/ (auto'.at = "submit" /\ auto'.wave \in Waves)
    BY <1>11, <2>4, <1>a DEF Judge, LoopLocals
  <2>7. QED
    BY <1>0, <1>11, <2>1, <2>5, <2>6 DEF Judge, LoopLocals
<1>12. ASSUME NEW p \in Reconcilers, ReconcileStep(p) PROVE TypeInv'
  <2>1. RunStateTypeOK'
    BY <1>12, ReconcileTyped DEF ReconcileStep
  <2>2. QED
    BY <1>0, <1>12, <2>1 DEF ReconcileStep
<1>13. CASE ReconcileFails
  <2>1. RunStateTypeOK'
    BY <1>13 DEF ReconcileFails, RunStateTypeOK, Idle, Unread
  <2>2. \/ auto' = [auto EXCEPT !.at = "stopped"]
        \/ auto' = [auto EXCEPT !.at = "judge", !.status = "failed"] /\ auto.at = "observe"
        \/ auto' = auto
    BY <1>13 DEF ReconcileFails
  <2>3. auto' \in LoopLocals
    BY <2>2, <1>a, LoopTyped
  <2>4. LoopHasWave' /\ LoopHasStatus'
    BY <2>2, <1>a DEF LoopLocals
  <2>5. events' \in 0..MaxEvents /\ UNCHANGED <<runs, launcher, proven, handed>>
    BY <1>13 DEF ReconcileFails
  <2>6. QED
    BY <1>0, <2>1, <2>3, <2>4, <2>5 DEF LoopLocals
<1>14. CASE Disturb
  <2>1. RunStateTypeOK'
    BY <1>14 DEF Disturb, RunStateTypeOK, Evidence
  <2>2. QED
    BY <1>0, <1>14, <2>1 DEF Disturb
<1>15. CASE OperatorReconciles
  <2>1. RunStateTypeOK'
    BY <1>15, BeginTyped DEF OperatorReconciles
  <2>2. QED
    BY <1>0, <1>15, <2>1 DEF OperatorReconciles
<1>16. CASE UNCHANGED autoVars
  BY <1>0, <1>16 DEF autoVars, RunStateTypeOK
<1>17. QED
  BY <1>1, <1>2, <1>3, <1>4, <1>5, <1>6, <1>7, <1>8, <1>9, <1>10, <1>11, <1>12, <1>13,
     <1>14, <1>15, <1>16, <1>18 DEF Next, LauncherStep, LoopStep

(* Loop, launcher, runs and run state keep their types.                    *)
THEOREM AutonomousTypeCorrect == AutoSpec => []AutoTypeOK
<1>1. TypeInv => AutoTypeOK
  BY DEF TypeInv
<1>2. QED
  BY InitTyped, TypeStep, <1>1, PTL DEF AutoSpec
-----------------------------------------------------------------------------
LEMMA InitGrounded == Init => Grounded
<1> SUFFICES ASSUME Init PROVE Grounded
  OBVIOUS
<1>1. runs = <<>> /\ auto.at = "preflight" /\ launcher = NoLauncher
  BY DEF Init
<1>2. Entered /\ Evident /\ Scanned /\ ReadEntry
  BY DEF Init, RunStateInit, Entered, Evident, Scanned, ReadEntry, Complete, Idle, Unread, Vouched
<1>3. MarkEntry /\ Passed /\ Earlier /\ WavesInOrder
  BY <1>1 DEF MarkEntry, Passed, Earlier, WavesInOrder, NoLauncher, Unread, Complete
<1>4. QED
  BY <1>2, <1>3 DEF Grounded

(* What is vouched for once is for ever: runs keep their waves.            *)
VouchedLasts == \A w : w \in Vouched => w \in Vouched'

LEMMA VouchedGrows ==
  ASSUME TypeInv, [Next]_autoVars
  PROVE  VouchedLasts
<1>1. proven \subseteq proven' /\ handed \subseteq handed'
  BY DEF Next, LauncherStep, LoopStep, Start, BeginWave, GatesPass, HandOff, MarkRead, MarkWrite,
     Exit, Fail, Preflight, Choose, Submit, Observe, Judge, ReconcileStep, ReconcileFails, Disturb,
     OperatorReconciles, autoVars
<1>2. \A r \in DOMAIN runs : runs'[r].wave = runs[r].wave
  <2>1. CASE Submit
    BY <2>1, AppendProperties DEF Submit, TypeInv, AutoTypeOK, LoopHasWave
  <2>2. CASE Exit \/ Fail
    BY <2>2, RunEnds DEF Exit, Fail
  <2>3. CASE runs' = runs
    BY <2>3
  <2>4. QED
    BY <2>1, <2>2, <2>3 DEF Next, LauncherStep, LoopStep, Start, BeginWave, GatesPass, HandOff,
       MarkRead, MarkWrite, Preflight, Choose, Observe, Judge, ReconcileStep, ReconcileFails,
       Disturb, OperatorReconciles, autoVars
<1>3. handed \subseteq DOMAIN runs
  BY DEF TypeInv, AutoTypeOK
<1>4. QED
  BY <1>1, <1>2, <1>3 DEF VouchedLasts, Vouched

(* What a reconcile reads and writes is grounded when the files are.       *)
LEMMA ReconcileGrounded ==
  ASSUME RunStateTypeOK, Entered, Evident, Scanned, ReadEntry, VouchedLasts,
         NEW p \in Reconcilers, Reconcile(p)
  PROVE  Entered' /\ Evident' /\ Scanned' /\ ReadEntry'
<1> USE DEF Entered, Evident, Scanned, ReadEntry, VouchedLasts
<1>0. rec \in [Reconcilers -> Copies] /\ entry \in [Waves -> Entries]
      /\ evidence \in [Waves -> Evidence]
  BY DEF RunStateTypeOK, Copies
<1>1. CASE Scan(p)
  <2>1. ASSUME rec' = [rec EXCEPT ![p] = [@ EXCEPT !.at = "write", !.before = entry]]
        PROVE  Scanned' /\ ReadEntry'
    <3>1. \A q \in Reconcilers : /\ rec'[q].seen = rec[q].seen
                                  /\ rec'[q].before = IF q = p THEN entry ELSE rec[q].before
      BY <1>0, <2>1 DEF Copies
    <3>2. QED
      BY <3>1
  <2>2. ASSUME NEW w \in Waves, rec' = [rec EXCEPT ![p].seen[w] = evidence[w]]
        PROVE  Scanned' /\ ReadEntry'
    <3>1. \A q \in Reconcilers :
             /\ rec'[q].before = rec[q].before
             /\ rec'[q].seen = IF q = p THEN [rec[q].seen EXCEPT ![w] = evidence[w]] ELSE rec[q].seen
      BY <1>0, <2>2 DEF Copies
    <3>2. \A q \in Reconcilers, v \in Waves :
             rec'[q].seen[v] = IF q = p /\ v = w THEN evidence[w] ELSE rec[q].seen[v]
      BY <1>0, <3>1 DEF Copies
    <3>3. QED
      BY <3>1, <3>2
  <2>3. \/ rec' = [rec EXCEPT ![p] = [@ EXCEPT !.at = "write", !.before = entry]]
        \/ \E w \in Waves : rec' = [rec EXCEPT ![p].seen[w] = evidence[w]]
    BY <1>1, Zenon DEF Scan
  <2>4. UNCHANGED <<entry, evidence>>
    BY <1>1 DEF Scan
  <2>5. QED
    BY <2>1, <2>2, <2>3, <2>4
<1>2. CASE WriteVerdicts(p)
  <2>1. \A w \in Waves : Complete(Verdict(rec[p].before[w], rec[p].seen[w])) => w \in Vouched
    BY DEF Verdict, Complete, Authoritative
  <2>2. Entered'
    BY <1>2, <2>1 DEF WriteVerdicts
  <2>3. \A q \in Reconcilers : rec'[q] = IF q = p THEN Idle ELSE rec[q]
    BY <1>0, <1>2 DEF WriteVerdicts
  <2>4. Scanned' /\ ReadEntry'
    BY <2>3 DEF Idle, Unread, Complete
  <2>5. QED
    BY <1>2, <2>2, <2>4 DEF WriteVerdicts
<1>3. QED
  BY <1>1, <1>2 DEF Reconcile

LEMMA BeginGrounded ==
  ASSUME RunStateTypeOK, Scanned, ReadEntry, VouchedLasts,
         NEW p \in Reconcilers, BeginReconcile(p)
  PROVE  Scanned' /\ ReadEntry'
<1>1. \A q \in Reconcilers : rec'[q] = IF q = p THEN [Idle EXCEPT !.at = "scan"] ELSE rec[q]
  BY DEF BeginReconcile, RunStateTypeOK
<1>2. [Idle EXCEPT !.at = "scan"].seen = Unread /\ [Idle EXCEPT !.at = "scan"].before = Unread
  BY DEF Idle
<1>3. \A w \in Waves : Unread[w] # "ok" /\ ~Complete(Unread[w])
  BY DEF Unread, Complete
<1>4. QED
  BY <1>1, <1>2, <1>3 DEF Scanned, ReadEntry, VouchedLasts

LEMMA GroundedStep ==
  ASSUME TypeInv, Grounded, [Next]_autoVars
  PROVE  Grounded'
<1> USE DEF Grounded
<1>0. /\ RunStateTypeOK /\ DOMAIN runs = 1..Len(runs) /\ Len(runs) \in Nat
      /\ launcher \in [at : {"off", "reconcile", "wave", "read", "mark", "exit"},
                       run : 0..Len(runs), read : [Waves -> Entries \cup {"unread"}]]
      /\ auto \in LoopLocals
  BY DEF TypeInv, AutoTypeOK, LoopLocals
<1>v. VouchedLasts
  BY VouchedGrows
<1> USE <1>v DEF VouchedLasts
<1>1. ASSUME NEW r \in DOMAIN runs, Start(r) PROVE Grounded'
  <2>1. Scanned' /\ ReadEntry'
    BY <1>0, <1>1, BeginGrounded, AutonomousAssumption DEF Start
  <2>2. launcher' = [at |-> "reconcile", run |-> r, read |-> Unread]
    BY <1>1 DEF Start, NoLauncher
  <2>3. MarkEntry' /\ Passed'
    BY <2>2 DEF MarkEntry, Passed, Unread, Complete
  <2>4. QED
    BY <1>1, <2>1, <2>3 DEF Start, Entered, Evident, Earlier, WavesInOrder
<1>2. CASE BeginWave
  <2>1. PICK e \in {"gone", evidence[Wave]} : evidence' = [evidence EXCEPT ![Wave] = e]
    BY <1>2 DEF BeginWave
  <2>2. Evident'
    BY <1>0, <1>2, <2>1 DEF BeginWave, Evident, RunStateTypeOK
  <2>3. launcher'.read = launcher.read /\ launcher'.at = "wave"
    BY <1>0, <1>2 DEF BeginWave
  <2>4. QED
    BY <1>2, <2>2, <2>3 DEF BeginWave, Entered, Scanned, ReadEntry, MarkEntry, Passed,
       Earlier, WavesInOrder
<1>3. CASE GatesPass
  <2>1. launcher'.read = launcher.read /\ launcher'.run = launcher.run /\ runs' = runs
    BY <1>0, <1>3 DEF GatesPass
  <2>2. Wave \in Vouched' /\ Wave' = Wave
    BY <1>3, <2>1 DEF GatesPass, Wave, Vouched
  <2>3. Evident'
    BY <1>0, <1>3, <2>2 DEF GatesPass, Evident, RunStateTypeOK
  <2>4. Wave \in Waves
    BY <1>3, RunWave DEF GatesPass, Wave, TypeInv, LauncherHasRun
  <2>5. WavesInOrder'
    BY <1>0, <1>3, <2>2, <2>4 DEF GatesPass, WavesInOrder
  <2>6. QED
    BY <1>3, <2>1, <2>2, <2>3, <2>5 DEF GatesPass, Entered, Scanned, ReadEntry, MarkEntry,
       Passed, Earlier
<1>18. CASE HandOff
  <2>1. launcher'.read = launcher.read /\ launcher'.run = launcher.run /\ runs' = runs
        /\ launcher.run \in handed'
    BY <1>0, <1>18 DEF HandOff
  <2>2. Wave \in Vouched' /\ Wave' = Wave
    BY <2>1 DEF Wave, Vouched
  <2>3. QED
    BY <1>18, <2>1, <2>2 DEF HandOff, Entered, Evident, Scanned, ReadEntry, MarkEntry,
       Passed, Earlier, WavesInOrder
<1>4. CASE MarkRead
  <2>1. launcher'.read = entry /\ launcher'.run = launcher.run /\ launcher.at = "read"
    BY <1>0, <1>4 DEF MarkRead
  <2>2. QED
    BY <1>4, <2>1 DEF MarkRead, Entered, Evident, Scanned, ReadEntry, MarkEntry, Passed, Wave,
       Earlier, WavesInOrder
<1>5. CASE MarkWrite
  <2>1. launcher'.read = launcher.read /\ launcher'.at = "exit"
    BY <1>0, <1>5 DEF MarkWrite
  <2>2. \A w \in Waves : entry'[w] = IF w = Wave THEN "completed" ELSE launcher.read[w]
    BY <1>0, <1>5 DEF MarkWrite, Marked
  <2>3. Entered'
    BY <1>5, <2>2 DEF MarkWrite, Entered, MarkEntry, Passed
  <2>4. QED
    BY <1>5, <2>1, <2>3 DEF MarkWrite, Evident, Scanned, ReadEntry, MarkEntry, Passed,
       Earlier, WavesInOrder
<1>6. CASE Exit \/ Fail
  <2>1. /\ Len(runs') = Len(runs) /\ \A r \in DOMAIN runs : runs'[r].wave = runs[r].wave
        /\ DOMAIN runs' = 1..Len(runs')
    BY <1>6, RunEnds DEF Exit, Fail
  <2>2. WavesInOrder'
    BY <1>0, <1>6, <2>1 DEF Exit, Fail, WavesInOrder
  <2>3. MarkEntry' /\ Passed'
    BY <1>6 DEF Exit, Fail, NoLauncher, MarkEntry, Passed, Unread, Complete
  <2>4. QED
    BY <1>6, <2>2, <2>3 DEF Exit, Fail, Entered, Evident, Scanned, ReadEntry, Earlier
<1>7. CASE Preflight
  <2>1. Scanned' /\ ReadEntry'
    BY <1>0, <1>7, BeginGrounded, AutonomousAssumption DEF Preflight
  <2>2. auto'.at = "choose"
    BY <1>0, <1>7 DEF Preflight, LoopLocals
  <2>3. QED
    BY <1>7, <2>1, <2>2 DEF Preflight, Entered, Evident, MarkEntry, Passed, Wave, Earlier,
       WavesInOrder
<1>8. CASE Choose
  <2>1. CASE auto'.at = "stopped"
    BY <1>8, <2>1 DEF Choose, Entered, Evident, Scanned, ReadEntry, MarkEntry, Passed, Wave,
       Earlier, WavesInOrder
  <2>2. CASE auto'.at = "done" /\ \A w \in Waves : Complete(entry[w])
    BY <1>0, <1>8, <2>2 DEF Choose, Entered, Evident, Scanned, ReadEntry, MarkEntry, Passed,
       Wave, Earlier, WavesInOrder
  <2>3. ASSUME NEW w \in Waves, \A v \in Waves : ~Complete(entry[v]) => w <= v,
               auto'.at = "submit", auto'.wave = w
        PROVE  Grounded'
    <3>1. \A v \in Waves : v < w => v \in Vouched
      BY <2>3, RunStateAssumption DEF Entered
    <3>2. QED
      BY <1>8, <2>3, <3>1 DEF Choose, Entered, Evident, Scanned, ReadEntry, MarkEntry, Passed,
         Wave, Earlier, WavesInOrder
  <2>4. QED
    BY <1>0, <1>8, <2>1, <2>2, <2>3 DEF Choose, LoopLocals
<1>9. CASE Submit
  <2>1. auto'.at = "observe" /\ auto'.wave = auto.wave
    BY <1>0, <1>9 DEF Submit, LoopLocals
  <2>2. /\ DOMAIN runs' = 1..Len(runs) + 1
        /\ \A r \in 1..Len(runs) : runs'[r] = runs[r]
        /\ runs'[Len(runs) + 1] = [wave |-> auto.wave, status |-> "pending"]
    BY <1>9, AppendProperties DEF Submit, TypeInv, AutoTypeOK, LoopHasWave
  <2>3. WavesInOrder'
    BY <1>0, <1>9, <2>1, <2>2 DEF Submit, WavesInOrder, Earlier
  <2>4. Passed'
    BY <1>0, <1>9, <2>2 DEF Submit, Passed, Wave, TypeInv, LauncherHasRun
  <2>5. QED
    BY <1>9, <2>1, <2>3, <2>4 DEF Submit, Entered, Evident, Scanned, ReadEntry, MarkEntry, Earlier
<1>10. CASE Observe
  <2>1. Scanned' /\ ReadEntry'
    BY <1>0, <1>10, BeginGrounded, AutonomousAssumption DEF Observe
  <2>2. auto' = auto \/ (auto'.at = "judge" /\ auto'.wave = auto.wave)
    BY <1>0, <1>10 DEF Observe, LoopLocals
  <2>3. QED
    BY <1>10, <2>1, <2>2 DEF Observe, Entered, Evident, MarkEntry, Passed, Wave, Earlier,
       WavesInOrder
<1>11. CASE Judge
  <2>1. auto'.at \in {"choose", "stopped"} \/ (auto'.at = "submit" /\ auto'.wave = auto.wave)
    <3>1. auto.status \in {"completed", "failed"}
      BY <1>0, <1>11 DEF Judge, LoopLocals, TypeInv, LoopHasStatus
    <3>2. \/ auto' = [auto EXCEPT !.at = "choose", !.status = "none"]
          \/ auto' = [auto EXCEPT !.at = "submit", !.attempt = @ + 1, !.status = "none"]
          \/ auto' = [auto EXCEPT !.at = "stopped", !.status = "none"]
      BY <1>0, <1>11, <3>1, AutonomousAssumption DEF Judge, LoopLocals
    <3>3. QED
      BY <1>0, <3>2 DEF LoopLocals
  <2>2. QED
    BY <1>11, <2>1 DEF Judge, Entered, Evident, Scanned, ReadEntry, MarkEntry, Passed, Wave,
       Earlier, WavesInOrder
<1>12. ASSUME NEW p \in Reconcilers, ReconcileStep(p) PROVE Grounded'
  <2>1. Entered' /\ Evident' /\ Scanned' /\ ReadEntry'
    BY <1>0, <1>12, ReconcileGrounded DEF ReconcileStep
  <2>2. QED
    BY <1>12, <2>1 DEF ReconcileStep, MarkEntry, Passed, Wave, Earlier, WavesInOrder
<1>13. CASE ReconcileFails
  <2>1. auto'.at = "stopped" \/ (auto'.at = "judge" /\ auto.at = "observe" /\ auto'.wave = auto.wave)
        \/ auto' = auto
    BY <1>0, <1>13 DEF ReconcileFails, LoopLocals
  <2>2. \A q \in Reconcilers : rec'[q] = IF q = "loop" THEN Idle ELSE rec[q]
    BY <1>0, <1>13 DEF ReconcileFails, RunStateTypeOK
  <2>3. Scanned' /\ ReadEntry'
    BY <1>13, <2>2 DEF ReconcileFails, Scanned, ReadEntry, Idle, Unread, Complete
  <2>4. QED
    BY <1>13, <2>1, <2>3 DEF ReconcileFails, Entered, Evident, MarkEntry, Passed, Wave, Earlier,
       WavesInOrder
<1>14. CASE Disturb
  <2>1. Evident'
    BY <1>0, <1>14 DEF Disturb, Evident, RunStateTypeOK
  <2>2. QED
    BY <1>14, <2>1 DEF Disturb, Entered, Scanned, ReadEntry, MarkEntry, Passed, Wave, Earlier,
       WavesInOrder
<1>15. CASE OperatorReconciles
  <2>1. Scanned' /\ ReadEntry'
    BY <1>0, <1>15, BeginGrounded, AutonomousAssumption DEF OperatorReconciles
  <2>2. QED
    BY <1>15, <2>1 DEF OperatorReconciles, Entered, Evident, MarkEntry, Passed, Wave, Earlier,
       WavesInOrder
<1>16. CASE UNCHANGED autoVars
  BY <1>16 DEF autoVars, Entered, Evident, Scanned, ReadEntry, MarkEntry, Passed, Wave, Earlier,
     WavesInOrder
<1>17. QED
  BY <1>1, <1>2, <1>3, <1>4, <1>5, <1>6, <1>7, <1>8, <1>9, <1>10, <1>11, <1>12, <1>13,
     <1>14, <1>15, <1>16, <1>18 DEF Next, LauncherStep, LoopStep

(* Waves run in order, whichever reconciles, launchers and edits meet, for *)
(* any number of waves, attempts and runs, also when automatic closure     *)
(* leaves the evidence of a wave partial and when reconciles fail; and     *)
(* what stands in for evidence is a design hand-off, nothing else.         *)
THEOREM WavesRunInOrder == AutoSpec => []WavesInOrder
<1>1. Grounded => WavesInOrder
  BY DEF Grounded
<1>2. QED
  BY InitTyped, TypeStep, InitGrounded, GroundedStep, <1>1, PTL DEF AutoSpec

-----------------------------------------------------------------------------
(***************************************************************************)
(* Without edits, failing and operators' reconciles a completed run is     *)
(* final: the reconcile that follows it begins when launcher and operator  *)
(* are idle, and so its verdict stands until the loop has read it.         *)
(***************************************************************************)
Done(r) == runs[r].status = "completed" /\ r \notin handed
Last    == Len(runs)

(* Only the last run is open, while the loop observes it.                  *)
OneOpen ==
    /\ \A r \in DOMAIN runs : runs[r].status = "pending" => r = Last /\ auto.at = "observe"
    /\ launcher.at # "off" => runs[launcher.run].status = "pending"
    /\ rec["launcher"].at # "idle" => launcher.at = "reconcile"
    /\ rec["operator"].at = "idle"
    /\ auto.at = "preflight" => runs = <<>>

(* The wave of the loop is not that of an earlier completed run.           *)
WaveOfLoop ==
    /\ auto.at \in {"observe", "judge"} =>
           /\ runs # <<>> /\ runs[Last].wave = auto.wave
           /\ \A r \in DOMAIN runs : Done(r) /\ r # Last => runs[r].wave # auto.wave
    /\ auto.at = "judge" => auto.status = runs[Last].status
    /\ auto.at = "submit" => \A r \in DOMAIN runs : Done(r) => runs[r].wave # auto.wave

(* The evidence of a completed run stays.                                  *)
DoneStands ==
    /\ \A r \in DOMAIN runs : Done(r) => evidence[runs[r].wave] = "ok"
    /\ launcher.at \in {"read", "mark", "exit"} /\ launcher.run \notin handed =>
           evidence[Wave] = "ok"

(* The loop's reconcile sees it and the file says it.                      *)
Noted(w) ==
    /\ rec["loop"].at = "idle"  => Complete(entry[w])
    /\ rec["loop"].at = "scan"  => rec["loop"].seen[w] \in {"unread", "ok"}
    /\ rec["loop"].at = "write" => rec["loop"].seen[w] = "ok"

SeenDone == auto.at # "observe" => \A r \in DOMAIN runs : Done(r) => Noted(runs[r].wave)

Undisturbed == OneOpen /\ WaveOfLoop /\ DoneStands /\ SeenDone
Calm == events = 0 => Undisturbed

LEMMA NotedStep ==
  ASSUME RunStateTypeOK, NEW w \in Waves, evidence[w] = "ok", Noted(w), "loop" \in Reconcilers,
         Reconcile("loop")
  PROVE  Noted(w)'
<1>0. rec \in [Reconcilers -> Copies] /\ entry \in [Waves -> Entries]
      /\ evidence \in [Waves -> Evidence]
  BY DEF RunStateTypeOK, Copies
<1>1. CASE Scan("loop")
  <2>0. rec["loop"].at = "scan" /\ rec["loop"].seen[w] \in {"unread", "ok"}
    BY <1>1 DEF Scan, Noted
  <2>1. CASE /\ {v \in Waves : rec["loop"].seen[v] = "unread"} = {}
             /\ rec' = [rec EXCEPT !["loop"] = [@ EXCEPT !.at = "write", !.before = entry]]
    <3>1. rec["loop"].seen[w] = "ok"
      BY <2>0, <2>1
    <3>2. rec'["loop"].at = "write" /\ rec'["loop"].seen = rec["loop"].seen
      BY <1>0, <2>1 DEF Copies
    <3>3. QED
      BY <3>1, <3>2 DEF Noted
  <2>2. ASSUME NEW v \in Waves, rec' = [rec EXCEPT !["loop"].seen[v] = evidence[v]]
        PROVE  Noted(w)'
    <3>1. rec'["loop"].at = "scan"
      BY <1>0, <2>0, <2>2 DEF Copies
    <3>2. rec'["loop"].seen = [rec["loop"].seen EXCEPT ![v] = evidence[v]]
      BY <1>0, <2>2 DEF Copies
    <3>3. rec'["loop"].seen[w] = IF w = v THEN evidence[v] ELSE rec["loop"].seen[w]
      BY <1>0, <3>2 DEF Copies
    <3>4. rec'["loop"].seen[w] \in {"unread", "ok"}
      BY <2>0, <3>3
    <3>5. QED
      BY <3>1, <3>4 DEF Noted
  <2>3. QED
    BY <1>1, <2>1, <2>2, Zenon DEF Scan
<1>2. CASE WriteVerdicts("loop")
  <2>1. rec["loop"].seen[w] = "ok"
    BY <1>2 DEF WriteVerdicts, Noted
  <2>2. entry'[w] = "completed"
    BY <1>2, <2>1 DEF WriteVerdicts, Verdict
  <2>3. rec'["loop"].at = "idle"
    BY <1>0, <1>2 DEF WriteVerdicts, Idle
  <2>4. QED
    BY <2>2, <2>3 DEF Noted, Complete
<1>3. QED
  BY <1>1, <1>2 DEF Reconcile

LEMMA BeginEffect ==
  ASSUME RunStateTypeOK, NEW p \in Reconcilers, BeginReconcile(p)
  PROVE  /\ \A q \in Reconcilers : q # p => rec'[q] = rec[q]
         /\ rec'[p].at = "scan" /\ \A w \in Waves : rec'[p].seen[w] = "unread"
BY DEF RunStateTypeOK, BeginReconcile, Idle, Unread

LEMMA RunSettles ==
  ASSUME TypeInv, launcher.at # "off", NEW s \in {"completed", "failed"},
         runs' = [runs EXCEPT ![launcher.run].status = s]
  PROVE  /\ Len(runs') = Len(runs) /\ DOMAIN runs' = DOMAIN runs
         /\ \A r \in DOMAIN runs :
               /\ runs'[r].wave = runs[r].wave
               /\ runs'[r].status = IF r = launcher.run THEN s ELSE runs[r].status
<1> DEFINE R == [wave : Waves, status : {"pending", "completed", "failed"}]
           e == [runs[launcher.run] EXCEPT !.status = s]
<1>1. runs \in Seq(R) /\ launcher.run \in 1..Len(runs)
  BY DEF TypeInv, AutoTypeOK, LauncherHasRun
<1> HIDE DEF R
<1>2. runs[launcher.run] \in R
  BY <1>1, ElementOfSeq
<1>3. e \in R /\ e.wave = runs[launcher.run].wave /\ e.status = s
  BY <1>2 DEF R
<1>4. runs' = [runs EXCEPT ![launcher.run] = e]
  OBVIOUS
<1> HIDE DEF e
<1>5. runs' \in Seq(R) /\ Len(runs') = Len(runs)
      /\ \A r \in 1..Len(runs) : runs'[r] = IF r = launcher.run THEN e ELSE runs[r]
  BY <1>1, <1>3, <1>4, ExceptSeq
<1>6. QED
  BY <1>1, <1>3, <1>5

(* Whether and where a reconcile stands changes only for who takes a step. *)
LEMMA StepEffect ==
  ASSUME RunStateTypeOK, NEW p \in Reconcilers, Reconcile(p)
  PROVE  rec[p].at # "idle" /\ \A q \in Reconcilers : q # p => rec'[q] = rec[q]
<1>1. rec \in [Reconcilers -> Copies]
  BY DEF RunStateTypeOK, Copies
<1>2. CASE Scan(p)
  <2>1. ASSUME rec' = [rec EXCEPT ![p] = [@ EXCEPT !.at = "write", !.before = entry]]
        PROVE  \A q \in Reconcilers : q # p => rec'[q] = rec[q]
    BY <1>1, <2>1
  <2>2. ASSUME NEW v \in Waves, rec' = [rec EXCEPT ![p].seen[v] = evidence[v]]
        PROVE  \A q \in Reconcilers : q # p => rec'[q] = rec[q]
    BY <1>1, <2>2
  <2>3. \/ rec' = [rec EXCEPT ![p] = [@ EXCEPT !.at = "write", !.before = entry]]
        \/ \E v \in Waves : rec' = [rec EXCEPT ![p].seen[v] = evidence[v]]
    BY <1>2, Zenon DEF Scan
  <2>4. QED
    BY <1>2, <2>1, <2>2, <2>3 DEF Scan
<1>3. CASE WriteVerdicts(p)
  BY <1>1, <1>3 DEF WriteVerdicts
<1>4. QED
  BY <1>2, <1>3 DEF Reconcile

LEMMA InitCalm == Init => Calm
<1> SUFFICES ASSUME Init PROVE Undisturbed
  BY DEF Calm
<1>1. runs = <<>> /\ launcher.at = "off" /\ auto.at = "preflight"
      /\ \A p \in Reconcilers : rec[p].at = "idle"
  BY DEF Init, RunStateInit, NoLauncher, Idle
<1>2. DOMAIN runs = {}
  BY <1>1
<1>3. rec["launcher"].at = "idle" /\ rec["operator"].at = "idle"
  BY <1>1, AutonomousAssumption
<1>4. QED
  BY <1>1, <1>2, <1>3 DEF Undisturbed, OneOpen, WaveOfLoop, DoneStands, SeenDone, Done

(* Without events all stays calm; with an event nothing is claimed.        *)
LEMMA CalmStep ==
  ASSUME AutoClosure = FALSE, TypeInv, Calm, [Next]_autoVars
  PROVE  Calm'
<1> SUFFICES ASSUME events' = 0 PROVE Undisturbed'
  BY DEF Calm
<1> USE RunStateAssumption, AutonomousAssumption
<1>0. /\ RunStateTypeOK /\ events \in Nat
      /\ rec \in [Reconcilers -> Copies] /\ entry \in [Waves -> Entries]
      /\ evidence \in [Waves -> Evidence]
      /\ auto \in LoopLocals
      /\ Len(runs) \in Nat /\ DOMAIN runs = 1..Len(runs)
      /\ \A r \in DOMAIN runs : runs[r].wave \in Waves
      /\ launcher.at # "off" => launcher.run \in DOMAIN runs
      /\ "loop" \in Reconcilers /\ "launcher" \in Reconcilers /\ "operator" \in Reconcilers
  <2>1. RunStateTypeOK /\ auto \in LoopLocals
        /\ rec \in [Reconcilers -> Copies] /\ entry \in [Waves -> Entries]
        /\ evidence \in [Waves -> Evidence]
    BY DEF TypeInv, AutoTypeOK, RunStateTypeOK, Copies, LoopLocals
  <2>2. events \in Nat /\ Len(runs) \in Nat /\ DOMAIN runs = 1..Len(runs)
    BY DEF TypeInv, AutoTypeOK
  <2>3. QED
    BY <2>1, <2>2, RunWave DEF TypeInv, LauncherHasRun
<1>u. ASSUME events' = events
      PROVE  OneOpen /\ WaveOfLoop /\ DoneStands /\ SeenDone
  BY <1>u DEF Calm, Undisturbed
<1>l. ASSUME events' = events, launcher.at # "off"
      PROVE  /\ runs[launcher.run].status = "pending" /\ launcher.run = Last
             /\ auto.at = "observe" /\ Wave = auto.wave /\ Wave \in Waves
             /\ \A r \in DOMAIN runs : Done(r) => runs[r].wave # Wave
  BY <1>0, <1>u, <1>l DEF OneOpen, WaveOfLoop, Wave, Done
<1>1. ASSUME NEW r \in DOMAIN runs, Start(r) PROVE Undisturbed'
  <2>1. /\ runs' = runs /\ evidence' = evidence /\ auto' = auto /\ events' = events /\ handed' = handed
        /\ launcher'.at = "reconcile" /\ launcher'.run = r /\ runs[r].status = "pending"
    BY <1>1 DEF Start, NoLauncher
  <2>2. auto.at = "observe"
    BY <1>u, <2>1 DEF OneOpen
  <2>3. rec'["operator"] = rec["operator"]
    BY <1>0, <1>1, BeginEffect DEF Start
  <2>4. OneOpen' /\ WaveOfLoop'
    BY <1>u, <2>1, <2>2, <2>3 DEF OneOpen, WaveOfLoop, Done, Last
  <2>5. DoneStands' /\ SeenDone'
    BY <1>u, <2>1, <2>2 DEF DoneStands, SeenDone, Done
  <2>6. QED
    BY <2>4, <2>5 DEF Undisturbed
<1>2. CASE BeginWave \/ GatesPass
  <2>1. /\ runs' = runs /\ auto' = auto /\ events' = events /\ handed' = handed /\ rec' = rec
        /\ launcher.at \in {"reconcile", "wave"} /\ launcher'.at \in {"wave", "read"}
        /\ launcher'.run = launcher.run
    BY <1>2 DEF BeginWave, GatesPass, TypeInv, AutoTypeOK
  <2>2. rec["launcher"].at = "idle"
    BY <1>2, <1>u, <2>1 DEF BeginWave, GatesPass, OneOpen
  <2>3. /\ runs[launcher.run].status = "pending" /\ auto.at = "observe" /\ Wave \in Waves
        /\ \A r \in DOMAIN runs : Done(r) => runs[r].wave # Wave
    BY <1>l, <2>1
  <2>4. PICK e : /\ evidence' = [evidence EXCEPT ![Wave] = e]
                 /\ launcher'.at = "read" => e = "ok"
    <3>1. CASE BeginWave
      <4>1. launcher'.at = "wave"
        BY <3>1 DEF BeginWave, TypeInv, AutoTypeOK
      <4>2. QED
        BY <3>1, <4>1 DEF BeginWave
    <3>2. CASE GatesPass
      BY <3>2 DEF GatesPass
    <3>3. QED
      BY <1>2, <3>1, <3>2
  <2>a. /\ \A w \in Waves : w # Wave => evidence'[w] = evidence[w]
        /\ launcher'.at = "read" => evidence'[Wave] = "ok"
    BY <1>0, <2>3, <2>4
  <2>5. OneOpen' /\ WaveOfLoop'
    BY <1>u, <2>1, <2>2, <2>3 DEF OneOpen, WaveOfLoop, Done, Last
  <2>6. DoneStands'
    BY <1>0, <1>u, <2>1, <2>3, <2>a DEF DoneStands, Done, Wave
  <2>7. QED
    BY <2>1, <2>3, <2>5, <2>6 DEF Undisturbed, SeenDone
<1>14. CASE HandOff
  <2>1. /\ runs' = runs /\ auto' = auto /\ events' = events /\ rec' = rec /\ evidence' = evidence
        /\ handed' = handed \cup {launcher.run}
        /\ launcher.at = "wave" /\ launcher'.at = "read" /\ launcher'.run = launcher.run
    BY <1>14 DEF HandOff, TypeInv, AutoTypeOK
  <2>2. launcher.run \in handed' /\ \A r \in DOMAIN runs : Done(r)' => Done(r)
    BY <2>1 DEF Done
  <2>3. /\ runs[launcher.run].status = "pending" /\ auto.at = "observe"
        /\ rec["launcher"].at = "idle"
    BY <1>l, <1>u, <2>1 DEF OneOpen
  <2>4. OneOpen'
    BY <1>u, <2>1, <2>3 DEF OneOpen, Last
  <2>5. WaveOfLoop'
    BY <1>u, <2>1, <2>2 DEF WaveOfLoop, Last
  <2>6. DoneStands'
    BY <1>u, <2>1, <2>2 DEF DoneStands
  <2>7. QED
    BY <2>1, <2>3, <2>4, <2>5, <2>6 DEF Undisturbed, SeenDone
<1>3. CASE MarkRead \/ MarkWrite
  <2>1. /\ runs' = runs /\ auto' = auto /\ events' = events /\ handed' = handed /\ rec' = rec /\ evidence' = evidence
        /\ launcher.at \in {"read", "mark"} /\ launcher'.at \in {"mark", "exit"}
        /\ launcher'.run = launcher.run
    <3>1. launcher \in [at : {"off", "reconcile", "wave", "read", "mark", "exit"},
                        run : 0..Len(runs), read : [Waves -> Entries \cup {"unread"}]]
      BY DEF TypeInv, AutoTypeOK
    <3>2. CASE MarkRead
      <4>1. launcher'.at = "mark" /\ launcher'.run = launcher.run
        BY <3>1, <3>2 DEF MarkRead
      <4>2. QED
        BY <3>2, <4>1 DEF MarkRead
    <3>3. CASE MarkWrite
      <4>1. launcher'.at = "exit" /\ launcher'.run = launcher.run
        BY <3>1, <3>3 DEF MarkWrite
      <4>2. QED
        BY <3>3, <4>1 DEF MarkWrite
    <3>4. QED
      BY <1>3, <3>2, <3>3
  <2>2. runs[launcher.run].status = "pending" /\ auto.at = "observe"
        /\ rec["launcher"].at = "idle"
    BY <1>l, <1>u, <2>1 DEF OneOpen
  <2>3. OneOpen' /\ WaveOfLoop' /\ DoneStands'
    BY <1>u, <2>1, <2>2 DEF OneOpen, WaveOfLoop, DoneStands, Done, Wave, Last
  <2>4. QED
    BY <2>1, <2>2, <2>3 DEF Undisturbed, SeenDone
<1>4. CASE Exit \/ Fail
  <2>1. /\ auto' = auto /\ events' = events /\ handed' = handed /\ rec' = rec /\ evidence' = evidence
        /\ launcher.at \in {"wave", "read", "mark", "exit"} /\ launcher'.at = "off"
    BY <1>4 DEF Exit, Fail, NoLauncher
  <2>2. PICK s \in {"completed", "failed"} :
           /\ runs' = [runs EXCEPT ![launcher.run].status = s]
           /\ s = "completed" => launcher.at = "exit"
    BY <1>4 DEF Exit, Fail
  <2>3. /\ Len(runs') = Len(runs) /\ DOMAIN runs' = DOMAIN runs
        /\ \A r \in DOMAIN runs :
              /\ runs'[r].wave = runs[r].wave
              /\ runs'[r].status = IF r = launcher.run THEN s ELSE runs[r].status
    BY <2>1, <2>2, RunSettles
  <2>4. /\ launcher.run = Last /\ auto.at = "observe" /\ launcher.run \in DOMAIN runs
        /\ rec["launcher"].at = "idle"
    BY <1>0, <1>l, <1>u, <2>1 DEF OneOpen
  <2>5. runs # <<>> /\ runs' # <<>>
    BY <1>0, <2>3, <2>4
  <2>6. OneOpen'
    BY <1>u, <2>1, <2>2, <2>3, <2>4 DEF OneOpen, Last
  <2>7. WaveOfLoop'
    BY <1>0, <1>u, <2>1, <2>3, <2>4, <2>5 DEF WaveOfLoop, Done, Last
  <2>8. DoneStands'
    BY <1>u, <2>1, <2>2, <2>3, <2>4 DEF DoneStands, Done, Wave
  <2>9. QED
    BY <2>1, <2>4, <2>6, <2>7, <2>8 DEF Undisturbed, SeenDone
<1>5. CASE Preflight
  <2>1. /\ runs' = runs /\ launcher' = launcher /\ evidence' = evidence /\ events' = events /\ handed' = handed
        /\ auto'.at = "choose" /\ auto.at = "preflight"
    BY <1>0, <1>5 DEF Preflight, LoopLocals
  <2>2. DOMAIN runs = {}
    BY <1>u, <2>1 DEF OneOpen
  <2>3. rec'["operator"] = rec["operator"] /\ rec'["launcher"] = rec["launcher"]
    BY <1>0, <1>5, BeginEffect DEF Preflight
  <2>4. launcher.at = "off"
    BY <1>0, <2>2
  <2>5. QED
    BY <1>u, <2>1, <2>2, <2>3, <2>4
       DEF Undisturbed, OneOpen, WaveOfLoop, DoneStands, SeenDone, Done
<1>6. CASE Choose
  <2>1. /\ UNCHANGED <<entry, evidence, rec, runs, launcher, events, handed>>
        /\ auto.at = "choose" /\ rec["loop"].at = "idle"
    BY <1>6 DEF Choose, Free
  <2>2. \/ auto' = [auto EXCEPT !.at = "stopped"] \/ auto' = [auto EXCEPT !.at = "done"]
        \/ \E w \in Waves : /\ ~Complete(entry[w])
                            /\ auto' = [auto EXCEPT !.at = "submit", !.wave = w, !.attempt = 1]
    BY <1>6 DEF Choose
  <2>3. \A r \in DOMAIN runs : Done(r) => Complete(entry[runs[r].wave])
    BY <1>u, <2>1 DEF SeenDone, Noted
  <2>4. /\ auto'.at \in {"stopped", "done", "submit"}
        /\ auto'.at = "submit" => ~Complete(entry[auto'.wave])
    BY <1>0, <2>2 DEF LoopLocals
  <2>5. OneOpen' /\ DoneStands'
    BY <1>u, <2>1, <2>4 DEF OneOpen, DoneStands, Done, Wave
  <2>6. WaveOfLoop'
    BY <2>1, <2>3, <2>4 DEF WaveOfLoop, Done
  <2>7. SeenDone'
    BY <1>u, <2>1 DEF SeenDone, Done, Noted
  <2>8. QED
    BY <2>5, <2>6, <2>7 DEF Undisturbed
<1>7. CASE Submit
  <2> DEFINE R == [wave : Waves, status : {"pending", "completed", "failed"}]
             e == [wave |-> auto.wave, status |-> "pending"]
  <2>1. /\ UNCHANGED <<entry, evidence, rec, launcher, events, handed>>
        /\ auto.at = "submit" /\ auto'.at = "observe" /\ auto'.wave = auto.wave
        /\ runs' = Append(runs, e) /\ auto.wave \in Waves
    BY <1>0, <1>7 DEF Submit, LoopLocals, TypeInv, LoopHasWave
  <2>2. runs \in Seq(R) /\ e \in R
    BY <2>1 DEF TypeInv, AutoTypeOK
  <2>a. e.wave = auto.wave /\ e.status = "pending"
    OBVIOUS
  <2> HIDE DEF R, e
  <2>3. /\ Len(runs') = Len(runs) + 1 /\ DOMAIN runs' = 1..Len(runs')
        /\ runs'[Len(runs')] = e
        /\ \A r \in DOMAIN runs : runs'[r] = runs[r]
    BY <1>0, <2>1, <2>2, AppendProperties
  <2>4. launcher.at = "off"
    BY <1>l, <2>1
  <2>5. \A r \in DOMAIN runs' : r = Len(runs') \/ r \in DOMAIN runs
    BY <1>0, <2>3
  <2>6. \A r \in DOMAIN runs : runs[r].status # "pending"
    BY <1>u, <2>1 DEF OneOpen
  <2>7. OneOpen'
    BY <1>u, <2>1, <2>3, <2>4, <2>5, <2>6 DEF OneOpen, Last
  <2>8. runs' # <<>> /\ runs'[Len(runs')].wave = auto.wave
    BY <1>0, <2>3, <2>a
  <2>9. WaveOfLoop'
    BY <1>u, <2>1, <2>3, <2>5, <2>8 DEF WaveOfLoop, Done, Last
  <2>10. DoneStands'
    BY <1>u, <2>1, <2>3, <2>4, <2>5, <2>a DEF DoneStands, Done
  <2>11. QED
    BY <2>1, <2>7, <2>9, <2>10 DEF Undisturbed, SeenDone
<1>8. CASE Observe
  <2>1. /\ UNCHANGED <<entry, evidence, runs, launcher, events, handed>>
        /\ auto.at = "observe" /\ auto'.wave = auto.wave
        /\ auto'.at \in {"observe", "judge"}
        /\ auto'.at = "judge" => /\ runs[Last].status \in {"completed", "failed"}
                                 /\ auto'.status = runs[Last].status
    BY <1>0, <1>8 DEF Observe, LoopLocals, Last
  <2>2. /\ rec'["operator"] = rec["operator"] /\ rec'["launcher"] = rec["launcher"]
        /\ rec'["loop"].at = "scan" /\ \A w \in Waves : rec'["loop"].seen[w] = "unread"
    BY <1>0, <1>8, BeginEffect DEF Observe
  <2>3. ASSUME auto'.at = "judge"
        PROVE  launcher.at = "off" /\ \A r \in DOMAIN runs : runs[r].status # "pending"
    BY <1>u, <1>l, <2>1, <2>3 DEF OneOpen, Last
  <2>4. OneOpen'
    BY <1>u, <2>1, <2>2, <2>3 DEF OneOpen, Last
  <2>5. WaveOfLoop'
    BY <1>u, <2>1 DEF WaveOfLoop, Done, Last
  <2>6. DoneStands'
    BY <1>u, <2>1 DEF DoneStands, Done, Wave
  <2>7. SeenDone'
    BY <1>0, <2>1, <2>2 DEF SeenDone, Noted
  <2>8. QED
    BY <2>4, <2>5, <2>6, <2>7 DEF Undisturbed
<1>9. CASE Judge
  <2>1. /\ UNCHANGED <<entry, evidence, rec, runs, launcher, events, handed>>
        /\ auto.at = "judge" /\ auto'.wave = auto.wave
        /\ auto'.at \in {"choose", "submit", "stopped"}
        /\ auto'.at = "submit" => auto.status = "failed"
    BY <1>0, <1>9 DEF Judge, LoopLocals, TypeInv, LoopHasStatus
  <2>2. OneOpen' /\ DoneStands'
    BY <1>u, <2>1 DEF OneOpen, DoneStands, Done, Wave, Last
  <2>3. WaveOfLoop'
    BY <1>u, <2>1 DEF WaveOfLoop, Done, Last
  <2>4. SeenDone'
    BY <1>u, <2>1 DEF SeenDone, Done, Noted
  <2>5. QED
    BY <2>2, <2>3, <2>4 DEF Undisturbed
<1>10. ASSUME NEW p \in Reconcilers, ReconcileStep(p) PROVE Undisturbed'
  <2>1. UNCHANGED <<evidence, auto, runs, launcher, events, handed>>
    BY <1>10 DEF ReconcileStep, Reconcile, Scan, WriteVerdicts
  <2>2. rec[p].at # "idle" /\ \A q \in Reconcilers : q # p => rec'[q] = rec[q]
    BY <1>0, <1>10, StepEffect DEF ReconcileStep
  <2>3. p # "operator"
    BY <1>u, <2>1, <2>2 DEF OneOpen
  <2>4. rec'["operator"] = rec["operator"]
    BY <1>0, <2>2, <2>3
  <2>5. rec'["launcher"].at # "idle" => rec["launcher"].at # "idle"
    BY <1>0, <2>2
  <2>6. OneOpen' /\ WaveOfLoop' /\ DoneStands'
    BY <1>u, <2>1, <2>4, <2>5 DEF OneOpen, WaveOfLoop, DoneStands, Done, Wave, Last
  <2>7. CASE p = "loop"
    <3>1. ASSUME auto.at # "observe", NEW r \in DOMAIN runs, Done(r)
          PROVE  Noted(runs[r].wave)'
      <4>1. PICK w \in Waves : w = runs[r].wave
        BY <1>0
      <4>2. Noted(w) /\ evidence[w] = "ok"
        BY <1>u, <2>1, <3>1, <4>1 DEF SeenDone, DoneStands
      <4>3. Noted(w)'
        BY <1>0, <1>10, <2>7, <4>2, NotedStep DEF ReconcileStep
      <4>4. QED
        BY <2>1, <4>1, <4>3 DEF Noted
    <3>2. SeenDone'
      BY <2>1, <3>1 DEF SeenDone, Done, Noted
    <3>3. QED
      BY <2>6, <3>2 DEF Undisturbed
  <2>8. CASE p = "launcher"
    <3>1. auto.at = "observe"
      BY <1>u, <1>l, <2>1, <2>2, <2>8 DEF OneOpen
    <3>2. QED
      BY <2>1, <2>6, <3>1 DEF Undisturbed, SeenDone
  <2>9. QED
    BY <2>3, <2>7, <2>8
<1>11. CASE ReconcileFails \/ Disturb \/ OperatorReconciles
  BY <1>0, <1>11 DEF ReconcileFails, Disturb, OperatorReconciles
<1>12. CASE UNCHANGED autoVars
  BY <1>u, <1>12 DEF autoVars, Undisturbed, OneOpen, WaveOfLoop, DoneStands, SeenDone, Done,
     Noted, Wave, Last
<1>13. QED
  BY <1>1, <1>2, <1>3, <1>4, <1>5, <1>6, <1>7, <1>8, <1>9, <1>10, <1>11, <1>12, <1>14
     DEF Next, LauncherStep, LoopStep

(* A wave whose run completed, but for a design hand-off, is not submitted *)
(* again while no edit, no failing and no operator's reconcile interferes, *)
(* for any number of waves and attempts and whatever other waves' launches *)
(* hand off, if automatic closure is not configured: with it a wave may    *)
(* end on partial evidence, which the next reconcile calls blocked.        *)
THEOREM CompletedWavesStayDone ==
  ASSUME AutoClosure = FALSE
  PROVE  AutoSpec => CompletedNotRelaunched
<1>1. ASSUME Calm
      PROVE  [\A r \in DOMAIN runs :
                 Submit /\ events = 0 /\ r \notin handed =>
                    runs[r] # [wave |-> auto.wave, status |-> "completed"]]_autoVars
  <2>1. SUFFICES ASSUME NEW r \in DOMAIN runs, Submit, events = 0, r \notin handed,
                        runs[r] = [wave |-> auto.wave, status |-> "completed"]
                 PROVE  FALSE
    OBVIOUS
  <2>2. auto.at = "submit" /\ Done(r) /\ runs[r].wave = auto.wave
    BY <2>1 DEF Submit, Done
  <2>3. WaveOfLoop
    BY <1>1, <2>1 DEF Calm, Undisturbed
  <2>4. QED
    BY <2>2, <2>3 DEF WaveOfLoop
<1>2. QED
  BY InitTyped, TypeStep, InitCalm, CalmStep, <1>1, PTL DEF AutoSpec, CompletedNotRelaunched

=============================================================================
