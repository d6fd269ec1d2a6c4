------------------------------ MODULE RunState ------------------------------
(***************************************************************************)
(* run-state.json of a lane: reconcileRunStateFromStatusFiles and          *)
(* markWaveCompleted of scripts/wave-orchestrator/wave-files.mjs.          *)
(*                                                                         *)
(* The file is replaced as a whole and atomically, and no lock protects    *)
(* it: `wave launch --reconcile-status` does not take the launcher lock.   *)
(* A reconcile first judges wave by wave what is on disk, then reads the   *)
(* file, then writes its verdict on every wave.                            *)
(***************************************************************************)
EXTENDS Naturals, FiniteSets

CONSTANTS
    Waves,       \* the waves of the lane: their numbers
    Reconcilers  \* the processes that reconcile

ASSUME RunStateAssumption == Waves \subseteq Nat /\ IsFiniteSet(Waves)

VARIABLES
    entry,     \* run-state.json: the state of each wave
    evidence,  \* what the files of each wave say
    rec        \* what each reconcile has seen so far

(* "gone" stands for anything but prompt drift: no status file, a nonzero  *)
(* code, an invalid summary, an open record.  "partial": all files but     *)
(* those of the stewards that automatic closure did not run.               *)
Evidence == {"gone", "partial", "drifted", "ok"}

(* "legacy": completed in the list of an older version only.               *)
Entries == {"none", "legacy", "completed", "drift", "blocked"}

Complete(e)      == e \in {"legacy", "completed", "drift"}
Authoritative(e) == e \in {"completed", "drift"}

Unread == [w \in Waves |-> "unread"]
Idle   == [at |-> "idle", seen |-> Unread, before |-> Unread]

RunStateInit ==
    /\ evidence \in [Waves -> Evidence \ {"partial"}]
    /\ entry \in [Waves -> {"none", "legacy"}]
    /\ \A w \in Waves : entry[w] = "legacy" => evidence[w] # "gone"
    /\ rec = [p \in Reconcilers |-> Idle]

-----------------------------------------------------------------------------
BeginReconcile(p) == rec' = [rec EXCEPT ![p] = [Idle EXCEPT !.at = "scan"]]

(* analyzeWaveCompletionFromStatusFiles: one wave after the other.         *)
Scan(p) ==
    /\ rec[p].at = "scan"
    /\ LET left == {w \in Waves : rec[p].seen[w] = "unread"} IN
        \/ left = {} /\ rec' = [rec EXCEPT ![p] = [@ EXCEPT !.at = "write", !.before = entry]]
        \/ \E w \in left :
             /\ \A v \in left : w <= v
             /\ rec' = [rec EXCEPT ![p].seen[w] = evidence[w]]
    /\ UNCHANGED <<entry, evidence>>

(* Mutant: the drift of a wave that was never completed is excused too.    *)
VerdictExcusesDrift(before, seen) ==
    CASE seen = "ok"      -> "completed"
      [] seen = "drifted" -> "drift"
      [] OTHER            -> "blocked"

(* The transition of a wave; shouldPreserveCompletedWave excuses drift.    *)
Verdict(before, seen) ==
    CASE seen = "ok"                               -> "completed"
      [] seen = "drifted" /\ Authoritative(before) -> "drift"
      [] OTHER                                     -> "blocked"

(* Every wave has a diagnostic, so that what `latest` holds of them does   *)
(* not matter.                                                             *)
WriteVerdicts(p) ==
    /\ rec[p].at = "write"
    /\ entry' = [w \in Waves |-> Verdict(rec[p].before[w], rec[p].seen[w])]
    /\ rec' = [rec EXCEPT ![p] = Idle]
    /\ UNCHANGED evidence

Reconcile(p) == Scan(p) \/ WriteVerdicts(p)

(* markWaveCompleted writes what it read with one wave changed.            *)
Marked(read, w) == [read EXCEPT ![w] = "completed"]

RunStateTypeOK ==
    /\ entry \in [Waves -> Entries]
    /\ evidence \in [Waves -> Evidence]
    /\ rec \in [Reconcilers -> [at : {"idle", "scan", "write"},
                                seen : [Waves -> Evidence \cup {"unread"}],
                                before : [Waves -> Entries \cup {"unread"}]]]
=============================================================================
