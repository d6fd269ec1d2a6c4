------------------------ MODULE SupervisorRunsProofs ------------------------
(***************************************************************************)
(* What the supervisor promises of the runs of a lane, for any runs,       *)
(* daemons, readers, launches, limit and failures, until the lock has been *)
(* mistaken or a reader has written over what a daemon does (Unmixed).     *)
(*                                                                         *)
(* One daemon at a time works, so the copies of states it carries are      *)
(* current (CopyInv).  From that follow the queue (OneRunning), the count  *)
(* of launches (BudgetInv), and which wrappers may be up (UpInv).  Readers *)
(* write beside the daemon: ReaderWrites says what they can still do then. *)
(***************************************************************************)
EXTENDS SupervisorProofs, FiniteSetTheorems

Working(d) == job[d].at # "idle"

(* Only a daemon that holds the lock is in its loop, hence only one is.    *)
WorkersHold == \A d \in Daemons : Working(d) => pc[d] \in Holding

OneWorker == \A d, e \in Daemons : Working(d) /\ Working(e) => d = e

NoneRunning(rs) == \A q \in Runs : rs[q].status # "running"

(* The entries a daemon has still to visit are running runs; the one in    *)
(* hand is one of them, or was claimed when no run was running.            *)
CopyOK(j, rs) ==
    /\ j.at = "idle" => j.todo = {}
    /\ \A r \in j.todo : Same(j.snap[r], rs[r]) /\ rs[r].status = "running"
    /\ j.at \in InHand =>
          /\ Same(j.snap[j.cur], rs[j.cur])
          /\ \/ j.cur \in j.todo
             \/ /\ j.at \in {"spawn", "record"} /\ rs[j.cur].status = "pending"
                /\ j.todo = {} /\ NoneRunning(rs)

CopyInv == \A d \in Daemons : CopyOK(job[d], runs)

OneRunning ==
    \A q, r \in Runs : runs[q].status = "running" /\ runs[r].status = "running" => q = r

-----------------------------------------------------------------------------
(* The steps of a daemon that is in its loop, and the others.              *)
LoopStep(d) ==
    \/ AdoptScan(d) \/ AdoptRun(d) \/ AdoptDone(d) \/ Heartbeat(d) \/ Scan(d)
    \/ Observe(d) \/ Apply(d) \/ ReconcileDone(d) \/ Pick(d) \/ Spawn(d)
    \/ Record(d) \/ SpawnFails(d)

LEMMA LoopStepsWork ==
  ASSUME NEW d \in Daemons, LoopStep(d)
  PROVE  Working(d)
BY DEF LoopStep, Working, AdoptScan, AdoptRun, AdoptDone, Heartbeat, Scan, Observe,
       ReadStatus, ReadAgents, ReadProgress, CheckPid, Apply, ReconcileDone, Pick,
       Spawn, Record, SpawnFails

(* What the daemons carry stays as it is.                                  *)
DaemonJobsStay == \A d \in Daemons : job'[d] = job[d]

LEMMA ReaderJobs ==
  ASSUME TypeInv, NEW o \in Readers, ReaderStep(o)
  PROVE  /\ DaemonJobsStay
         /\ UNCHANGED <<lockVars, orphans, statusFile, launches, laneLock>>
         /\ UNCHANGED <<runs, runMishaps>> \/ ReaderApply(o)
<1>0. o \notin Daemons /\ job \in [Observers -> Jobs]
  BY SupervisorAssumption DEF TypeInv, JobInv, JobTypes
<1>1. ASSUME NEW j, SetJob(o, j) PROVE DaemonJobsStay
  BY <1>0, <1>1 DEF DaemonJobsStay, SetJob, Observers
<1>2. CASE \E r \in Runs : ReadState(o, r)
  BY <1>1, <1>2 DEF ReadState, fileVars, procVars, history
<1>3. CASE Observe(o)
  BY <1>1, <1>3 DEF Observe, ReadStatus, ReadAgents, ReadProgress, CheckPid, fileVars,
                    procVars, history
<1>4. CASE ReaderApply(o)
  BY <1>1, <1>4 DEF ReaderApply, procVars
<1>5. QED
  BY <1>2, <1>3, <1>4 DEF ReaderStep

LEMMA StepCases ==
  ASSUME TypeInv, [Next]_vars
  PROVE  \/ \E d \in Daemons : LoopStep(d) \/ Acquire(d) \/ DaemonCrash(d)
         \/ \E r \in Runs : Submit(r)
         \/ \E o \in Readers : ReaderApply(o)
         \/ /\ UNCHANGED <<runs, orphans>> /\ DaemonJobsStay
            /\ \/ \E r \in Runs, l \in Launches : LauncherStep(r, l) \/ Kill(r, l)
               \/ UNCHANGED <<statusFile, launches, laneLock>>
<1>1. ASSUME NEW d \in Daemons, DaemonStep(d) \/ SpawnFails(d)
      PROVE  LoopStep(d) \/ Acquire(d)
  BY <1>1 DEF DaemonStep, LoopStep
<1>2. ASSUME NEW r \in Runs, EnsureSupervisorRunning(r) \/ AgentsEnd(r)
      PROVE  UNCHANGED <<runs, job, orphans, statusFile, launches, laneLock>>
  BY <1>2 DEF EnsureSupervisorRunning, AgentsEnd, fileVars, procVars, history
<1>3. ASSUME NEW d \in Daemons, StartDaemon(d)
      PROVE  UNCHANGED <<runs, job, orphans, statusFile, launches, laneLock>>
  BY <1>3 DEF StartDaemon, supVars, fileVars, procVars, history
<1>4. ASSUME NEW r \in Runs, NEW l \in Launches, LauncherStep(r, l) \/ Kill(r, l)
      PROVE  UNCHANGED <<runs, job, orphans>>
  BY <1>4 DEF LauncherStep, LauncherAdvances, LauncherStarts, LauncherRefused,
     LaunchAgents, Finalize, LauncherExits, WrapperReports, Kill, fileVars, history
<1>5. LeaseLapse \/ UNCHANGED vars
        => UNCHANGED <<runs, job, orphans, statusFile, launches, laneLock>>
  BY DEF LeaseLapse, supVars, vars, fileVars, procVars, history
<1>6. ASSUME NEW o \in Readers, ReaderStep(o), ~ReaderApply(o)
      PROVE  /\ DaemonJobsStay
             /\ UNCHANGED <<runs, orphans, statusFile, launches, laneLock>>
  BY <1>6, ReaderJobs
<1>7. UNCHANGED job => DaemonJobsStay
  BY DEF DaemonJobsStay
<1>8. QED
  BY <1>1, <1>2, <1>3, <1>4, <1>5, <1>6, <1>7 DEF Next

(* Mishaps are remembered.                                                 *)
LEMMA StaysUnmixed ==
  ASSUME TypeInv, LockTypeOK, [Next]_vars
  PROVE  mishaps \subseteq mishaps' /\ runMishaps \subseteq runMishaps'
<1>1. mishaps \subseteq mishaps'
  BY StepIsLockStep, MishapsStay DEF lockVars
<1>2. ASSUME NEW o \in Readers, ReaderStep(o) PROVE runMishaps \subseteq runMishaps'
  BY <1>2, ReaderJobs DEF ReaderApply
<1>3. ASSUME NEW d \in Daemons,
             StartDaemon(d) \/ DaemonStep(d) \/ SpawnFails(d) \/ DaemonCrash(d)
      PROVE  UNCHANGED runMishaps
  BY <1>3 DEF StartDaemon, DaemonStep, SpawnFails, DaemonCrash, Acquire, AdoptScan,
     AdoptRun, AdoptDone, Heartbeat, Scan, Observe, ReadStatus, ReadAgents,
     ReadProgress, CheckPid, Apply, ReconcileDone, Pick, Spawn, Record, supVars, history
<1>4. ASSUME NEW r \in Runs, NEW l \in Launches, LauncherStep(r, l) \/ Kill(r, l)
      PROVE  runMishaps \subseteq runMishaps'
  BY <1>4 DEF LauncherStep, LauncherAdvances, LauncherStarts, LauncherRefused,
     LaunchAgents, Finalize, LauncherExits, WrapperReports, Kill, history
<1>5. ASSUME NEW r \in Runs, Submit(r) \/ EnsureSupervisorRunning(r) \/ AgentsEnd(r)
      PROVE  UNCHANGED runMishaps
  BY <1>5 DEF Submit, EnsureSupervisorRunning, AgentsEnd, history
<1>6. LeaseLapse \/ UNCHANGED vars => UNCHANGED runMishaps
  BY DEF LeaseLapse, supVars, vars, history
<1>7. QED
  BY <1>1, <1>2, <1>3, <1>4, <1>5, <1>6 DEF Next

LEMMA WorkersHoldStep ==
  ASSUME TypeInv, LockTypeOK, WorkersHold, [Next]_vars
  PROVE  WorkersHold'
<1> USE DEF LockTypeOK, TypeInv, JobInv, JobTypes, Observers
<1>1. ASSUME NEW d \in Daemons, LoopStep(d), UNCHANGED pc
      PROVE  WorkersHold'
  <2>1. \A e \in Daemons : e # d => job'[e] = job[e]
    BY <1>1 DEF LoopStep, AdoptScan, AdoptRun, AdoptDone, Heartbeat, Scan, Observe,
       ReadStatus, ReadAgents, ReadProgress, CheckPid, Apply, ReconcileDone, Pick,
       Spawn, Record, SpawnFails, SetJob, ReadStates, Claim, Sleep, Leave
  <2>2. QED
    BY <1>1, <2>1, LoopStepsWork DEF WorkersHold, Working
<1>2. ASSUME NEW d \in Daemons, NEW loc, Goto(d, loc),
             \/ loc \in Holding /\ \E j : SetJob(d, j)
             \/ UNCHANGED job /\ (loc \in Holding \/ job[d].at = "idle")
             \/ SetJob(d, NoJob)
      PROVE  WorkersHold'
  <2>1. \A e \in Daemons : pc'[e] = IF e = d THEN loc ELSE pc[e]
    BY <1>2 DEF Goto
  <2>2. \A e \in Daemons : e # d => job'[e] = job[e]
    BY <1>2 DEF SetJob
  <2>3. Working(d)' => loc \in Holding
    BY <1>2 DEF SetJob, NoJob, Working
  <2>4. QED
    BY <2>1, <2>2, <2>3 DEF WorkersHold, Working
<1>3. ASSUME NEW d \in Daemons, Acquire(d) PROVE WorkersHold'
  <2>1. pc[d] \in Acquiring
    BY <1>3 DEF Acquire, Open, Inspect, Remove, WriteLock, Acquiring
  <2>2. job[d].at = "idle"
    BY <2>1 DEF WorkersHold, Working, Acquiring, Holding
  <2>3. QED
    BY <1>2, <1>3, <2>2 DEF Acquire, Open, Inspect, Judge, Remove, WriteLock, Holding
<1>4. ASSUME NEW d \in Daemons, LoopStep(d) PROVE WorkersHold'
  <2>1. CASE Heartbeat(d)
    BY <1>2, <2>1 DEF Heartbeat, BeatOpen, BeatWrite, Holding
  <2>2. CASE Pick(d)
    <3>1. CASE Leave(d)
      BY <1>2, <3>1 DEF Leave, Release
    <3>2. CASE UNCHANGED pc
      BY <1>1, <1>4, <3>2
    <3>3. QED
      BY <2>2, <3>1, <3>2 DEF Pick, Claim, Sleep, lockVars
  <2>3. CASE Record(d)
    <3>1. CASE job[d].launch = 0
      BY <1>2, <2>3, <3>1 DEF Record, Crash
    <3>2. CASE job[d].launch # 0
      BY <1>1, <1>4, <2>3, <3>2 DEF Record, lockVars
    <3>3. QED
      BY <3>1, <3>2
  <2>4. CASE ~Heartbeat(d) /\ ~Pick(d) /\ ~Record(d)
    <3>1. UNCHANGED pc
      BY <1>4, <2>4 DEF LoopStep, AdoptScan, AdoptRun, AdoptDone, Scan, Observe,
         ReadStatus, ReadAgents, ReadProgress, CheckPid, Apply, ReconcileDone,
         Spawn, SpawnFails, lockVars
    <3>2. QED
      BY <1>1, <1>4, <3>1
  <2>5. QED
    BY <2>1, <2>2, <2>3, <2>4
<1>5. ASSUME NEW d \in Daemons, DaemonCrash(d) PROVE WorkersHold'
  BY <1>2, <1>5 DEF DaemonCrash, Crash
<1>6. ASSUME NEW d \in Daemons, Start(d), UNCHANGED job PROVE WorkersHold'
  <2>1. job[d].at = "idle"
    BY <1>6 DEF Start, WorkersHold, Working, Holding
  <2>2. QED
    BY <1>2, <1>6, <2>1 DEF Start
<1>7. ASSUME UNCHANGED <<pc, job>> PROVE WorkersHold'
  BY <1>7 DEF WorkersHold, Working
<1>8. ASSUME NEW r \in Runs, Submit(r) \/ AgentsEnd(r) PROVE WorkersHold'
  BY <1>7, <1>8 DEF Submit, AgentsEnd, lockVars
<1>9. ASSUME NEW r \in Runs, EnsureSupervisorRunning(r) PROVE WorkersHold'
  BY <1>6, <1>7, <1>9 DEF EnsureSupervisorRunning, lockVars
<1>10. ASSUME NEW d \in Daemons, StartDaemon(d) PROVE WorkersHold'
  BY <1>6, <1>10 DEF StartDaemon, supVars
<1>11. ASSUME NEW r \in Runs, NEW l \in Launches, LauncherStep(r, l) \/ Kill(r, l)
       PROVE  WorkersHold'
  BY <1>7, <1>11 DEF LauncherStep, LauncherAdvances, LauncherStarts, LauncherRefused,
     LaunchAgents, Finalize, LauncherExits, WrapperReports, Kill, lockVars
<1>12. LeaseLapse \/ UNCHANGED vars => WorkersHold'
  BY <1>7 DEF LeaseLapse, Lapse, supVars, lockVars, vars
<1>13. ASSUME NEW o \in Readers, ReaderStep(o) PROVE WorkersHold'
  BY <1>13, ReaderJobs DEF DaemonJobsStay, WorkersHold, Working, lockVars
<1>14. QED
  BY <1>3, <1>4, <1>5, <1>8, <1>9, <1>10, <1>11, <1>12, <1>13
     DEF Next, DaemonStep, LoopStep
-----------------------------------------------------------------------------
(* Operators on states and jobs.                                           *)
LEMMA ReconciledKeeps ==
  ASSUME NEW s \in RunState, NEW j \in Jobs, NEW v,
         v = "journal" => j.journal \in Terminal
  PROVE  LET t == Reconciled(s, j, v)
         IN  /\ t \in RunState /\ t.pid = s.pid /\ t.resumes = s.resumes
             /\ t.status = s.status \/ t.status \in Terminal
             /\ v \in {"keep", "healthy", "degraded"} => t.status = s.status
<1>1. CASE v = "status"
  BY <1>1 DEF Reconciled, RunState, SettledByStatus, Terminal
<1>2. CASE v = "healthy"
  BY <1>2 DEF Reconciled, RunState
<1>3. CASE v = "degraded"
  BY <1>3 DEF Reconciled, RunState
<1>4. CASE v = "journal"
  BY <1>4 DEF Reconciled, RunState, SettledByJournal, Terminal
<1>5. CASE v = "lost"
  BY <1>5 DEF Reconciled, RunState, Terminal
<1>6. CASE v \notin {"status", "healthy", "degraded", "journal", "lost"}
  BY <1>6 DEF Reconciled
<1>7. QED
  BY <1>1, <1>2, <1>3, <1>4, <1>5, <1>6

LEMMA StartedKeeps ==
  ASSUME NEW d \in Daemons, NEW s \in RunState, NEW n \in 0 .. MaxLaunches
  PROVE  LET t == Started(d, s, n)
         IN  /\ t \in RunState /\ t.pid = n
             /\ s.status \in {"running", "pending"} => t.status = "running"
             /\ t.resumes = IF s.status = "running" THEN s.resumes + 1 ELSE s.resumes
<1>1. CASE s.status = "running"
  <2> DEFINE k == s.resumes + 1
  <2>1. k \in Nat
    BY DEF RunState
  <2>2. Started(d, s, n) = [s EXCEPT !.pid = n, !.disp = "running", !.resumes = k]
    BY <1>1 DEF Started
  <2> HIDE DEF k
  <2>3. /\ Started(d, s, n) \in RunState /\ Started(d, s, n).pid = n
        /\ Started(d, s, n).resumes = k /\ Started(d, s, n).status = s.status
    BY <2>1, <2>2 DEF RunState
  <2>4. QED
    BY <1>1, <2>3 DEF k
<1>2. CASE s.status # "running"
  BY <1>2 DEF Started, RunState
<1>3. QED
  BY <1>1, <1>2

LEMMA NextEntryCopies ==
  ASSUME NEW j \in Jobs, j.cur \in Runs, NEW rs, NEW rs2,
         CopyOK(j, rs), \A r \in Runs : r # j.cur => rs2[r] = rs[r]
  PROVE  CopyOK(NextEntry(j), rs2)
<1> DEFINE n == NextEntry(j)
           snap == [j.snap EXCEPT ![j.cur] = NoRun]
<1>1. \A r \in Runs : r # j.cur => snap[r] = j.snap[r]
  BY DEF Jobs
<1>2. /\ n.at \in {"adopt", "reconcile"}
      /\ n.todo = j.todo \ {j.cur}
      /\ n.snap = snap
  BY NoJobTyped DEF NextEntry, Jobs
<1>3. j.todo \subseteq Runs
  BY DEF Jobs
<1> HIDE DEF n, snap
<1>4. CopyOK(n, rs2)
  BY <1>1, <1>2, <1>3 DEF CopyOK, InHand, Same
<1>5. QED
  BY <1>4 DEF n

LEMMA PlainJobCopies ==
  ASSUME NEW rs, NEW at \in {"idle", "start", "beat", "scan", "pick"}
  PROVE  CopyOK([NoJob EXCEPT !.at = at], rs) /\ CopyOK(NoJob, rs)
BY DEF CopyOK, NoJob, InHand

LEMMA ReadStatesCopies ==
  ASSUME TypeInv, NEW d \in Daemons, NEW at \in {"adopt", "reconcile"},
         NEW adopting \in BOOLEAN, ReadStates(d, at, adopting)
  PROVE  CopyOK(job'[d], runs)
<1> DEFINE todo == RunsWith(runs, "running")
           j == [NoJob EXCEPT !.at = at, !.todo = todo, !.adopt = adopting,
                              !.snap = Snapshot(todo)]
<1>1. job'[d] = j
  BY DEF ReadStates, SetJob, TypeInv, JobInv, JobTypes, Observers
<1>2. j.at = at /\ j.todo = todo /\ j.snap = Snapshot(todo)
  BY DEF NoJob
<1>3. \A r \in todo : Snapshot(todo)[r] = runs[r] /\ runs[r].status = "running"
  BY DEF Snapshot, RunsWith
<1> HIDE DEF j, todo
<1>4. QED
  BY <1>1, <1>2, <1>3 DEF CopyOK, InHand, Same

-----------------------------------------------------------------------------
(* No end of a run is undone by the step, and none is revised without an   *)
(* exit code.                                                              *)
EndsStay ==
    \A r \in Runs :
        runs[r].status \in Terminal =>
            /\ runs'[r].status \in Terminal
            /\ statusFile[r] = "none" => runs'[r].status = runs[r].status

(* A reader whose copy is of a run that is over is right about that, and   *)
(* an exit code it has read is still there.                                *)
ReaderOK(j, r, rs, files) ==
    j.snap[r].status \in Terminal =>
        /\ rs[r].status \in Terminal
        /\ j.cur = r /\ j.status # "none" => files[r] # "none"

ReaderInv == \A o \in Readers, r \in Runs : ReaderOK(job[o], r, runs, statusFile)

(* What a reader may write while nothing is mixed: something that changes  *)
(* nothing of the launches, or the end of a run that no daemon has in hand *)
(* and, unless it is early, that no wrapper is left of.                    *)
EndedByReader(r) ==
    /\ \A d \in Daemons : ~InHandOf(d, r)
    /\ runs'[r].status \in Terminal
    /\ runs'[r].pid = runs[r].pid /\ runs'[r].resumes = runs[r].resumes
    /\ runs[r].status \notin Terminal /\ "early" \notin runMishaps'
         => \A l \in Launches : ~WrapperAlive(r, l)

ReaderWrites(r) ==
    /\ \A q \in Runs : q # r => runs'[q] = runs[q]
    /\ Same(runs[r], runs'[r]) \/ EndedByReader(r)

LEMMA ReaderApplies ==
  ASSUME TypeInv, Unmixed', NEW o \in Readers, ReaderApply(o)
  PROVE  /\ \E r \in Runs : ReaderWrites(r)
         /\ ReaderInv => EndsStay
<1> DEFINE j == job[o]
           r == j.cur
           s == j.snap[r]
           v == ReadVerdict(s, j)
           w == Reconciled(s, j, v)
<1>0. /\ runs \in [Runs -> RunState]
      /\ r \in Runs /\ s \in RunState /\ j \in Jobs
  BY DEF ReaderApply, InHand, TypeInv, SupervisorStateTypes, JobInv, JobTypes,
         JobHasRun, Observers, Jobs
<1>1. /\ w.pid = s.pid /\ w.resumes = s.resumes
      /\ w.status = s.status \/ w.status \in Terminal
      /\ v \in {"keep", "healthy", "degraded"} => w.status = s.status
  BY <1>0, ReconciledKeeps, VerdictJournal
<1>2. /\ v \in {"status", "keep", "healthy", "degraded", "journal"}
      /\ v = "status" <=> j.status # "none"
      /\ v = "journal" => s.status = "running"
  BY DEF ReadVerdict
<1>3. \/ UNCHANGED runs
      \/ /\ runs' = [runs EXCEPT ![r] = w]
         /\ runMishaps' = runMishaps \cup WriteMishaps(o, r, w)
  BY DEF ReaderApply
<1>4. UNCHANGED statusFile
  BY DEF ReaderApply
<1> HIDE DEF w, v
<1>5. CASE UNCHANGED runs
  BY <1>0, <1>5 DEF ReaderWrites, Same, EndsStay
<1>6. ASSUME runs' = [runs EXCEPT ![r] = w],
             runMishaps' = runMishaps \cup WriteMishaps(o, r, w)
      PROVE  ReaderWrites(r) /\ (ReaderInv => EndsStay)
  <2>1. runs'[r] = w /\ \A q \in Runs : q # r => runs'[q] = runs[q]
    BY <1>0, <1>6
  <2>2. "clash" \notin WriteMishaps(o, r, w)
    BY <1>6 DEF Unmixed
  <2>3. CASE Same(w, runs[r])
    BY <2>1, <2>3 DEF ReaderWrites, EndsStay, Same
  <2>4. CASE ~Same(w, runs[r])
    <3>1. Same(s, runs[r]) /\ \A d \in Daemons : ~InHandOf(d, r)
      BY <2>2, <2>4 DEF WriteMishaps, RunMishapKinds
    <3>2. w.status # s.status /\ w.status \in Terminal
      BY <1>1, <2>4, <3>1 DEF Same
    <3>3. "early" \notin runMishaps' /\ runs[r].status \notin Terminal
            => \A l \in Launches : ~WrapperAlive(r, l)
      BY <1>6, <3>2 DEF WriteMishaps, RunMishapKinds
    <3>4. ReaderWrites(r)
      BY <1>1, <2>1, <3>1, <3>2, <3>3 DEF ReaderWrites, EndedByReader, Same
    <3>5. ASSUME ReaderInv, runs[r].status \in Terminal
          PROVE  statusFile[r] # "none"
      <4>1. s.status \in Terminal
        BY <3>1, <3>5 DEF Same
      <4>2. j.status # "none"
        BY <1>1, <1>2, <3>2, <4>1 DEF Terminal
      <4>3. QED
        BY <1>0, <3>5, <4>1, <4>2 DEF ReaderInv, ReaderOK
    <3>6. ReaderInv => EndsStay
      BY <2>1, <3>2, <3>5 DEF EndsStay
    <3>7. QED
      BY <3>4, <3>6
  <2>5. QED
    BY <2>3, <2>4
<1>7. QED
  BY <1>0, <1>3, <1>5, <1>6

(* After a step of the loop the copies of its daemon are current, at most  *)
(* one run is running, and no end of a run was undone.                     *)

LEMMA LoopCopies ==
  ASSUME TypeInv, CopyInv, OneRunning, NEW d \in Daemons, LoopStep(d)
  PROVE  CopyOK(job'[d], runs') /\ OneRunning' /\ EndsStay
<1> DEFINE j == job[d]
           r == j.cur
           s == j.snap[r]
<1>0. /\ runs \in [Runs -> RunState]
      /\ j \in Jobs /\ j.todo \subseteq Runs
      /\ \A q \in Runs : j.snap[q] \in RunState
      /\ j.at \in InHand => r \in Runs
      /\ CopyOK(j, runs)
      /\ \A x : SetJob(d, x) => job'[d] = x
  BY DEF TypeInv, SupervisorStateTypes, JobInv, JobTypes, JobHasRun, Observers, Jobs,
         CopyInv, SetJob
<1>a. UNCHANGED runs => OneRunning' /\ EndsStay
  BY DEF OneRunning, EndsStay
<1>1. CASE AdoptScan(d) \/ Scan(d)
  BY <1>1, <1>a, ReadStatesCopies DEF AdoptScan, Scan, fileVars
<1>2. CASE AdoptRun(d)
  <2>1. PICK q \in Runs : q \in j.todo
                       /\ runs' = [runs EXCEPT ![q] = [j.snap[q] EXCEPT !.owner = d]]
    BY <1>2 DEF AdoptRun, Least
  <2> DEFINE t == [j.snap[q] EXCEPT !.owner = d]
             n == [j EXCEPT !.at = "reconcile"]
  <2>2. Same(j.snap[q], t) /\ Same(j.snap[q], runs[q]) /\ runs[q].status = "running"
    BY <1>0, <2>1 DEF Same, RunState, CopyOK
  <2>3. \A p \in Runs : runs'[p] = IF p = q THEN t ELSE runs[p]
    BY <1>0, <2>1
  <2>4. n.at = "reconcile" /\ n.todo = j.todo /\ n.snap = j.snap
    BY <1>0 DEF Jobs
  <2>5. job'[d] = n
    BY <1>0, <1>2 DEF AdoptRun
  <2> HIDE DEF t, n
  <2>6. CopyOK(n, runs')
    <3>1. \A p \in j.todo : Same(j.snap[p], runs'[p]) /\ runs'[p].status = "running"
      <4>1. \A p \in j.todo : Same(j.snap[p], runs[p]) /\ runs[p].status = "running"
        BY <1>0 DEF CopyOK
      <4>2. Same(j.snap[q], runs'[q]) /\ runs'[q].status = "running"
        BY <2>1, <2>2, <2>3 DEF Same
      <4>3. QED
        BY <1>0, <2>3, <4>1, <4>2
    <3>2. QED
      BY <2>4, <3>1 DEF CopyOK, InHand
  <2>7. \A p \in Runs : runs'[p].status = runs[p].status
    BY <2>2, <2>3 DEF Same
  <2>8. QED
    BY <2>5, <2>6, <2>7 DEF OneRunning, EndsStay
<1>3. CASE AdoptDone(d) \/ Heartbeat(d) \/ ReconcileDone(d)
  <2>1. UNCHANGED runs
    BY <1>3 DEF AdoptDone, Heartbeat, ReconcileDone, fileVars
  <2>2. \/ UNCHANGED job
        \/ \E at \in {"beat", "scan", "pick"} : SetJob(d, [NoJob EXCEPT !.at = at])
    BY <1>3 DEF AdoptDone, Heartbeat, ReconcileDone
  <2>3. QED
    BY <1>0, <1>a, <2>1, <2>2, PlainJobCopies
<1>4. CASE Observe(d)
  <2>1. UNCHANGED runs
    BY <1>4 DEF Observe, ReadStatus, ReadAgents, ReadProgress, CheckPid, fileVars
  <2>2. CASE ReadStatus(d)
    <3>1. PICK q \in j.todo :
            SetJob(d, [j EXCEPT !.cur = q, !.status = statusFile[q],
                  !.at = IF statusFile[q] = "none" THEN "agents" ELSE "apply"])
      BY <2>2 DEF ReadStatus, Least
    <3> DEFINE n == [j EXCEPT !.cur = q, !.status = statusFile[q],
                  !.at = IF statusFile[q] = "none" THEN "agents" ELSE "apply"]
    <3>2. n.at \in {"agents", "apply"} /\ n.cur = q /\ n.todo = j.todo /\ n.snap = j.snap
      BY <1>0 DEF Jobs
    <3>3. job'[d] = n
      BY <1>0, <3>1
    <3> HIDE DEF n
    <3>4. QED
      BY <1>0, <1>a, <2>1, <3>1, <3>2, <3>3 DEF CopyOK
  <2>3. CASE ReadAgents(d) \/ ReadProgress(d) \/ CheckPid(d)
    <3>1. /\ j.at \in {"agents", "progress", "pid"}
          /\ \/ SetJob(d, [j EXCEPT !.agents = agents[r], !.at = "progress"])
             \/ SetJob(d, [j EXCEPT !.journal = progress[r], !.at = "pid"])
             \/ SetJob(d, [j EXCEPT !.up = WrapperAlive(r, s.pid), !.at = "apply"])
      BY <2>3 DEF ReadAgents, ReadProgress, CheckPid
    <3>2. PICK n : /\ SetJob(d, n)
                   /\ n.at \in {"progress", "pid", "apply"} /\ n.cur = r
                   /\ n.todo = j.todo /\ n.snap = j.snap
      BY <1>0, <3>1 DEF Jobs
    <3>3. QED
      BY <1>0, <1>a, <2>1, <3>1, <3>2 DEF CopyOK, InHand
  <2>4. QED
    BY <1>4, <2>2, <2>3 DEF Observe
<1>5. CASE Apply(d)
  <2> DEFINE v == Verdict(s, j)
             t == Reconciled(s, j, v)
  <2>1. j.at = "apply" /\ r \in j.todo /\ Same(s, runs[r]) /\ runs[r].status = "running"
    BY <1>0, <1>5 DEF Apply, CopyOK, InHand
  <2>2. CASE v = "resume"
    <3>1. UNCHANGED runs /\ SetJob(d, [j EXCEPT !.at = "spawn"])
      BY <1>5, <2>2 DEF Apply
    <3>2. CopyOK([j EXCEPT !.at = "spawn"], runs)
      BY <1>0, <2>1 DEF CopyOK, Jobs
    <3>3. QED
      BY <1>0, <1>a, <3>1, <3>2
  <2>3. CASE v # "resume"
    <3>1. /\ SetJob(d, NextEntry(j))
          /\ runs' = runs \/ runs' = [runs EXCEPT ![r] = t]
      BY <1>5, <2>3 DEF Apply
    <3>2. t.status = s.status \/ t.status \in Terminal
      BY <1>0, <2>1, ReconciledKeeps, VerdictJournal
    <3> HIDE DEF t
    <3>3. \A q \in Runs : q # r => runs'[q] = runs[q]
      BY <1>0, <3>1
    <3>4. runs'[r].status = "running" \/ runs'[r].status \in Terminal
      BY <1>0, <2>1, <3>1, <3>2 DEF Same
    <3>5. CopyOK(NextEntry(j), runs')
      BY <1>0, <2>1, <3>3, NextEntryCopies
    <3>6. OneRunning' /\ EndsStay
      BY <2>1, <3>3, <3>4 DEF OneRunning, EndsStay, Terminal
    <3>7. QED
      BY <1>0, <3>1, <3>5, <3>6
  <2>4. QED
    BY <2>2, <2>3
<1>6. CASE Pick(d)
  <2>1. UNCHANGED runs
    BY <1>6 DEF Pick, fileVars
  <2>2. CASE ~Busy /\ Claim(d)
    <3>1. PICK q \in Runs : /\ q \in Claimable
                            /\ SetJob(d, [NoJob EXCEPT !.at = "spawn", !.cur = q,
                                                       !.snap = Snapshot({q})])
      BY <2>2 DEF Claim, Least
    <3> DEFINE n == [NoJob EXCEPT !.at = "spawn", !.cur = q, !.snap = Snapshot({q})]
    <3>2. n.at = "spawn" /\ n.cur = q /\ n.todo = {} /\ n.snap[q] = runs[q]
      BY DEF NoJob, Snapshot
    <3>3. runs[q].status = "pending" /\ NoneRunning(runs)
      BY <2>2, <3>1 DEF Claimable, Busy, RunsWith, NoneRunning
    <3>4. job'[d] = n
      BY <1>0, <3>1
    <3> HIDE DEF n
    <3>5. QED
      BY <1>a, <2>1, <3>2, <3>3, <3>4 DEF CopyOK, Same
  <2>3. CASE Leave(d) \/ Sleep(d)
    <3>1. SetJob(d, NoJob) \/ SetJob(d, [NoJob EXCEPT !.at = "beat"])
      BY <2>3 DEF Leave, Sleep
    <3>2. QED
      BY <1>0, <1>a, <2>1, <3>1, PlainJobCopies
  <2>4. QED
    BY <1>6, <2>2, <2>3 DEF Pick
<1>7. CASE Spawn(d) \/ SpawnFails(d)
  <2>1. j.at = "spawn" /\ UNCHANGED runs
    BY <1>7 DEF Spawn, SpawnFails
  <2>2. PICK l : SetJob(d, [j EXCEPT !.launch = l, !.at = "record"])
    BY <1>7 DEF Spawn, SpawnFails
  <2>3. CopyOK([j EXCEPT !.launch = l, !.at = "record"], runs)
    BY <1>0, <2>1 DEF CopyOK, Jobs, InHand
  <2>4. QED
    BY <1>0, <1>a, <2>1, <2>2, <2>3
<1>8. CASE Record(d)
  <2> DEFINE t == Started(d, s, j.launch)
  <2>1. j.at = "record" /\ r \in Runs /\ runs' = [runs EXCEPT ![r] = t]
    BY <1>0, <1>8 DEF Record, InHand
  <2>2. /\ Same(s, runs[r])
        /\ \/ r \in j.todo /\ runs[r].status = "running"
           \/ j.todo = {} /\ runs[r].status = "pending" /\ NoneRunning(runs)
    BY <1>0, <2>1 DEF CopyOK, InHand
  <2>3. t.status = "running"
    BY <1>0, <2>1, <2>2, StartedKeeps DEF Same, Jobs
  <2> HIDE DEF t
  <2>4. /\ \A q \in Runs : q # r => runs'[q] = runs[q]
        /\ runs'[r].status = "running"
    BY <1>0, <2>1, <2>3
  <2>5. OneRunning' /\ EndsStay
    BY <2>1, <2>2, <2>4 DEF OneRunning, EndsStay, NoneRunning, Terminal
  <2>6. CopyOK(NextEntry(j), runs')
    BY <1>0, <2>1, <2>4, NextEntryCopies
  <2>7. \/ SetJob(d, NextEntry(j))
        \/ SetJob(d, NoJob) \/ SetJob(d, [NoJob EXCEPT !.at = "beat"])
    BY <1>8 DEF Record
  <2>8. QED
    BY <1>0, <2>5, <2>6, <2>7, PlainJobCopies
<1>9. QED
  BY <1>1, <1>2, <1>3, <1>4, <1>5, <1>6, <1>7, <1>8 DEF LoopStep

LEMMA OthersIdle ==
  ASSUME TypeInv, OneWorker, NEW d \in Daemons, LoopStep(d)
  PROVE  \A e \in Daemons : e # d => job'[e] = job[e] /\ job[e].at = "idle"
<1>1. \A e \in Daemons : e # d => job'[e] = job[e]
  BY DEF LoopStep, AdoptScan, AdoptRun, AdoptDone, Heartbeat, Scan, Observe,
     ReadStatus, ReadAgents, ReadProgress, CheckPid, Apply, ReconcileDone, Pick,
     Spawn, Record, SpawnFails, SetJob, ReadStates, Claim, Sleep, Leave,
     TypeInv, JobInv, JobTypes, Observers
<1>2. QED
  BY <1>1, LoopStepsWork DEF OneWorker, Working

LEMMA CopyStep ==
  ASSUME Unmixed', TypeInv, OneWorker, CopyInv, OneRunning, ReaderInv, [Next]_vars
  PROVE  CopyInv' /\ OneRunning' /\ EndsStay
<1>1. ASSUME NEW d \in Daemons, LoopStep(d)
      PROVE  CopyInv' /\ OneRunning' /\ EndsStay
  <2>1. \A e \in Daemons : e # d => job'[e] = job[e] /\ job[e].at = "idle"
    BY <1>1, OthersIdle
  <2>2. CopyOK(job'[d], runs') /\ OneRunning' /\ EndsStay
    BY <1>1, LoopCopies
  <2>3. \A e \in Daemons : e # d => CopyOK(job'[e], runs')
    BY <2>1 DEF CopyInv, CopyOK, InHand
  <2>4. QED
    BY <2>2, <2>3 DEF CopyInv
<1>2. ASSUME NEW d \in Daemons, Acquire(d) \/ DaemonCrash(d)
      PROVE  CopyInv' /\ OneRunning' /\ EndsStay
  <2>1. UNCHANGED runs
    BY <1>2 DEF Acquire, DaemonCrash, fileVars
  <2>2. \/ UNCHANGED job
        \/ SetJob(d, NoJob) \/ SetJob(d, [NoJob EXCEPT !.at = "start"])
    BY <1>2 DEF Acquire, DaemonCrash
  <2>3. \A e \in Daemons : CopyOK(job'[e], runs)
    BY <2>2, PlainJobCopies
       DEF SetJob, CopyInv, TypeInv, JobInv, JobTypes, Observers
  <2>4. QED
    BY <2>1, <2>3 DEF CopyInv, OneRunning, EndsStay
<1>3. ASSUME NEW r \in Runs, Submit(r)
      PROVE  CopyInv' /\ OneRunning' /\ EndsStay
  <2>1. /\ runs[r].status = "none" /\ UNCHANGED job
        /\ runs' = [runs EXCEPT ![r].status = "pending"]
    BY <1>3 DEF Submit
  <2>2. \A q \in Runs : q # r => runs'[q] = runs[q]
    BY <2>1
  <2>3. runs'[r].status = "pending"
    BY <2>1 DEF TypeInv, SupervisorStateTypes, RunState
  <2>4. \A d \in Daemons : CopyOK(job[d], runs')
    <3> SUFFICES ASSUME NEW d \in Daemons PROVE CopyOK(job[d], runs')
      OBVIOUS
    <3>1. /\ CopyOK(job[d], runs) /\ job[d].todo \subseteq Runs
          /\ job[d].at \in InHand => job[d].cur \in Runs
      BY DEF CopyInv, TypeInv, JobInv, JobTypes, JobHasRun, Jobs, Observers
    <3>2. r \notin job[d].todo
      BY <2>1, <3>1 DEF CopyOK
    <3>3. job[d].at \in InHand => job[d].cur # r
      BY <2>1, <3>1, <3>2 DEF CopyOK
    <3>4. NoneRunning(runs) => NoneRunning(runs')
      BY <2>2, <2>3 DEF NoneRunning
    <3>5. QED
      BY <2>2, <3>1, <3>2, <3>3, <3>4 DEF CopyOK
  <2>5. QED
    BY <2>1, <2>2, <2>3, <2>4 DEF CopyInv, OneRunning, EndsStay, Terminal
<1>4. ASSUME UNCHANGED runs, DaemonJobsStay
      PROVE  CopyInv' /\ OneRunning' /\ EndsStay
  BY <1>4 DEF CopyInv, OneRunning, EndsStay, DaemonJobsStay
<1>5. ASSUME NEW o \in Readers, ReaderApply(o)
      PROVE  CopyInv' /\ OneRunning' /\ EndsStay
  <2>1. DaemonJobsStay
    BY <1>5, ReaderJobs DEF ReaderStep
  <2>2. PICK r \in Runs : ReaderWrites(r)
    BY <1>5, ReaderApplies
  <2>3. EndsStay
    BY <1>5, ReaderApplies
  <2>4. ASSUME NEW q \in Runs
        PROVE  runs'[q].status \in {"running", "pending"} => Same(runs[q], runs'[q])
    BY <2>2 DEF ReaderWrites, EndedByReader, Terminal, Same
  <2>5. OneRunning' /\ (NoneRunning(runs) => NoneRunning(runs'))
    BY <2>4 DEF OneRunning, NoneRunning, Same
  <2>6. ASSUME NEW d \in Daemons PROVE CopyOK(job[d], runs')
    <3> DEFINE j == job[d]
    <3>0. /\ CopyOK(j, runs) /\ j.todo \subseteq Runs
          /\ j.at \in InHand => j.cur \in Runs
      BY DEF CopyInv, TypeInv, JobInv, JobTypes, JobHasRun, Jobs, Observers
    <3>1. ASSUME NEW q \in Runs, Same(j.snap[q], runs[q]),
                 runs[q].status \in {"running", "pending"}
          PROVE  Same(runs[q], runs'[q])
      <4>1. InHandOf(d, q)
        BY <3>1 DEF InHandOf, NoRun, Same
      <4>2. QED
        BY <2>2, <4>1 DEF ReaderWrites, EndedByReader, Same
    <3> HIDE DEF j
    <3>2. \A q \in j.todo : Same(j.snap[q], runs'[q]) /\ runs'[q].status = "running"
      BY <3>0, <3>1 DEF CopyOK, Same
    <3>3. j.at \in InHand => /\ Same(j.snap[j.cur], runs'[j.cur])
                              /\ runs'[j.cur].status = runs[j.cur].status
      <4>1. j.at \in InHand => /\ Same(j.snap[j.cur], runs[j.cur])
                                /\ runs[j.cur].status \in {"running", "pending"}
        BY <3>0 DEF CopyOK
      <4>2. QED
        BY <3>0, <3>1, <4>1 DEF Same
    <3>4. QED
      BY <2>5, <3>0, <3>2, <3>3 DEF CopyOK, j
  <2>7. QED
    BY <2>1, <2>3, <2>5, <2>6 DEF CopyInv, DaemonJobsStay
<1>6. QED
  BY <1>1, <1>2, <1>3, <1>4, <1>5, StepCases

(* A status file is removed only for a run that is not over.               *)
LEMMA StatusFilesStay ==
  ASSUME TypeInv, CopyInv, [Next]_vars,
         NEW r \in Runs, runs[r].status \in Terminal, statusFile[r] # "none"
  PROVE  statusFile'[r] # "none"
<1>1. ASSUME NEW d \in Daemons, Spawn(d) \/ SpawnFails(d)
      PROVE  statusFile'[r] = statusFile[r]
  <2>1. job[d].at = "spawn" /\ statusFile' = [statusFile EXCEPT ![job[d].cur] = "none"]
    BY <1>1 DEF Spawn, SpawnFails
  <2>2. runs[job[d].cur].status \in {"running", "pending"}
    BY <2>1 DEF CopyInv, CopyOK, InHand
  <2>3. QED
    BY <2>1, <2>2 DEF Terminal
<1>2. ASSUME NEW d \in Daemons, LoopStep(d) \/ Acquire(d) \/ DaemonCrash(d)
      PROVE  statusFile'[r] = statusFile[r]
  <2>1. CASE Spawn(d) \/ SpawnFails(d)
    BY <1>1, <2>1
  <2>2. CASE ~Spawn(d) /\ ~SpawnFails(d)
    BY <1>2, <2>2 DEF LoopStep, AdoptScan, AdoptRun, AdoptDone, Heartbeat, Scan,
       Observe, ReadStatus, ReadAgents, ReadProgress, CheckPid, Apply, ReconcileDone,
       Pick, Record, Acquire, DaemonCrash, fileVars
  <2>3. QED
    BY <2>1, <2>2
<1>3. ASSUME NEW q \in Runs, Submit(q) PROVE UNCHANGED statusFile
  BY <1>3 DEF Submit
<1>4. ASSUME NEW o \in Readers, ReaderApply(o) PROVE UNCHANGED statusFile
  BY <1>4 DEF ReaderApply
<1>5. ASSUME NEW q \in Runs, NEW l \in Launches, LauncherStep(q, l) \/ Kill(q, l)
      PROVE  statusFile'[r] # "none"
  <2>1. CASE WrapperReports(q, l)
    BY <2>1 DEF WrapperReports, TypeInv, SupervisorStateTypes
  <2>2. CASE ~WrapperReports(q, l)
    BY <1>5, <2>2 DEF LauncherStep, LauncherAdvances, LauncherStarts, LauncherRefused,
       LaunchAgents, Finalize, LauncherExits, Kill, fileVars
  <2>3. QED
    BY <2>1, <2>2
<1>6. QED
  BY <1>1, <1>2, <1>3, <1>4, <1>5, StepCases

LEMMA ReaderJobSteps ==
  ASSUME TypeInv, [Next]_vars, NEW o \in Readers
  PROVE  job'[o] = job[o] \/ ReaderStep(o)
<1>0. /\ job \in [Observers -> Jobs]
      /\ o \in Observers /\ o \notin Daemons
  BY SupervisorAssumption DEF TypeInv, JobInv, JobTypes, Observers
<1>1. ASSUME NEW e, e # o, NEW j, SetJob(e, j) PROVE job'[o] = job[o]
  BY <1>0, <1>1 DEF SetJob
<1>2. ASSUME NEW d \in Daemons, LoopStep(d) PROVE job'[o] = job[o]
  BY <1>0, <1>2 DEF LoopStep, AdoptScan, AdoptRun, AdoptDone, Heartbeat, Scan, Observe,
     ReadStatus, ReadAgents, ReadProgress, CheckPid, Apply, ReconcileDone, Pick,
     Spawn, Record, SpawnFails, SetJob, ReadStates, Claim, Sleep, Leave
<1>3. ASSUME NEW d \in Daemons, Acquire(d) \/ DaemonCrash(d) PROVE job'[o] = job[o]
  BY <1>0, <1>3 DEF Acquire, DaemonCrash, SetJob
<1>4. ASSUME NEW d \in Daemons, StartDaemon(d) PROVE UNCHANGED job
  BY <1>4 DEF StartDaemon, supVars
<1>5. ASSUME NEW r \in Runs, Submit(r) \/ EnsureSupervisorRunning(r) \/ AgentsEnd(r)
      PROVE  UNCHANGED job
  BY <1>5 DEF Submit, EnsureSupervisorRunning, AgentsEnd
<1>6. ASSUME NEW r \in Runs, NEW l \in Launches, LauncherStep(r, l) \/ Kill(r, l)
      PROVE  UNCHANGED job
  BY <1>6 DEF LauncherStep, LauncherAdvances, LauncherStarts, LauncherRefused,
     LaunchAgents, Finalize, LauncherExits, WrapperReports, Kill
<1>7. ASSUME NEW e \in Readers, ReaderStep(e), e # o PROVE job'[o] = job[o]
  BY <1>0, <1>7 DEF ReaderStep, ReadState, Observe, ReadStatus, ReadAgents,
     ReadProgress, CheckPid, ReaderApply, SetJob
<1>8. LeaseLapse \/ UNCHANGED vars => UNCHANGED job
  BY DEF LeaseLapse, supVars, vars
<1>9. QED
  BY <1>2, <1>3, <1>4, <1>5, <1>6, <1>7, <1>8 DEF Next, DaemonStep, LoopStep

LEMMA ReaderInvStep ==
  ASSUME TypeInv, CopyInv, ReaderInv, EndsStay, [Next]_vars
  PROVE  ReaderInv'
<1> SUFFICES ASSUME NEW o \in Readers, NEW r \in Runs
             PROVE  ReaderOK(job'[o], r, runs', statusFile')
  BY DEF ReaderInv
<1> DEFINE j == job[o]
<1>0. /\ j \in Jobs
      /\ ReaderOK(j, r, runs, statusFile)
      /\ \A x : SetJob(o, x) => job'[o] = x
  BY DEF ReaderInv, TypeInv, JobInv, JobTypes, Observers, SetJob
<1>1. ASSUME NEW i, ReaderOK(i, r, runs, statusFile)
      PROVE  ReaderOK(i, r, runs', statusFile')
  BY <1>1, StatusFilesStay DEF ReaderOK, EndsStay
<1>2. ASSUME NEW q \in Runs, ReadState(o, q) PROVE ReaderOK(job'[o], r, runs, statusFile)
  <2> DEFINE n == [NoJob EXCEPT !.at = "reconcile", !.todo = {q}, !.snap = Snapshot({q})]
  <2>1. job'[o] = n
    BY <1>0, <1>2 DEF ReadState
  <2>2. n.snap = Snapshot({q}) /\ n.status = "none"
    BY DEF NoJob
  <2> HIDE DEF n
  <2>3. QED
    BY <2>1, <2>2 DEF ReaderOK, Snapshot, NoRun, Terminal
<1>3. CASE ReadStatus(o)
  <2>1. PICK q \in Runs : job'[o] = [j EXCEPT !.cur = q, !.status = statusFile[q],
                  !.at = IF statusFile[q] = "none" THEN "agents" ELSE "apply"]
    BY <1>0, <1>3 DEF ReadStatus
  <2>2. job'[o].cur = q /\ job'[o].status = statusFile[q] /\ job'[o].snap = j.snap
    BY <1>0, <2>1 DEF Jobs
  <2>3. ReaderOK(job'[o], r, runs, statusFile)
    BY <1>0, <2>2 DEF ReaderOK
  <2>4. QED
    BY <1>1, <2>3
<1>4. CASE ReadAgents(o) \/ ReadProgress(o) \/ CheckPid(o)
  <2>1. \/ SetJob(o, [j EXCEPT !.agents = agents[j.cur], !.at = "progress"])
        \/ SetJob(o, [j EXCEPT !.journal = progress[j.cur], !.at = "pid"])
        \/ SetJob(o, [j EXCEPT !.up = WrapperAlive(j.cur, j.snap[j.cur].pid),
                               !.at = "apply"])
    BY <1>4 DEF ReadAgents, ReadProgress, CheckPid
  <2>2. PICK n : /\ SetJob(o, n)
                 /\ n.cur = j.cur /\ n.status = j.status /\ n.snap = j.snap
    BY <1>0, <2>1 DEF Jobs
  <2>3. ReaderOK(job'[o], r, runs, statusFile)
    BY <1>0, <2>2 DEF ReaderOK
  <2>4. QED
    BY <1>1, <2>3
<1>5. CASE ReaderApply(o)
  <2>1. job'[o] = NoJob
    BY <1>0, <1>5 DEF ReaderApply
  <2>2. QED
    BY <2>1 DEF ReaderOK, NoJob, NoRun, Terminal
<1>6. QED
  BY <1>0, <1>1, <1>2, <1>3, <1>4, <1>5, ReaderJobSteps DEF ReaderStep, Observe

-----------------------------------------------------------------------------
(* The state invariants so far, of every behaviour.                        *)
BaseInv ==
    /\ TypeInv /\ LockTypeOK
    /\ WorkersHold /\ OneWorker
    /\ CopyInv /\ OneRunning /\ ReaderInv

LEMMA BaseHolds == Spec => [](Unmixed => BaseInv)
<1>1. Init => WorkersHold /\ CopyInv /\ OneRunning /\ ReaderInv
  BY DEF Init, WorkersHold, Working, CopyInv, CopyOK, OneRunning, ReaderInv, ReaderOK,
         NoJob, NoRun, InHand, Observers, Terminal
<1>2. Spec => []TypeInv
  BY TypeInvInit, TypeInvStep, PTL DEF Spec
<1>3. Spec => []LockTypeOK
  BY SupervisorRefinesLock, LockTypeCorrect, PTL DEF LockRefined
<1>4. Spec => []MutualExclusion
  BY OneDaemonDrivesRuns
<1>5. TypeInv /\ LockTypeOK /\ WorkersHold /\ [Next]_vars => WorkersHold'
  BY WorkersHoldStep
<1>6. Spec => []WorkersHold
  BY <1>1, <1>2, <1>3, <1>5, PTL DEF Spec
<1>7. WorkersHold /\ MutualExclusion => (Unmixed => OneWorker)
  BY DEF WorkersHold, MutualExclusion, OneDaemonPerLane, OneWorker, Unmixed
<1> DEFINE Copies == CopyInv /\ OneRunning /\ ReaderInv
<1>8. TypeInv /\ LockTypeOK /\ (Unmixed => OneWorker) /\ (Unmixed => Copies)
        /\ [Next]_vars => (Unmixed => Copies)'
  <2> SUFFICES ASSUME TypeInv, LockTypeOK, Unmixed => OneWorker, Unmixed => Copies,
                      [Next]_vars, Unmixed'
               PROVE  Copies'
    OBVIOUS
  <2>1. Unmixed
    BY StaysUnmixed DEF Unmixed
  <2>2. CopyInv' /\ OneRunning' /\ EndsStay
    BY <2>1, CopyStep
  <2>3. ReaderInv'
    BY <2>1, <2>2, ReaderInvStep
  <2>4. QED
    BY <2>2, <2>3
<1>9. Init => Copies
  BY <1>1
<1> HIDE DEF Copies
<1>10. Spec => [](Unmixed => Copies)
  BY <1>9, <1>2, <1>3, <1>4, <1>6, <1>7, <1>8, PTL DEF Spec
<1>11. TypeInv /\ LockTypeOK /\ WorkersHold /\ (Unmixed => OneWorker)
         /\ (Unmixed => Copies) => (Unmixed => BaseInv)
  BY DEF BaseInv, Copies
<1>12. QED
  BY <1>2, <1>3, <1>4, <1>6, <1>7, <1>10, <1>11, PTL

(* A step into a state where nothing is mixed yet started in one.          *)
LEMMA UnmixedBefore == Spec => [][Unmixed' => Unmixed]_vars
<1>1. Spec => []TypeInv
  BY TypeInvInit, TypeInvStep, PTL DEF Spec
<1>2. Spec => []LockTypeOK
  BY SupervisorRefinesLock, LockTypeCorrect, PTL DEF LockRefined
<1>3. TypeInv /\ LockTypeOK /\ [Next]_vars => [Unmixed' => Unmixed]_vars
  BY StaysUnmixed DEF Unmixed
<1>4. QED
  BY <1>1, <1>2, <1>3, PTL DEF Spec

(* The lane works on one submitted run at a time, whichever daemons,       *)
(* launchers and wrappers die, however often the run is resumed, and with  *)
(* readers that settle runs beside the daemon: until one of them, or a     *)
(* second daemon, has written over what the daemon does.                   *)
THEOREM LaneWorksOnOneRun == Spec => []OneRunAtATime
<1>1. (Unmixed => BaseInv) => OneRunAtATime
  <2> SUFFICES ASSUME Unmixed, BaseInv PROVE OneRunAtATime
    BY DEF OneRunAtATime
  <2> DEFINE S == RunsWith(runs, "running")
  <2>1. \A q, r \in S : q = r
    BY DEF RunsWith, BaseInv, OneRunning
  <2>2. CASE S = {}
    BY <2>2, FS_EmptySet DEF OneRunAtATime
  <2>3. ASSUME NEW r \in S PROVE OneRunAtATime
    <3>1. S = {r}
      BY <2>1, <2>3
    <3>2. Cardinality(S) = 1
      BY <3>1, FS_Singleton
    <3>3. QED
      BY <3>2 DEF OneRunAtATime
  <2>4. QED
    BY <2>2, <2>3
<1>2. QED
  BY <1>1, BaseHolds, PTL

(* A run that was reported over is over for good, and without an exit code *)
(* its end is not revised: a daemon writes back only copies of runs that   *)
(* are not over, and a reader has nothing else to say of one that is.      *)
THEOREM EndsOfRunsStay == Spec => SettledStays
<1> DEFINE Settled ==
        \A r \in Runs :
          Unmixed' /\ runs[r].status \in Terminal =>
              /\ runs'[r].status \in Terminal
              /\ statusFile[r] = "none" => runs'[r].status = runs[r].status
<1>1. (Unmixed => BaseInv) /\ [Next]_vars /\ [Unmixed' => Unmixed]_vars => [Settled]_vars
  <2>1. BaseInv /\ [Next]_vars /\ Unmixed' => EndsStay
    BY CopyStep DEF BaseInv
  <2>2. QED
    BY <2>1 DEF EndsStay
<1>2. Spec => [][Settled]_vars
  BY <1>1, BaseHolds, UnmixedBefore, PTL DEF Spec
<1>3. QED
  BY <1>2 DEF SettledStays
-----------------------------------------------------------------------------
(* What a step of the loop does to the states: nothing but the owner, the  *)
(* end of the run in hand, or its start.                                   *)
EndsRun(d, r) ==
    /\ Apply(d) /\ r = job[d].cur
    /\ Verdict(job[d].snap[r], job[d]) \in {"status", "journal", "lost"}
    /\ runs[r].status = "running" /\ runs'[r].status \in Terminal
    /\ runs'[r].pid = runs[r].pid /\ runs'[r].resumes = runs[r].resumes

StartedAs(d, r) ==
    /\ Record(d) /\ r = job[d].cur
    /\ runs[r].status \in {"running", "pending"} /\ runs'[r].status = "running"
    /\ runs'[r].pid = job[d].launch
    /\ runs'[r].resumes = IF runs[r].status = "running" THEN runs[r].resumes + 1
                          ELSE runs[r].resumes

LEMMA LoopRuns ==
  ASSUME TypeInv, CopyInv, NEW d \in Daemons, LoopStep(d), NEW r \in Runs
  PROVE  Same(runs[r], runs'[r]) \/ EndsRun(d, r) \/ StartedAs(d, r)
<1> DEFINE j == job[d]
           s == j.snap[j.cur]
<1>0. /\ runs \in [Runs -> RunState]
      /\ j \in Jobs /\ \A q \in Runs : j.snap[q] \in RunState
      /\ j.at \in InHand => j.cur \in Runs
      /\ CopyOK(j, runs)
  BY DEF TypeInv, SupervisorStateTypes, JobInv, JobTypes, JobHasRun, Observers, Jobs,
         CopyInv
<1>1. CASE AdoptRun(d)
  <2>1. PICK q \in Runs : q \in j.todo
                       /\ runs' = [runs EXCEPT ![q] = [j.snap[q] EXCEPT !.owner = d]]
    BY <1>1 DEF AdoptRun, Least
  <2> DEFINE t == [j.snap[q] EXCEPT !.owner = d]
  <2>2. Same(j.snap[q], t) /\ Same(j.snap[q], runs[q])
    BY <1>0, <2>1 DEF Same, RunState, CopyOK
  <2>3. runs'[r] = IF r = q THEN t ELSE runs[r]
    BY <1>0, <2>1
  <2> HIDE DEF t
  <2>4. QED
    BY <2>2, <2>3 DEF Same
<1>2. CASE Apply(d)
  <2> DEFINE v == Verdict(s, j)
             t == Reconciled(s, j, v)
  <2>1. j.at = "apply" /\ j.cur \in Runs /\ Same(s, runs[j.cur])
        /\ runs[j.cur].status = "running"
    BY <1>0, <1>2 DEF Apply, CopyOK, InHand
  <2>2. runs' = runs \/ (v # "resume" /\ runs' = [runs EXCEPT ![j.cur] = t])
    BY <1>2 DEF Apply
  <2>3. v \in {"status", "keep", "healthy", "degraded", "journal", "resume", "lost"}
    BY DEF Verdict
  <2>4. /\ t.pid = s.pid /\ t.resumes = s.resumes
        /\ t.status = s.status \/ t.status \in Terminal
        /\ v \in {"keep", "healthy", "degraded"} => t.status = s.status
    BY <1>0, <2>1, ReconciledKeeps, VerdictJournal
  <2>5. CASE runs' = runs \/ r # j.cur
    <3> HIDE DEF t, v
    <3>1. runs'[r] = runs[r]
      BY <1>0, <2>2, <2>5
    <3>2. QED
      BY <3>1 DEF Same
  <2>6. CASE v # "resume" /\ runs' = [runs EXCEPT ![j.cur] = t] /\ r = j.cur
    <3>1. runs'[r] = t
      BY <1>0, <2>6
    <3> HIDE DEF t
    <3>2. CASE t.status = s.status
      BY <2>1, <2>4, <2>6, <3>1, <3>2 DEF Same
    <3>3. CASE t.status # s.status
      <4>1. v \in {"status", "journal", "lost"} /\ t.status \in Terminal
        BY <2>3, <2>4, <2>6, <3>3
      <4>2. EndsRun(d, r)
        BY <1>2, <2>1, <2>4, <2>6, <3>1, <4>1 DEF EndsRun, Same
      <4>3. QED
        BY <4>2
    <3>4. QED
      BY <3>2, <3>3
  <2>7. QED
    BY <2>2, <2>5, <2>6
<1>3. CASE Record(d)
  <2> DEFINE t == Started(d, s, j.launch)
  <2>1. j.at = "record" /\ j.cur \in Runs /\ runs' = [runs EXCEPT ![j.cur] = t]
    BY <1>0, <1>3 DEF Record, InHand
  <2>2. Same(s, runs[j.cur]) /\ runs[j.cur].status \in {"running", "pending"}
    BY <1>0, <2>1 DEF CopyOK, InHand
  <2>3. /\ t.pid = j.launch /\ t.status = "running"
        /\ t.resumes = IF s.status = "running" THEN s.resumes + 1 ELSE s.resumes
    BY <1>0, <2>1, <2>2, StartedKeeps DEF Same, Jobs
  <2>4. runs'[r] = IF r = j.cur THEN t ELSE runs[r]
    BY <1>0, <2>1
  <2> HIDE DEF t
  <2>5. CASE r = j.cur
    BY <1>3, <2>2, <2>3, <2>4, <2>5 DEF StartedAs, Same
  <2>6. CASE r # j.cur
    BY <2>4, <2>6 DEF Same
  <2>7. QED
    BY <2>5, <2>6
<1>4. CASE ~AdoptRun(d) /\ ~Apply(d) /\ ~Record(d)
  <2>1. UNCHANGED runs
    BY <1>4 DEF LoopStep, AdoptScan, AdoptDone, Heartbeat, Scan, Observe, ReadStatus,
       ReadAgents, ReadProgress, CheckPid, ReconcileDone, Pick, Spawn, SpawnFails,
       fileVars
  <2>2. QED
    BY <2>1 DEF Same
<1>5. QED
  BY <1>1, <1>2, <1>3, <1>4

-----------------------------------------------------------------------------
(* Launcher processes only grow older: none is undone, no wrapper comes up *)
(* again, and only a killed wrapper leaves its launcher behind.            *)
ProcessShape ==
    \A r \in Runs, l \in Launches :
        launches[r][l].node = "none" => launches[r][l].wrap # "up"

Alive3 == {"boot", "work", "final"}

Older(p, q) ==
    /\ q.node = "none" <=> p.node = "none"
    /\ q.wrap = "up" => p.wrap = "up"
    /\ q.node = "boot" => p.node = "boot"
    /\ "alone" \notin runMishaps' /\ (p.node \in Alive3 => p.wrap = "up")
         => (q.node \in Alive3 => q.wrap = "up")

AllAge == \A q \in Runs, k \in Launches : Older(launches[q][k], launches'[q][k])

LEMMA LaunchersAge ==
  ASSUME TypeInv, ProcessShape, NEW r \in Runs, NEW l \in Launches,
         LauncherStep(r, l) \/ Kill(r, l)
  PROVE  AllAge
<1> DEFINE p == launches[r][l]
<1>0. /\ launches \in [Runs -> [Launches -> Processes]] /\ p \in Processes
      /\ p.node = "none" => p.wrap # "up"
  BY DEF TypeInv, SupervisorStateTypes, ProcessShape
<1>1. ASSUME NEW n, Older(p, n), SetLaunch(r, l, n)
      PROVE  AllAge
  BY <1>0, <1>1 DEF SetLaunch, Older, AllAge
<1>2. CASE LauncherStarts(r, l)
  <2>1. Older(p, [p EXCEPT !.node = "work"])
    BY <1>0, <1>2 DEF LauncherStarts, Older, Processes, Alive3
  <2>2. QED
    BY <1>1, <1>2, <2>1 DEF LauncherStarts
<1>3. CASE LauncherRefused(r, l)
  <2>1. Older(p, [p EXCEPT !.node = "dead", !.code = "refused"])
    BY <1>0, <1>3 DEF LauncherRefused, Older, Processes, Alive3
  <2>2. QED
    BY <1>1, <1>3, <2>1 DEF LauncherRefused
<1>4. CASE LaunchAgents(r, l)
  BY <1>4 DEF LaunchAgents, Older, AllAge
<1>5. ASSUME NEW code \in {"ok", "err"}, Finalize(r, l, code)
      PROVE  AllAge
  <2> DEFINE n == [p EXCEPT !.node = "final", !.code = code, !.won = (code = "ok")]
  <2>1. p.node = "work" /\ SetLaunch(r, l, n)
    BY <1>5 DEF Finalize
  <2>2. n.node = "final" /\ n.wrap = p.wrap
    BY <1>0 DEF Processes
  <2> HIDE DEF n
  <2>3. Older(p, n)
    BY <2>1, <2>2 DEF Older, Alive3
  <2>4. QED
    BY <1>1, <2>1, <2>3
<1>6. CASE LauncherExits(r, l)
  <2>1. Older(p, [p EXCEPT !.node = "dead"])
    BY <1>0, <1>6 DEF LauncherExits, Older, Processes, Alive3
  <2>2. QED
    BY <1>1, <1>6, <2>1 DEF LauncherExits
<1>7. CASE WrapperReports(r, l)
  <2>1. Older(p, [p EXCEPT !.wrap = "down"])
    BY <1>0, <1>7 DEF WrapperReports, Older, Processes, Alive3
  <2>2. QED
    BY <1>1, <1>7, <2>1 DEF WrapperReports
<1>8. CASE Kill(r, l)
  <2>1. p.wrap = "up" /\ p.node # "none"
    BY <1>0, <1>8 DEF Kill, WrapperAlive
  <2>2. NodeGone(p) \in Processes /\ NodeGone(p).node = "dead"
    BY <1>0 DEF NodeGone, Processes
  <2>3. WrapperGone(p) \in Processes /\ WrapperGone(p).node = p.node
        /\ WrapperGone(p).wrap = "down"
    BY <1>0 DEF WrapperGone, Processes
  <2>4. WrapperGone(NodeGone(p)).node = "dead" /\ WrapperGone(NodeGone(p)).wrap = "down"
    BY <2>2 DEF WrapperGone, Processes
  <2>5. \/ SetLaunch(r, l, NodeGone(p))
        \/ SetLaunch(r, l, WrapperGone(NodeGone(p)))
        \/ /\ SetLaunch(r, l, WrapperGone(p))
           /\ p.node \in Alive3 => "alone" \in runMishaps'
    BY <1>8 DEF Kill, NodeAlive, Alive3
  <2>6. QED
    BY <1>1, <2>1, <2>2, <2>3, <2>4, <2>5 DEF Older, Alive3
<1>9. QED
  BY <1>2, <1>3, <1>4, <1>5, <1>6, <1>7, <1>8 DEF LauncherStep, LauncherAdvances

(* The process records of all launches over a step: a launch is added, or  *)
(* all of them grow older.                                                 *)
Spawned == [NoProcess EXCEPT !.node = "boot", !.wrap = "up"]

LEMMA SpawnedProcess ==
  Spawned \in Processes /\ Spawned.node = "boot" /\ Spawned.wrap = "up"
  /\ Spawned.code = "none"
BY DEF Spawned, NoProcess, Processes

LEMMA SpawnEffect ==
  ASSUME TypeInv, NEW d \in Daemons, Spawn(d)
  PROVE  \E l \in Launches :
            /\ l \notin Launched(job[d].cur)
            /\ job'[d].at = "record" /\ job'[d].cur = job[d].cur
            /\ job'[d].launch = l /\ l # 0
            /\ \A r \in Runs, k \in Launches :
                  launches'[r][k] = IF r = job[d].cur /\ k = l THEN Spawned
                                    ELSE launches[r][k]
<1> DEFINE r == job[d].cur
<1>1. r \in Runs
  BY DEF Spawn, InHand, TypeInv, JobInv, JobHasRun, Observers
<1>2. PICK l \in Launches :
          /\ l \notin Launched(r)
          /\ SetLaunch(r, l, Spawned)
          /\ SetJob(d, [job[d] EXCEPT !.launch = l, !.at = "record"])
  BY DEF Spawn, Least, Spawned
<1> HIDE DEF r
<1>3. \A q \in Runs, k \in Launches :
         launches'[q][k] = IF q = r /\ k = l THEN Spawned ELSE launches[q][k]
  BY <1>1, <1>2 DEF SetLaunch, TypeInv, SupervisorStateTypes
<1>4. job'[d].at = "record" /\ job'[d].cur = job[d].cur /\ job'[d].launch = l
  BY <1>2 DEF SetJob, TypeInv, JobInv, JobTypes, Jobs, Observers
<1>5. l # 0
  BY DEF Launches
<1>6. QED
  BY <1>2, <1>3, <1>4, <1>5 DEF r

LEMMA LaunchesAge ==
  ASSUME TypeInv, ProcessShape, [Next]_vars, \A d \in Daemons : ~Spawn(d)
  PROVE  AllAge
<1>1. UNCHANGED launches => AllAge
  BY DEF Older, AllAge
<1>2. ASSUME NEW d \in Daemons, LoopStep(d) \/ Acquire(d) \/ DaemonCrash(d)
      PROVE  UNCHANGED launches
  BY <1>2 DEF LoopStep, AdoptScan, AdoptRun, AdoptDone, Heartbeat, Scan, Observe,
     ReadStatus, ReadAgents, ReadProgress, CheckPid, Apply, ReconcileDone, Pick,
     Record, SpawnFails, Acquire, DaemonCrash, procVars
<1>3. ASSUME NEW r \in Runs, Submit(r) PROVE UNCHANGED launches
  BY <1>3 DEF Submit, procVars
<1>4. ASSUME NEW r \in Runs, NEW l \in Launches, LauncherStep(r, l) \/ Kill(r, l)
      PROVE  AllAge
  BY <1>4, LaunchersAge
<1>5. ASSUME NEW o \in Readers, ReaderApply(o) PROVE UNCHANGED launches
  BY <1>5 DEF ReaderApply, procVars
<1>6. QED
  BY <1>1, <1>2, <1>3, <1>4, <1>5, StepCases

LEMMA ProcessShapeStep ==
  ASSUME TypeInv, ProcessShape, [Next]_vars
  PROVE  ProcessShape'
<1>1. CASE \A d \in Daemons : ~Spawn(d)
  BY <1>1, LaunchesAge DEF ProcessShape, Older, AllAge
<1>2. ASSUME NEW d \in Daemons, Spawn(d) PROVE ProcessShape'
  <2>1. PICK l \in Launches : \A r \in Runs, k \in Launches :
            launches'[r][k] = IF r = job[d].cur /\ k = l THEN Spawned
                              ELSE launches[r][k]
    BY <1>2, SpawnEffect
  <2>2. QED
    BY <2>1, SpawnedProcess DEF ProcessShape
<1>3. QED
  BY <1>1, <1>2
-----------------------------------------------------------------------------
(* The count of launches.  A launch is paid for by the start it is         *)
(* recorded as, by a daemon that died before recording it, or is about to  *)
(* be recorded.                                                            *)
Recording(r) == \E d \in Daemons : job[d].at = "record" /\ job[d].cur = r
                                   /\ job[d].launch # 0

Starts(s) == IF s.status \in {"none", "pending"} THEN 0 ELSE 1 + s.resumes

StateShape ==
    \A r \in Runs :
        /\ runs[r].status \in {"none", "pending"}
             => runs[r].pid = 0 /\ runs[r].resumes = 0
        /\ runs[r].resumes <= ResumeLimit

ResumesLeft ==
    \A d \in Daemons : job[d].at \in {"spawn", "record"}
        => (runs[job[d].cur].status = "running" => runs[job[d].cur].resumes < ResumeLimit)

LaunchesPaid ==
    \A r \in Runs :
        \/ Cardinality(Launched(r)) <= Starts(runs[r]) + orphans[r]
        \/ Recording(r) /\ Cardinality(Launched(r)) <= Starts(runs[r]) + orphans[r] + 1

BudgetInv == ProcessShape /\ StateShape /\ ResumesLeft /\ LaunchesPaid

LEMMA StartsTyped ==
  ASSUME TypeInv, NEW r \in Runs
  PROVE  /\ runs[r].resumes \in Nat /\ Starts(runs[r]) \in Nat /\ orphans[r] \in Nat
         /\ runs[r].pid \in 0 .. MaxLaunches
<1>1. runs[r] \in RunState /\ orphans[r] \in Nat
  BY DEF TypeInv, SupervisorStateTypes
<1>2. runs[r].resumes \in Nat /\ runs[r].pid \in 0 .. MaxLaunches
  BY <1>1 DEF RunState
<1>3. QED
  BY <1>1, <1>2 DEF Starts

LEMMA LaunchedFinite ==
  ASSUME NEW r
  PROVE  IsFiniteSet(Launched(r)) /\ Cardinality(Launched(r)) \in Nat
<1>1. Launched(r) \subseteq 1 .. MaxLaunches
  BY DEF Launched, Launches
<1>2. IsFiniteSet(1 .. MaxLaunches)
  BY SupervisorAssumption, FS_Interval
<1>3. QED
  BY <1>1, <1>2, FS_Subset, FS_CardinalityType

LEMMA LaunchedStays ==
  ASSUME AllAge
  PROVE  \A r \in Runs : Launched(r)' = Launched(r)
BY DEF AllAge, Older, Launched

(* The states a step leaves keep their shape, and a resumption in hand is  *)
(* one the limit allows.                                                   *)
LEMMA ShapeStep ==
  ASSUME Unmixed', BaseInv, StateShape, ResumesLeft, [Next]_vars
  PROVE  StateShape' /\ ResumesLeft'
<1>0. /\ TypeInv /\ CopyInv /\ OneWorker
      /\ \A d \in Daemons : job[d].at \in InHand => job[d].cur \in Runs
  BY DEF BaseInv, TypeInv, JobInv, JobHasRun, Observers
<1>1. ASSUME NEW d \in Daemons, LoopStep(d) PROVE StateShape'
  <2> SUFFICES ASSUME NEW r \in Runs
               PROVE  /\ runs'[r].status \in {"none", "pending"}
                           => runs'[r].pid = 0 /\ runs'[r].resumes = 0
                      /\ runs'[r].resumes <= ResumeLimit
    BY DEF StateShape
  <2>1. CASE Same(runs[r], runs'[r])
    BY <2>1 DEF Same, StateShape
  <2>2. CASE EndsRun(d, r)
    BY <2>2 DEF EndsRun, StateShape, Terminal
  <2>3. CASE StartedAs(d, r)
    <3>1. /\ r = job[d].cur /\ job[d].at = "record"
          /\ runs'[r].status = "running"
          /\ runs'[r].resumes = IF runs[r].status = "running" THEN runs[r].resumes + 1
                                ELSE runs[r].resumes
      BY <2>3 DEF StartedAs, Record
    <3>2. runs[r].status = "running" => runs[r].resumes < ResumeLimit
      BY <3>1 DEF ResumesLeft
    <3>3. runs[r].resumes <= ResumeLimit /\ runs[r].resumes \in Nat
      BY <1>0, StartsTyped DEF StateShape
    <3>4. runs'[r].resumes <= ResumeLimit
      BY <3>1, <3>2, <3>3, SupervisorAssumption
    <3>5. QED
      BY <3>1, <3>4
  <2>4. QED
    BY <1>0, <1>1, <2>1, <2>2, <2>3, LoopRuns
<1>2. ASSUME NEW d \in Daemons, LoopStep(d) PROVE ResumesLeft'
  <2> DEFINE j == job[d]
  <2>1. ASSUME NEW e \in Daemons, e # d PROVE job'[e].at = "idle"
    BY <1>0, <1>2, <2>1, OthersIdle
  <2>2. CASE job'[d].at \in {"spawn", "record"} /\ UNCHANGED runs
             /\ (runs[job'[d].cur].status = "running"
                   => runs[job'[d].cur].resumes < ResumeLimit)
    BY <2>1, <2>2 DEF ResumesLeft
  <2>3. CASE job'[d].at \notin {"spawn", "record"}
    BY <2>1, <2>3 DEF ResumesLeft
  <2>4. \A x : SetJob(d, x) => job'[d] = x
    BY <1>0 DEF SetJob, TypeInv, JobInv, JobTypes, Observers
  <2>5. j \in Jobs /\ NextEntry(j).at \notin InHand
    BY <1>0, NextEntryTyped DEF TypeInv, JobInv, JobTypes, Observers
  <2>6. CASE Apply(d) /\ Verdict(j.snap[j.cur], j) = "resume"
    <3>1. /\ UNCHANGED runs /\ j.at = "apply" /\ job'[d] = [j EXCEPT !.at = "spawn"]
      BY <2>4, <2>6 DEF Apply
    <3>2. job'[d].at = "spawn" /\ job'[d].cur = j.cur
      BY <2>5, <3>1 DEF Jobs
    <3>3. j.snap[j.cur].resumes < ResumeLimit
      BY <2>6 DEF Verdict
    <3>4. Same(j.snap[j.cur], runs[j.cur])
      BY <1>0, <3>1 DEF CopyInv, CopyOK, InHand
    <3>5. QED
      BY <2>2, <3>1, <3>2, <3>3, <3>4 DEF Same
  <2>7. CASE Apply(d) /\ Verdict(j.snap[j.cur], j) # "resume"
    <3>1. job'[d] = NextEntry(j)
      BY <2>4, <2>7 DEF Apply
    <3>2. QED
      BY <2>3, <2>5, <3>1 DEF InHand
  <2>8. CASE Pick(d)
    <3>1. CASE Claim(d)
      <4>1. PICK q \in Runs : q \in Claimable /\ job'[d] =
               [NoJob EXCEPT !.at = "spawn", !.cur = q, !.snap = Snapshot({q})]
        BY <2>4, <3>1 DEF Claim, Least
      <4>2. job'[d].at = "spawn" /\ job'[d].cur = q
        BY <4>1 DEF NoJob
      <4>3. UNCHANGED runs /\ runs[q].status = "pending"
        BY <2>8, <4>1 DEF Pick, fileVars, Claimable, RunsWith
      <4>4. QED
        BY <2>2, <4>2, <4>3
    <3>2. CASE Leave(d) \/ Sleep(d)
      <4>1. job'[d].at \in {"idle", "beat"}
        BY <2>4, <3>2 DEF Leave, Sleep, NoJob
      <4>2. QED
        BY <2>3, <4>1
    <3>3. QED
      BY <2>8, <3>1, <3>2 DEF Pick
  <2>9. CASE Spawn(d) \/ SpawnFails(d)
    <3>1. PICK l : job'[d] = [j EXCEPT !.launch = l, !.at = "record"]
      BY <2>4, <2>9 DEF Spawn, SpawnFails
    <3>2. job'[d].at = "record" /\ job'[d].cur = j.cur
      BY <2>5, <3>1 DEF Jobs
    <3>3. UNCHANGED runs /\ j.at = "spawn"
      BY <2>9 DEF Spawn, SpawnFails
    <3>4. QED
      BY <2>2, <3>2, <3>3 DEF ResumesLeft
  <2>10. CASE Record(d)
    <3>1. \/ job'[d] = NoJob \/ job'[d] = NextEntry(j)
          \/ job'[d] = [NoJob EXCEPT !.at = "beat"]
      BY <2>4, <2>10 DEF Record
    <3>2. QED
      BY <2>3, <2>5, <3>1 DEF NoJob, InHand
  <2>11. CASE Observe(d)
    <3>1. job'[d].at \in {"agents", "apply", "progress", "pid"}
      <4>1. CASE ReadStatus(d)
        BY <2>4, <2>5, <4>1 DEF ReadStatus, Jobs
      <4>2. CASE ReadAgents(d) \/ ReadProgress(d)
        BY <2>4, <2>5, <4>2 DEF ReadAgents, ReadProgress, Jobs
      <4>3. CASE CheckPid(d)
        <5>1. PICK up : job'[d] = [j EXCEPT !.up = up, !.at = "apply"]
          BY <2>4, <4>3 DEF CheckPid
        <5>2. QED
          BY <2>5, <5>1 DEF Jobs
      <4>4. QED
        BY <2>11, <4>1, <4>2, <4>3 DEF Observe
    <3>2. QED
      BY <2>3, <3>1
  <2>12. CASE AdoptScan(d) \/ AdoptDone(d) \/ Heartbeat(d) \/ Scan(d)
              \/ ReconcileDone(d) \/ AdoptRun(d)
    <3>1. j.at \in {"start", "adopt", "beat", "scan", "reconcile"}
      BY <2>12 DEF AdoptScan, AdoptDone, Heartbeat, Scan, ReconcileDone, AdoptRun
    <3>2. \/ UNCHANGED job
          \/ job'[d].at \in {"adopt", "reconcile", "beat", "scan", "pick"}
      <4>1. CASE AdoptScan(d) \/ Scan(d)
        <5>1. \E at \in {"adopt", "reconcile"}, adopting \in BOOLEAN :
                 ReadStates(d, at, adopting)
          BY <4>1 DEF AdoptScan, Scan
        <5>2. job'[d].at \in {"adopt", "reconcile"}
          BY <2>4, <5>1 DEF ReadStates, NoJob
        <5>3. QED
          BY <5>2
      <4>2. CASE AdoptDone(d) \/ Heartbeat(d) \/ ReconcileDone(d)
        BY <2>4, <4>2 DEF AdoptDone, Heartbeat, ReconcileDone, NoJob
      <4>3. CASE AdoptRun(d)
        <5>1. job'[d] = [j EXCEPT !.at = "reconcile"]
          BY <2>4, <4>3 DEF AdoptRun
        <5>2. QED
          BY <2>5, <5>1 DEF Jobs
      <4>4. QED
        BY <2>12, <4>1, <4>2, <4>3
    <3>3. QED
      BY <2>3, <3>1, <3>2
  <2>13. QED
    BY <1>2, <2>6, <2>7, <2>8, <2>9, <2>10, <2>11, <2>12 DEF LoopStep
<1>3. ASSUME NEW d \in Daemons, Acquire(d) \/ DaemonCrash(d)
      PROVE  StateShape' /\ ResumesLeft'
  <2>1. UNCHANGED runs
    BY <1>3 DEF Acquire, DaemonCrash, fileVars
  <2>2. \/ UNCHANGED job
        \/ SetJob(d, NoJob) \/ SetJob(d, [NoJob EXCEPT !.at = "start"])
    BY <1>3 DEF Acquire, DaemonCrash
  <2>3. \A e \in Daemons : job'[e] = job[e] \/ job'[e].at \in {"idle", "start"}
    BY <1>0, <2>2 DEF SetJob, TypeInv, JobInv, JobTypes, Observers, NoJob
  <2>4. QED
    BY <2>1, <2>3 DEF StateShape, ResumesLeft
<1>4. ASSUME NEW r \in Runs, Submit(r) PROVE StateShape' /\ ResumesLeft'
  <2>1. /\ UNCHANGED job /\ runs[r].status = "none"
        /\ \A q \in Runs : q # r => runs'[q] = runs[q]
        /\ runs'[r].status = "pending"
        /\ runs'[r].pid = runs[r].pid /\ runs'[r].resumes = runs[r].resumes
    BY <1>0, <1>4 DEF Submit, TypeInv, SupervisorStateTypes, RunState
  <2>2. StateShape'
    BY <2>1 DEF StateShape
  <2>3. ResumesLeft'
    BY <1>0, <2>1 DEF ResumesLeft, InHand
  <2>4. QED
    BY <2>2, <2>3
<1>5. ASSUME UNCHANGED runs, DaemonJobsStay PROVE StateShape' /\ ResumesLeft'
  BY <1>5 DEF StateShape, ResumesLeft, DaemonJobsStay
<1>6. ASSUME NEW o \in Readers, ReaderApply(o) PROVE StateShape' /\ ResumesLeft'
  <2>1. DaemonJobsStay
    BY <1>0, <1>6, ReaderJobs DEF ReaderStep
  <2>2. PICK r \in Runs : ReaderWrites(r)
    BY <1>0, <1>6, ReaderApplies
  <2>3. StateShape'
    BY <2>2 DEF ReaderWrites, EndedByReader, StateShape, Same, Terminal
  <2>4. ASSUME NEW q \in Runs, runs'[q].status = "running"
        PROVE  runs[q].status = "running" /\ runs'[q].resumes = runs[q].resumes
    BY <2>2, <2>4 DEF ReaderWrites, EndedByReader, Same, Terminal
  <2>5. ResumesLeft'
    BY <1>0, <2>1, <2>4 DEF ResumesLeft, DaemonJobsStay, InHand
  <2>6. QED
    BY <2>3, <2>5
<1>7. QED
  BY <1>0, <1>1, <1>2, <1>3, <1>4, <1>5, <1>6, StepCases

LEMMA PaidStep ==
  ASSUME Unmixed', BaseInv, BudgetInv, [Next]_vars
  PROVE  LaunchesPaid'
<1>0. /\ TypeInv /\ CopyInv /\ OneWorker /\ LaunchesPaid /\ ProcessShape /\ StateShape
      /\ \A d \in Daemons : job[d] \in Jobs
      /\ \A d \in Daemons : job[d].at \in InHand => job[d].cur \in Runs
      /\ \A d \in Daemons : \A x : SetJob(d, x) => job'[d] = x
  BY DEF BaseInv, BudgetInv, TypeInv, JobInv, JobTypes, JobHasRun, Observers, SetJob
<1>1. CASE \A d \in Daemons : ~Spawn(d)
  <2> SUFFICES ASSUME NEW r \in Runs
               PROVE  \/ Cardinality(Launched(r)') <= Starts(runs'[r]) + orphans'[r]
                      \/ /\ Recording(r)'
                         /\ Cardinality(Launched(r)') <= Starts(runs'[r]) + orphans'[r] + 1
    BY DEF LaunchesPaid
  <2>1. Launched(r)' = Launched(r) /\ Cardinality(Launched(r)) \in Nat
    BY <1>0, <1>1, LaunchesAge, LaunchedStays, LaunchedFinite
  <2>2. Starts(runs[r]) \in Nat /\ orphans[r] \in Nat /\ runs[r].resumes \in Nat
    BY <1>0, StartsTyped
  <2>3. ASSUME NEW d \in Daemons, LoopStep(d), ~Record(d)
        PROVE  /\ Cardinality(Launched(r)) <= Starts(runs[r]) + orphans[r]
               /\ Starts(runs'[r]) = Starts(runs[r])
    <3>1. job[d].at # "record"
      BY <1>1, <2>3 DEF LoopStep, AdoptScan, AdoptRun, AdoptDone, Heartbeat, Scan,
         Observe, ReadStatus, ReadAgents, ReadProgress, CheckPid, Apply,
         ReconcileDone, Pick, SpawnFails
    <3>2. ~Recording(r)
      BY <1>0, <2>3, <3>1, OthersIdle DEF Recording
    <3>3. Same(runs[r], runs'[r]) \/ EndsRun(d, r)
      BY <1>0, <2>3, LoopRuns DEF StartedAs
    <3>4. Starts(runs'[r]) = Starts(runs[r])
      BY <3>3 DEF Same, EndsRun, Starts, Terminal
    <3>5. QED
      BY <1>0, <3>2, <3>4 DEF LaunchesPaid
  <2>4. ASSUME NEW d \in Daemons, LoopStep(d), ~Record(d)
        PROVE  Cardinality(Launched(r)') <= Starts(runs'[r]) + orphans'[r]
    <3>1. UNCHANGED orphans
      BY <1>1, <2>4 DEF history, LoopStep, AdoptScan, AdoptRun, AdoptDone, Heartbeat, Scan,
         Observe, ReadStatus, ReadAgents, ReadProgress, CheckPid, Apply,
         ReconcileDone, Pick, SpawnFails
    <3>2. QED
      BY <2>1, <2>3, <2>4, <3>1
  <2>5. ASSUME NEW d \in Daemons, Record(d)
        PROVE  Cardinality(Launched(r)') <= Starts(runs'[r]) + orphans'[r]
    <3>1. UNCHANGED orphans /\ LoopStep(d)
      BY <2>5 DEF Record, LoopStep, history
    <3>2. CASE r = job[d].cur
      <4>1. StartedAs(d, r) \/ Same(runs[r], runs'[r])
        BY <1>0, <2>5, <3>1, LoopRuns DEF EndsRun, Apply, Record
      <4>2. Cardinality(Launched(r)) <= Starts(runs[r]) + orphans[r] + 1
        BY <1>0, <2>1, <2>2 DEF LaunchesPaid
      <4>3. runs'[r] = Started(d, job[d].snap[r], job[d].launch)
        BY <1>0, <2>5, <3>2 DEF Record, TypeInv, SupervisorStateTypes
      <4>4. /\ job[d].snap[r] \in RunState /\ job[d].launch \in 0 .. MaxLaunches
            /\ Same(job[d].snap[r], runs[r])
            /\ runs[r].status \in {"running", "pending"}
        BY <1>0, <2>5, <3>2 DEF Jobs, Record, InHand, CopyInv, CopyOK
      <4>5. /\ runs'[r].status = "running"
            /\ runs'[r].resumes = IF runs[r].status = "running"
                                  THEN runs[r].resumes + 1 ELSE runs[r].resumes
        BY <4>3, <4>4, StartedKeeps DEF Same
      <4>6. runs[r].status = "pending" => runs[r].resumes = 0
        BY <1>0 DEF StateShape
      <4>7. Starts(runs'[r]) = Starts(runs[r]) + 1
        BY <2>2, <4>4, <4>5, <4>6 DEF Starts
      <4>8. QED
        BY <2>1, <2>2, <3>1, <4>2, <4>7
    <3>3. CASE r # job[d].cur
      <4>1. ~Recording(r)
        BY <1>0, <3>1, <3>3, OthersIdle DEF Recording
      <4>2. Same(runs[r], runs'[r])
        BY <1>0, <3>1, <3>3, LoopRuns DEF EndsRun, StartedAs
      <4>3. Starts(runs'[r]) = Starts(runs[r])
        BY <4>2 DEF Same, Starts
      <4>4. QED
        BY <1>0, <2>1, <3>1, <4>1, <4>3 DEF LaunchesPaid
    <3>4. QED
      BY <3>2, <3>3
  <2>6. ASSUME NEW d \in Daemons, Acquire(d)
        PROVE  UNCHANGED <<runs, orphans>> /\ (Recording(r) => Recording(r)')
    <3>1. UNCHANGED <<runs, orphans>>
      BY <2>6 DEF Acquire, history
    <3>2. pc[d] \notin Holding
      BY <2>6 DEF Acquire, Open, Inspect, Remove, WriteLock, Holding
    <3>3. job[d].at = "idle"
      BY <3>2 DEF BaseInv, WorkersHold, Working
    <3>4. \A e \in Daemons : e # d => job'[e] = job[e]
      BY <1>0, <2>6 DEF Acquire, SetJob, TypeInv, JobInv, JobTypes, Observers
    <3>5. QED
      BY <3>1, <3>3, <3>4 DEF Recording
  <2>7. ASSUME NEW d \in Daemons, DaemonCrash(d)
        PROVE  \/ Cardinality(Launched(r)') <= Starts(runs'[r]) + orphans'[r]
               \/ /\ Recording(r)'
                  /\ Cardinality(Launched(r)') <= Starts(runs'[r]) + orphans'[r] + 1
    <3> DEFINE lost == job[d].at = "record" /\ job[d].launch # 0
    <3>1. /\ UNCHANGED runs
          /\ orphans' = IF lost THEN [orphans EXCEPT ![job[d].cur] = @ + 1] ELSE orphans
      BY <2>7 DEF DaemonCrash, fileVars
    <3>2. \A e \in Daemons : e # d => job'[e] = job[e]
      BY <1>0, <2>7 DEF DaemonCrash, SetJob, TypeInv, JobInv, JobTypes, Observers
    <3>3. CASE lost /\ r = job[d].cur
      <4>1. orphans'[r] = orphans[r] + 1
        BY <1>0, <3>1, <3>3 DEF TypeInv, SupervisorStateTypes
      <4>2. QED
        BY <1>0, <2>1, <2>2, <3>1, <4>1 DEF LaunchesPaid
    <3>4. CASE ~(lost /\ r = job[d].cur)
      <4>1. orphans'[r] = orphans[r]
        BY <1>0, <3>1, <3>4 DEF TypeInv, SupervisorStateTypes
      <4>2. Recording(r) => Recording(r)'
        BY <3>2, <3>4 DEF Recording
      <4>3. QED
        BY <1>0, <2>1, <3>1, <4>1, <4>2 DEF LaunchesPaid
    <3>5. QED
      BY <3>3, <3>4
  <2>8. ASSUME NEW q \in Runs, Submit(q)
        PROVE  /\ orphans' = orphans /\ (Recording(r) => Recording(r)')
               /\ Starts(runs'[r]) = Starts(runs[r])
    <3>1. /\ UNCHANGED <<orphans, job>> /\ runs[q].status = "none"
          /\ runs'[q].status = "pending"
          /\ q # r => runs'[r] = runs[r]
      BY <1>0, <2>8 DEF Submit, history, TypeInv, SupervisorStateTypes, RunState
    <3>2. QED
      BY <3>1 DEF Starts, Recording
  <2>9. ASSUME UNCHANGED <<runs, orphans>>, DaemonJobsStay
        PROVE  Starts(runs'[r]) = Starts(runs[r]) /\ (Recording(r) => Recording(r)')
    BY <2>9 DEF Recording, DaemonJobsStay
  <2>10. ASSUME NEW o \in Readers, ReaderApply(o)
         PROVE  \/ Cardinality(Launched(r)') <= Starts(runs'[r]) + orphans'[r]
                \/ /\ Recording(r)'
                   /\ Cardinality(Launched(r)') <= Starts(runs'[r]) + orphans'[r] + 1
    <3>1. UNCHANGED orphans /\ (Recording(r) => Recording(r)')
      BY <1>0, <2>10, ReaderJobs DEF ReaderStep, DaemonJobsStay, Recording
    <3>2. PICK q \in Runs : ReaderWrites(q)
      BY <1>0, <2>10, ReaderApplies
    <3>3. Same(runs[r], runs'[r]) \/ EndedByReader(r)
      BY <3>2 DEF ReaderWrites, Same
    <3>4. Starts(runs'[r]) \in Nat /\ Starts(runs[r]) <= Starts(runs'[r])
      BY <2>2, <3>3 DEF Same, EndedByReader, Starts, Terminal
    <3>5. QED
      BY <1>0, <2>1, <2>2, <3>1, <3>4 DEF LaunchesPaid
  <2>11. QED
    BY <1>0, <2>1, <2>4, <2>5, <2>6, <2>7, <2>8, <2>9, <2>10, StepCases DEF LaunchesPaid
<1>2. ASSUME NEW d \in Daemons, Spawn(d) PROVE LaunchesPaid'
  <2>0. PICK r \in Runs : r = job[d].cur
    BY <1>0, <1>2 DEF Spawn, InHand
  <2>1. PICK l \in Launches :
            /\ l \notin Launched(r)
            /\ job'[d].at = "record" /\ job'[d].cur = r
            /\ job'[d].launch = l /\ l # 0
            /\ \A q \in Runs, k \in Launches :
                  launches'[q][k] = IF q = r /\ k = l THEN Spawned ELSE launches[q][k]
    BY <1>0, <1>2, <2>0, SpawnEffect
  <2>2. UNCHANGED <<runs, orphans>> /\ LoopStep(d) /\ job[d].at = "spawn"
    BY <1>2 DEF Spawn, LoopStep, history
  <2>3. \A q \in Runs : ~Recording(q)
    BY <1>0, <2>2, OthersIdle DEF Recording
  <2>4. Recording(r)'
    BY <2>1 DEF Recording
  <2>5. Launched(r)' = Launched(r) \cup {l}
    <3>1. \A k \in Launches :
             launches'[r][k].node # "none" <=> launches[r][k].node # "none" \/ k = l
      BY <2>1, SpawnedProcess
    <3>2. QED
      BY <3>1 DEF Launched
  <2>6. Cardinality(Launched(r)') = Cardinality(Launched(r)) + 1
    BY <2>1, <2>5, LaunchedFinite, FS_AddElement
  <2>7. \A q \in Runs : q # r => Launched(q)' = Launched(q)
    BY <2>1 DEF Launched
  <2>8. ASSUME NEW q \in Runs
        PROVE  /\ Cardinality(Launched(q)) <= Starts(runs[q]) + orphans[q]
               /\ Cardinality(Launched(q)) \in Nat
               /\ Starts(runs[q]) \in Nat /\ orphans[q] \in Nat
    BY <1>0, <2>3, LaunchedFinite, StartsTyped DEF LaunchesPaid
  <2>9. QED
    BY <2>2, <2>4, <2>6, <2>7, <2>8 DEF LaunchesPaid
<1>3. QED
  BY <1>1, <1>2

LEMMA BudgetHolds == Spec => [](Unmixed => BudgetInv)
<1>1. Init => BudgetInv
  <2> SUFFICES ASSUME Init PROVE BudgetInv
    OBVIOUS
  <2>1. ProcessShape /\ StateShape /\ ResumesLeft
    BY SupervisorAssumption DEF Init, ProcessShape, StateShape, ResumesLeft, NoProcess,
                                NoRun, NoJob, Observers
  <2>2. \A r \in Runs : Launched(r) = {}
    BY DEF Init, Launched, NoProcess
  <2>3. \A r \in Runs : Starts(runs[r]) = 0 /\ orphans[r] = 0
    BY DEF Init, Starts, NoRun
  <2>4. LaunchesPaid
    BY <2>2, <2>3, FS_EmptySet DEF LaunchesPaid
  <2>5. QED
    BY <2>1, <2>4 DEF BudgetInv
<1>2. BaseInv /\ BudgetInv /\ [Next]_vars /\ Unmixed' => BudgetInv'
  BY ShapeStep, PaidStep, ProcessShapeStep DEF BudgetInv, BaseInv
<1>3. (Unmixed => BaseInv) /\ (Unmixed => BudgetInv) /\ [Next]_vars
        /\ [Unmixed' => Unmixed]_vars => (Unmixed => BudgetInv)'
  <2>1. [Unmixed' => Unmixed]_vars /\ Unmixed' => Unmixed
    BY DEF Unmixed, vars, supVars, lockVars, history
  <2>2. QED
    BY <1>2, <2>1
<1>4. QED
  BY <1>1, <1>3, BaseHolds, UnmixedBefore, PTL DEF Spec

(* A lost launcher is replaced ResumeLimit times at most, whatever kills   *)
(* launchers, wrappers and daemons, and whatever readers report, until one *)
(* has written over the count: beyond that and the first launch there are  *)
(* only those a daemon died before recording.                              *)
THEOREM ResumesAreBounded == Spec => []ResumeBudget
<1>1. (Unmixed => BaseInv) /\ (Unmixed => BudgetInv) => ResumeBudget
  <2> SUFFICES ASSUME BaseInv, BudgetInv, NEW r \in Runs
               PROVE  Cardinality(Launched(r)) <= 1 + ResumeLimit + orphans[r]
    BY DEF ResumeBudget
  <2>1. /\ Cardinality(Launched(r)) \in Nat /\ orphans[r] \in Nat
        /\ Starts(runs[r]) \in Nat /\ runs[r].resumes \in Nat /\ ResumeLimit \in Nat
    BY LaunchedFinite, StartsTyped, SupervisorAssumption DEF BaseInv
  <2>2. runs[r].resumes <= ResumeLimit
    BY DEF BudgetInv, StateShape
  <2>3. CASE Cardinality(Launched(r)) <= Starts(runs[r]) + orphans[r]
    BY <2>1, <2>2, <2>3 DEF Starts
  <2>4. CASE Recording(r) /\ Cardinality(Launched(r)) <= Starts(runs[r]) + orphans[r] + 1
    <3>1. PICK d \in Daemons : job[d].at = "record" /\ job[d].cur = r
      BY <2>4 DEF Recording
    <3>2. runs[r].status \in {"running", "pending"}
      BY <3>1 DEF BaseInv, CopyInv, CopyOK, InHand
    <3>3. runs[r].status = "running" => runs[r].resumes < ResumeLimit
      BY <3>1 DEF BudgetInv, ResumesLeft
    <3>4. QED
      BY <2>1, <2>4, <3>2, <3>3 DEF Starts
  <2>5. QED
    BY <2>3, <2>4 DEF BudgetInv, LaunchesPaid
<1>2. QED
  BY <1>1, BaseHolds, BudgetHolds, PTL
-----------------------------------------------------------------------------
(* Which wrappers may be up, for a run whose launches are all recorded:    *)
(* the one in its state, or the one about to be recorded; none when the    *)
(* run is over (unless a reader said so early), when a status file lies    *)
(* there, or when a daemon has evidence of that in hand.                   *)
Up(r, l) == launches[r][l].wrap = "up"

Calm(r) == \A l \in Launches : ~Up(r, l)

InFlight(r, l) ==
    \E d \in Daemons : job[d].at = "record" /\ job[d].cur = r /\ job[d].launch = l

UpIsKnown(r) == \A l \in Launches : Up(r, l) => l = runs[r].pid \/ InFlight(r, l)

OverIsCalm(r) ==
    /\ statusFile[r] # "none" => Calm(r)
    /\ runs[r].status \in Terminal /\ "early" \notin runMishaps => Calm(r)

ShowsCalm(j) ==
    \/ j.at \in {"agents", "progress", "pid", "apply"} /\ j.status # "none"
    \/ j.at = "apply" /\ ~j.up
    \/ j.at = "spawn"

JobIsRight(j, r) ==
    /\ ShowsCalm(j) => Calm(r)
    /\ j.at = "record" => \A l \in Launches : Up(r, l) => l = j.launch

UpOK(r) ==
    /\ UpIsKnown(r)
    /\ OverIsCalm(r)
    /\ \A d \in Daemons : job[d].cur = r => JobIsRight(job[d], r)

UpInv == \A r \in Runs : orphans[r] = 0 => UpOK(r)

LEMMA UpsAreEqual ==
  ASSUME OneWorker, NEW r \in Runs, UpOK(r),
         NEW k \in Launches, NEW l \in Launches, Up(r, k), Up(r, l)
  PROVE  k = l
BY DEF UpOK, UpIsKnown, InFlight, JobIsRight, OneWorker, Working

(* Processes that grow older keep what is known of them.                   *)
LEMMA AgeKeepsUp ==
  ASSUME AllAge, UNCHANGED runs, DaemonJobsStay, NEW r \in Runs, UpOK(r), OverIsCalm(r)'
  PROVE  UpOK(r)'
<1>1. \A l \in Launches : Up(r, l)' => Up(r, l)
  BY DEF AllAge, Older, Up
<1>2. \A l \in Launches : InFlight(r, l)' <=> InFlight(r, l)
  BY DEF InFlight, DaemonJobsStay
<1>3. UpIsKnown(r)'
  BY <1>1, <1>2 DEF UpOK, UpIsKnown
<1>4. \A d \in Daemons : job'[d].cur = r => JobIsRight(job[d], r)'
  BY <1>1 DEF UpOK, JobIsRight, ShowsCalm, Calm, DaemonJobsStay
<1>5. QED
  BY <1>3, <1>4 DEF UpOK, JobIsRight

LEMMA LaunchersUp ==
  ASSUME BaseInv, ProcessShape, UpInv, UNCHANGED <<runs, orphans>>, DaemonJobsStay,
         runMishaps \subseteq runMishaps',
         NEW q \in Runs, NEW l \in Launches, LauncherStep(q, l) \/ Kill(q, l)
  PROVE  UpInv'
<1>0. AllAge /\ TypeInv /\ OneWorker
  BY LaunchersAge DEF BaseInv
<1> SUFFICES ASSUME NEW r \in Runs, orphans'[r] = 0 PROVE UpOK(r)'
  BY DEF UpInv
<1>1. UpOK(r)
  BY DEF UpInv
<1>2. Calm(r) => Calm(r)'
  BY <1>0 DEF AllAge, Older, Calm, Up
<1>3. CASE statusFile'[r] = statusFile[r]
  BY <1>0, <1>1, <1>2, <1>3, AgeKeepsUp DEF UpOK, OverIsCalm
<1>4. CASE statusFile'[r] # statusFile[r]
  <2>1. WrapperReports(q, l) /\ q = r
    BY <1>0, <1>4 DEF LauncherStep, LauncherAdvances, Kill, LauncherStarts, LauncherRefused, LaunchAgents,
       Finalize, LauncherExits, WrapperReports, fileVars, TypeInv, SupervisorStateTypes
  <2>2. Up(r, l) /\ ~Up(r, l)'
    BY <1>0, <2>1 DEF WrapperReports, SetLaunch, Up, TypeInv, SupervisorStateTypes,
                      Processes
  <2>3. Calm(r)'
    BY <1>0, <1>1, <2>2, UpsAreEqual DEF AllAge, Older, Calm, Up
  <2>4. QED
    BY <1>0, <1>1, <2>3, AgeKeepsUp DEF OverIsCalm
<1>5. QED
  BY <1>3, <1>4

(* What a daemon knows of the run in hand after a step of its loop that    *)
(* starts nothing.                                                         *)
LEMMA LoopJobIsRight ==
  ASSUME BaseInv, StateShape, UpInv, NEW d \in Daemons, LoopStep(d), ~Spawn(d),
         UNCHANGED launches, NEW r \in Runs, orphans[r] = 0, job'[d].cur = r
  PROVE  JobIsRight(job'[d], r)
<1> DEFINE j == job[d]
<1>0. /\ TypeInv /\ CopyInv /\ OneWorker /\ UpOK(r)
      /\ j \in Jobs
      /\ \A x : SetJob(d, x) => job'[d] = x
      /\ j.cur = r => JobIsRight(j, r)
  BY DEF BaseInv, TypeInv, JobInv, JobTypes, Observers, SetJob, UpInv, UpOK
<1>a. j.at # "record" => \A l \in Launches : ~InFlight(r, l)
  BY <1>0, OthersIdle DEF InFlight
<1>1. CASE job'[d].at \notin InHand
  BY <1>1 DEF JobIsRight, ShowsCalm, InHand
<1>2. CASE ReadStatus(d)
  <2>1. PICK q \in Runs : job'[d] = [j EXCEPT !.cur = q, !.status = statusFile[q],
                  !.at = IF statusFile[q] = "none" THEN "agents" ELSE "apply"]
    BY <1>0, <1>2 DEF ReadStatus
  <2>2. /\ job'[d].cur = q /\ job'[d].status = statusFile[q]
        /\ job'[d].at = IF statusFile[q] = "none" THEN "agents" ELSE "apply"
    BY <1>0, <2>1 DEF Jobs
  <2>3. q = r
    BY <2>2
  <2>4. statusFile[r] # "none" => Calm(r)
    BY <1>0 DEF UpOK, OverIsCalm
  <2>5. QED
    BY <2>2, <2>3, <2>4 DEF JobIsRight, ShowsCalm
<1>3. CASE ReadAgents(d) \/ ReadProgress(d)
  <2>1. /\ job'[d].cur = j.cur /\ job'[d].status = j.status
        /\ job'[d].at \in {"progress", "pid"} /\ j.at \in {"agents", "progress"}
    BY <1>0, <1>3 DEF ReadAgents, ReadProgress, Jobs
  <2>2. QED
    BY <1>0, <2>1 DEF JobIsRight, ShowsCalm
<1>4. CASE CheckPid(d)
  <2> DEFINE up == WrapperAlive(j.cur, j.snap[j.cur].pid)
  <2>1. j.at = "pid" /\ job'[d] = [j EXCEPT !.up = up, !.at = "apply"]
    BY <1>0, <1>4 DEF CheckPid
  <2>2. up \in BOOLEAN /\ (up <=> WrapperAlive(j.cur, j.snap[j.cur].pid))
    BY DEF WrapperAlive
  <2> HIDE DEF up
  <2>3. /\ job'[d].cur = j.cur /\ job'[d].status = j.status
        /\ job'[d].at = "apply" /\ job'[d].up = up
    BY <1>0, <2>1 DEF Jobs
  <2>4. j.snap[r].pid = runs[r].pid
    BY <1>0, <2>1, <2>3 DEF CopyInv, CopyOK, InHand, Same
  <2>5. \A l \in Launches : Up(r, l) => l = j.snap[r].pid
    BY <1>0, <1>a, <2>1, <2>4 DEF UpOK, UpIsKnown
  <2>6. ~up => Calm(r)
    BY <2>2, <2>3, <2>5 DEF Calm, Up, WrapperAlive
  <2>7. QED
    BY <1>0, <2>1, <2>3, <2>6 DEF JobIsRight, ShowsCalm
<1>5. CASE Apply(d)
  <2>1. CASE Verdict(j.snap[j.cur], j) = "resume"
    <3>1. j.at = "apply" /\ job'[d] = [j EXCEPT !.at = "spawn"]
      BY <1>0, <1>5, <2>1 DEF Apply
    <3>2. job'[d].cur = j.cur /\ job'[d].at = "spawn"
      BY <1>0, <3>1 DEF Jobs
    <3>3. ~j.up
      BY <2>1 DEF Verdict
    <3>4. QED
      BY <1>0, <3>1, <3>2, <3>3 DEF JobIsRight, ShowsCalm
  <2>2. CASE Verdict(j.snap[j.cur], j) # "resume"
    <3>1. job'[d] = NextEntry(j)
      BY <1>0, <1>5, <2>2 DEF Apply
    <3>2. QED
      BY <1>0, <1>1, <3>1, NextEntryTyped
  <2>3. QED
    BY <2>1, <2>2
<1>6. CASE Pick(d)
  <2>1. CASE Claim(d)
    <3>1. PICK q \in Runs : q \in Claimable /\ job'[d] =
             [NoJob EXCEPT !.at = "spawn", !.cur = q, !.snap = Snapshot({q})]
      BY <1>0, <2>1 DEF Claim, Least
    <3>2. job'[d].at = "spawn" /\ job'[d].cur = q
      BY <3>1 DEF NoJob
    <3>3. runs[r].status = "pending" /\ runs[r].pid = 0
      BY <3>1, <3>2 DEF Claimable, RunsWith, StateShape
    <3>4. Calm(r)
      BY <1>0, <1>6, <1>a, <3>3 DEF Pick, UpOK, UpIsKnown, Calm, Launches
    <3>5. QED
      BY <3>2, <3>4 DEF JobIsRight
  <2>2. CASE Leave(d) \/ Sleep(d)
    BY <1>0, <1>1, <2>2 DEF Leave, Sleep, NoJob, InHand
  <2>3. QED
    BY <1>6, <2>1, <2>2 DEF Pick
<1>7. CASE SpawnFails(d)
  <2>1. j.at = "spawn" /\ job'[d] = [j EXCEPT !.launch = 0, !.at = "record"]
    BY <1>0, <1>7 DEF SpawnFails
  <2>2. job'[d].cur = j.cur /\ job'[d].at = "record"
    BY <1>0, <2>1 DEF Jobs
  <2>3. Calm(r)
    BY <1>0, <2>1, <2>2 DEF JobIsRight, ShowsCalm
  <2>4. QED
    BY <2>2, <2>3 DEF JobIsRight, ShowsCalm, Calm
<1>8. CASE Record(d)
  <2>1. \/ job'[d] = NoJob \/ job'[d] = NextEntry(j)
        \/ job'[d] = [NoJob EXCEPT !.at = "beat"]
    BY <1>0, <1>8 DEF Record
  <2>2. QED
    BY <1>0, <1>1, <2>1, NextEntryTyped DEF NoJob, InHand
<1>9. CASE AdoptScan(d) \/ Scan(d)
  <2>1. \E at \in {"adopt", "reconcile"}, adopting \in BOOLEAN :
           ReadStates(d, at, adopting)
    BY <1>9 DEF AdoptScan, Scan
  <2>2. job'[d].at \in {"adopt", "reconcile"}
    BY <1>0, <2>1 DEF ReadStates, NoJob
  <2>3. QED
    BY <1>1, <2>2 DEF InHand
<1>10. CASE AdoptRun(d)
  <2>1. job'[d] = [j EXCEPT !.at = "reconcile"]
    BY <1>0, <1>10 DEF AdoptRun
  <2>2. job'[d].at = "reconcile"
    BY <1>0, <2>1 DEF Jobs
  <2>3. QED
    BY <1>1, <2>2 DEF InHand
<1>11. CASE AdoptDone(d) \/ Heartbeat(d) \/ ReconcileDone(d)
  <2>1. \/ job' = job /\ j.at \notin InHand
        \/ \E at \in {"beat", "scan", "pick"} : SetJob(d, [NoJob EXCEPT !.at = at])
    BY <1>11 DEF AdoptDone, Heartbeat, ReconcileDone, InHand
  <2>2. job'[d].at \notin InHand
    BY <1>0, <2>1 DEF NoJob, InHand
  <2>3. QED
    BY <1>1, <2>2
<1>12. QED
  BY <1>2, <1>3, <1>4, <1>5, <1>6, <1>7, <1>8, <1>9, <1>10, <1>11 DEF LoopStep, Observe

LEMMA LoopUp ==
  ASSUME BaseInv, StateShape, UpInv, NEW d \in Daemons, LoopStep(d), ~Spawn(d)
  PROVE  UpInv'
<1>0. /\ TypeInv /\ CopyInv /\ OneWorker
      /\ \A e \in Daemons : e # d => job'[e] = job[e] /\ job[e].at = "idle"
  BY OthersIdle DEF BaseInv
<1>1. UNCHANGED <<launches, orphans, runMishaps>>
  BY DEF history, LoopStep, AdoptScan, AdoptRun, AdoptDone, Heartbeat, Scan, Observe,
     ReadStatus, ReadAgents, ReadProgress, CheckPid, Apply, ReconcileDone, Pick,
     Record, SpawnFails, procVars
<1> SUFFICES ASSUME NEW r \in Runs, orphans'[r] = 0 PROVE UpOK(r)'
  BY DEF UpInv
<1>2. UpOK(r) /\ orphans[r] = 0
  BY <1>1 DEF UpInv
<1>3. (Calm(r)' <=> Calm(r)) /\ \A l \in Launches : Up(r, l)' <=> Up(r, l)
  BY <1>1 DEF Calm, Up
<1>4. \A e \in Daemons : job'[e].cur = r => JobIsRight(job[e], r)'
  <2>1. job'[d].cur = r => JobIsRight(job'[d], r)
    BY <1>1, <1>2, LoopJobIsRight
  <2>2. \A e \in Daemons : e # d => JobIsRight(job'[e], r)
    BY <1>0 DEF JobIsRight, ShowsCalm
  <2>3. QED
    BY <1>3, <2>1, <2>2 DEF JobIsRight, ShowsCalm
<1>5. statusFile'[r] # "none" => statusFile'[r] = statusFile[r]
  BY <1>0 DEF LoopStep, AdoptScan, AdoptRun, AdoptDone, Heartbeat, Scan, Observe,
     ReadStatus, ReadAgents, ReadProgress, CheckPid, Apply, ReconcileDone, Pick,
     Record, SpawnFails, fileVars, TypeInv, SupervisorStateTypes
<1>6. CASE StartedAs(d, r)
  <2>1. /\ job[d].at = "record" /\ job[d].cur = r
        /\ runs'[r].status = "running" /\ runs'[r].pid = job[d].launch
    BY <1>6 DEF StartedAs, Record
  <2>2. \A l \in Launches : Up(r, l) => l = job[d].launch
    BY <1>2, <2>1 DEF UpOK, JobIsRight
  <2>3. UpIsKnown(r)'
    BY <1>3, <2>1, <2>2 DEF UpIsKnown
  <2>4. OverIsCalm(r)'
    BY <1>2, <1>3, <1>5, <2>1 DEF UpOK, OverIsCalm, Terminal
  <2>5. QED
    BY <1>4, <2>3, <2>4 DEF UpOK
<1>7. CASE ~StartedAs(d, r)
  <2>1. Same(runs[r], runs'[r]) \/ EndsRun(d, r)
    BY <1>0, <1>7, LoopRuns
  <2>2. \A l \in Launches : ~InFlight(r, l)
    <3>1. CASE job[d].at = "record" /\ job[d].cur = r
      <4>1. Record(d)
        BY <3>1 DEF LoopStep, AdoptScan, AdoptRun, AdoptDone, Heartbeat, Scan, Observe,
           ReadStatus, ReadAgents, ReadProgress, CheckPid, Apply, ReconcileDone, Pick,
           SpawnFails
      <4>2. runs'[r] = Started(d, job[d].snap[r], job[d].launch)
        BY <1>0, <3>1, <4>1 DEF Record, TypeInv, SupervisorStateTypes
      <4>3. /\ job[d].snap[r] \in RunState /\ job[d].launch \in 0 .. MaxLaunches
            /\ Same(job[d].snap[r], runs[r])
            /\ runs[r].status \in {"running", "pending"}
        BY <1>0, <3>1 DEF TypeInv, JobInv, JobTypes, Observers, Jobs, InHand,
                          CopyInv, CopyOK
      <4>4. StartedAs(d, r)
        BY <3>1, <4>1, <4>2, <4>3, StartedKeeps DEF StartedAs, Same
      <4>5. QED
        BY <1>7, <4>4
    <3>2. QED
      BY <1>0, <3>1 DEF InFlight
  <2>3. runs'[r].pid = runs[r].pid
    BY <2>1 DEF Same, EndsRun
  <2>4. UpIsKnown(r)'
    BY <1>2, <1>3, <2>2, <2>3 DEF UpOK, UpIsKnown
  <2>5. EndsRun(d, r) => Calm(r)
    <3> SUFFICES ASSUME EndsRun(d, r) PROVE Calm(r)
      OBVIOUS
    <3>1. /\ job[d].at = "apply" /\ job[d].cur = r
          /\ Verdict(job[d].snap[r], job[d]) \in {"status", "journal", "lost"}
      BY DEF EndsRun, Apply
    <3>2. job[d].status # "none" \/ ~job[d].up
      BY <3>1 DEF Verdict
    <3>3. QED
      BY <1>2, <3>1, <3>2 DEF UpOK, JobIsRight, ShowsCalm
  <2>6. OverIsCalm(r)'
    BY <1>1, <1>2, <1>3, <1>5, <2>1, <2>5 DEF UpOK, OverIsCalm, Same
  <2>7. QED
    BY <1>4, <2>4, <2>6 DEF UpOK
<1>8. QED
  BY <1>6, <1>7

LEMMA SpawnUp ==
  ASSUME BaseInv, UpInv, NEW d \in Daemons, Spawn(d)
  PROVE  UpInv'
<1>0. /\ TypeInv /\ CopyInv /\ OneWorker
      /\ \A e \in Daemons : e # d => job'[e] = job[e] /\ job[e].at = "idle"
      /\ job[d].cur \in Runs /\ job[d].at = "spawn"
  BY OthersIdle DEF BaseInv, LoopStep, Spawn, InHand, TypeInv, JobInv, JobHasRun,
                    Observers
<1>1. PICK l \in Launches :
          /\ job'[d].at = "record" /\ job'[d].cur = job[d].cur
          /\ job'[d].launch = l
          /\ \A q \in Runs, k \in Launches :
                launches'[q][k] = IF q = job[d].cur /\ k = l THEN Spawned
                                  ELSE launches[q][k]
  BY <1>0, SpawnEffect
<1>2. /\ UNCHANGED <<runs, orphans, runMishaps>>
      /\ statusFile' = [statusFile EXCEPT ![job[d].cur] = "none"]
  BY DEF Spawn, history
<1>3. \A q \in Runs, k \in Launches : ~InFlight(q, k)
  BY <1>0 DEF InFlight
<1> SUFFICES ASSUME NEW r \in Runs, orphans'[r] = 0 PROVE UpOK(r)'
  BY DEF UpInv
<1>4. UpOK(r)
  BY <1>2 DEF UpInv
<1>5. CASE r = job[d].cur
  <2>1. Calm(r)
    BY <1>0, <1>4, <1>5 DEF UpOK, JobIsRight, ShowsCalm
  <2>2. \A k \in Launches : Up(r, k)' => k = l
    BY <1>1, <1>5, <2>1 DEF Calm, Up
  <2>3. UpIsKnown(r)'
    BY <1>1, <1>5, <2>2 DEF UpIsKnown, InFlight
  <2>4. runs[r].status \in {"running", "pending"}
    BY <1>0, <1>5 DEF CopyInv, CopyOK, InHand
  <2>5. OverIsCalm(r)'
    BY <1>0, <1>2, <1>5, <2>4 DEF OverIsCalm, Terminal, TypeInv, SupervisorStateTypes
  <2>6. \A e \in Daemons : JobIsRight(job[e], r)'
    BY <1>0, <1>1, <2>2 DEF JobIsRight, ShowsCalm
  <2>7. QED
    BY <2>3, <2>5, <2>6 DEF UpOK
<1>6. CASE r # job[d].cur
  <2>1. \A k \in Launches : Up(r, k)' <=> Up(r, k)
    BY <1>1, <1>6 DEF Up
  <2>2. UpIsKnown(r)'
    BY <1>2, <1>3, <1>4, <2>1 DEF UpOK, UpIsKnown
  <2>3. OverIsCalm(r)'
    BY <1>0, <1>2, <1>4, <1>6, <2>1
       DEF UpOK, OverIsCalm, Calm, TypeInv, SupervisorStateTypes
  <2>4. \A e \in Daemons : job'[e].cur = r => JobIsRight(job[e], r)'
    BY <1>0, <1>1, <1>6 DEF JobIsRight, ShowsCalm
  <2>5. QED
    BY <2>2, <2>3, <2>4 DEF UpOK
<1>7. QED
  BY <1>5, <1>6

(* A crash between the spawn and the record is counted in orphans, any     *)
(* other leaves nothing about to be recorded.                              *)
LEMMA CrashUp ==
  ASSUME BaseInv, UpInv, NEW d \in Daemons, Acquire(d) \/ DaemonCrash(d)
  PROVE  UpInv'
<1>0. TypeInv /\ UNCHANGED <<runs, statusFile, launches, runMishaps>>
  BY DEF BaseInv, Acquire, DaemonCrash, fileVars, procVars, history
<1>1. \A e \in Daemons : e # d => job'[e] = job[e]
  BY <1>0 DEF Acquire, DaemonCrash, SetJob, TypeInv, JobInv, JobTypes, Observers
<1>2. \/ job'[d] = job[d] /\ job[d].at # "record"
      \/ job'[d].at \in {"idle", "start"}
  <2>1. CASE Acquire(d)
    <3>1. pc[d] \notin Holding
      BY <2>1 DEF Acquire, Open, Inspect, Remove, WriteLock, Holding
    <3>2. job[d].at = "idle"
      BY <3>1 DEF BaseInv, WorkersHold, Working
    <3>3. job' = job \/ SetJob(d, [NoJob EXCEPT !.at = "start"])
      BY <2>1 DEF Acquire
    <3>4. QED
      BY <1>0, <3>2, <3>3 DEF SetJob, NoJob, TypeInv, JobInv, JobTypes, Observers
  <2>2. CASE DaemonCrash(d)
    BY <1>0, <2>2 DEF DaemonCrash, SetJob, NoJob, TypeInv, JobInv, JobTypes, Observers
  <2>3. QED
    BY <2>1, <2>2
<1>3. ASSUME NEW r \in Runs, orphans'[r] = 0
      PROVE  /\ orphans[r] = 0
             /\ \A l \in Launches : InFlight(r, l) => InFlight(r, l)'
  <2>1. orphans[r] \in Nat
    BY <1>0 DEF TypeInv, SupervisorStateTypes
  <2>2. CASE Acquire(d)
    <3>1. job[d].at # "record"
      <4>1. pc[d] \notin Holding
        BY <2>2 DEF Acquire, Open, Inspect, Remove, WriteLock, Holding
      <4>2. QED
        BY <4>1 DEF BaseInv, WorkersHold, Working
    <3>2. UNCHANGED orphans
      BY <2>2 DEF Acquire, history
    <3>3. QED
      BY <1>1, <1>3, <3>1, <3>2 DEF InFlight
  <2>3. CASE DaemonCrash(d)
    <3> DEFINE lost == job[d].at = "record" /\ job[d].launch # 0
    <3>1. orphans' = IF lost THEN [orphans EXCEPT ![job[d].cur] = @ + 1] ELSE orphans
      BY <2>3 DEF DaemonCrash
    <3>2. CASE lost /\ job[d].cur = r
      <4>1. orphans'[r] = orphans[r] + 1
        BY <1>0, <3>1, <3>2 DEF TypeInv, SupervisorStateTypes
      <4>2. QED
        BY <1>3, <2>1, <4>1
    <3>3. CASE ~(lost /\ job[d].cur = r)
      <4>1. orphans'[r] = orphans[r]
        BY <1>0, <3>1, <3>3 DEF TypeInv, SupervisorStateTypes
      <4>2. \A l \in Launches : l # 0
        BY DEF Launches
      <4>3. QED
        BY <1>1, <1>3, <3>3, <4>1, <4>2 DEF InFlight
    <3>4. QED
      BY <3>2, <3>3
  <2>4. QED
    BY <2>2, <2>3
<1> SUFFICES ASSUME NEW r \in Runs, orphans'[r] = 0 PROVE UpOK(r)'
  BY DEF UpInv
<1>4. UpOK(r) /\ \A l \in Launches : InFlight(r, l) => InFlight(r, l)'
  BY <1>3 DEF UpInv
<1>5. (Calm(r)' <=> Calm(r)) /\ \A l \in Launches : Up(r, l)' <=> Up(r, l)
  BY <1>0 DEF Calm, Up
<1>6. UpIsKnown(r)' /\ OverIsCalm(r)'
  BY <1>0, <1>4, <1>5 DEF UpOK, UpIsKnown, OverIsCalm
<1>7. \A e \in Daemons : job'[e].cur = r => JobIsRight(job[e], r)'
  BY <1>1, <1>2, <1>4, <1>5 DEF UpOK, JobIsRight, ShowsCalm
<1>8. QED
  BY <1>6, <1>7 DEF UpOK

(* A reader's write leaves no wrapper behind, unless it is early.          *)
LEMMA ReaderUp ==
  ASSUME Unmixed', BaseInv, UpInv, NEW o \in Readers, ReaderApply(o)
  PROVE  UpInv'
<1>0. TypeInv
  BY DEF BaseInv
<1>1. /\ UNCHANGED <<statusFile, launches, orphans>>
      /\ DaemonJobsStay /\ runMishaps \subseteq runMishaps'
  BY <1>0, ReaderJobs DEF ReaderStep, ReaderApply
<1> SUFFICES ASSUME NEW r \in Runs, orphans'[r] = 0 PROVE UpOK(r)'
  BY DEF UpInv
<1>2. UpOK(r)
  BY <1>1 DEF UpInv
<1>3. PICK q \in Runs : ReaderWrites(q)
  BY <1>0, ReaderApplies
<1>4. Same(runs[r], runs'[r]) \/ EndedByReader(r)
  BY <1>3 DEF ReaderWrites, Same
<1>5. (Calm(r)' <=> Calm(r)) /\ \A l \in Launches : Up(r, l)' <=> Up(r, l)
  BY <1>1 DEF Calm, Up
<1>6. UpIsKnown(r)'
  BY <1>1, <1>2, <1>4, <1>5
     DEF UpOK, UpIsKnown, InFlight, DaemonJobsStay, Same, EndedByReader
<1>7. OverIsCalm(r)'
  <2>1. CASE Same(runs[r], runs'[r])
    BY <1>1, <1>2, <1>5, <2>1 DEF UpOK, OverIsCalm, Same
  <2>2. CASE EndedByReader(r)
    <3>1. runs[r].status \notin Terminal /\ "early" \notin runMishaps' => Calm(r)
      BY <2>2 DEF EndedByReader, WrapperAlive, Calm, Up
    <3>2. QED
      BY <1>1, <1>2, <1>5, <3>1 DEF UpOK, OverIsCalm
  <2>3. QED
    BY <1>4, <2>1, <2>2
<1>8. \A d \in Daemons : job'[d].cur = r => JobIsRight(job[d], r)'
  BY <1>1, <1>2, <1>5 DEF UpOK, JobIsRight, ShowsCalm, DaemonJobsStay
<1>9. QED
  BY <1>6, <1>7, <1>8 DEF UpOK

LEMMA UpStep ==
  ASSUME Unmixed', BaseInv, ProcessShape, StateShape, UpInv, [Next]_vars
  PROVE  UpInv'
<1>0. TypeInv /\ runMishaps \subseteq runMishaps'
  BY StaysUnmixed DEF BaseInv
<1>1. ASSUME NEW d \in Daemons, LoopStep(d) \/ Acquire(d) \/ DaemonCrash(d)
      PROVE  UpInv'
  BY <1>1, LoopUp, SpawnUp, CrashUp
<1>2. ASSUME NEW q \in Runs, Submit(q) PROVE UpInv'
  <2>1. /\ UNCHANGED <<job, statusFile, launches, orphans, runMishaps>>
        /\ \A r \in Runs : runs'[r].pid = runs[r].pid
        /\ \A r \in Runs : runs'[r].status = runs[r].status
                             \/ runs'[r].status = "pending"
    BY <1>0, <1>2 DEF Submit, procVars, history, TypeInv, SupervisorStateTypes, RunState
  <2>2. QED
    BY <2>1 DEF UpInv, UpOK, UpIsKnown, OverIsCalm, JobIsRight, ShowsCalm, Calm, Up,
                InFlight, Terminal
<1>3. ASSUME UNCHANGED <<runs, orphans, statusFile, launches>>, DaemonJobsStay
      PROVE  UpInv'
  BY <1>0, <1>3 DEF UpInv, UpOK, UpIsKnown, OverIsCalm, JobIsRight, ShowsCalm, Calm, Up,
                    InFlight, DaemonJobsStay
<1>4. ASSUME NEW r \in Runs, NEW l \in Launches, LauncherStep(r, l) \/ Kill(r, l),
             UNCHANGED <<runs, orphans>>, DaemonJobsStay
      PROVE  UpInv'
  BY <1>0, <1>4, LaunchersUp
<1>5. ASSUME NEW o \in Readers, ReaderApply(o) PROVE UpInv'
  BY <1>5, ReaderUp
<1>6. QED
  BY <1>0, <1>1, <1>2, <1>3, <1>4, <1>5, StepCases

LEMMA UpHolds == Spec => [](Unmixed => UpInv)
<1>1. Init => UpInv
  BY DEF Init, UpInv, UpOK, UpIsKnown, OverIsCalm, JobIsRight, ShowsCalm, Up, NoProcess,
         NoRun, NoJob, Terminal, Calm, Observers
<1>2. BaseInv /\ BudgetInv /\ UpInv /\ [Next]_vars /\ Unmixed' => UpInv'
  BY UpStep DEF BudgetInv
<1>3. (Unmixed => BaseInv) /\ (Unmixed => BudgetInv) /\ (Unmixed => UpInv)
        /\ [Next]_vars /\ [Unmixed' => Unmixed]_vars => (Unmixed => UpInv)'
  <2>1. [Unmixed' => Unmixed]_vars /\ Unmixed' => Unmixed
    BY DEF Unmixed, vars, supVars, lockVars, history
  <2>2. QED
    BY <1>2, <2>1
<1>4. QED
  BY <1>1, <1>3, BaseHolds, BudgetHolds, UnmixedBefore, PTL DEF Spec

(* A run never has two launchers under a wrapper, unless a daemon died     *)
(* before recording one or a reader has written over its record: whatever  *)
(* a daemon read, and when, it starts a launcher only of a run none is     *)
(* left of.                                                                *)
THEOREM RunsHaveOneLauncher == Spec => []OneLauncherPerRun
<1>1. (Unmixed => BaseInv) /\ (Unmixed => UpInv) => OneLauncherPerRun
  BY UpsAreEqual DEF OneLauncherPerRun, UpInv, WrapperAlive, Up, BaseInv
<1>2. QED
  BY <1>1, BaseHolds, UpHolds, PTL

-----------------------------------------------------------------------------
(* The launchers themselves, while no wrapper was killed alone: a launcher *)
(* lives under its wrapper, and the one named in the lane's lock has got   *)
(* past that lock.                                                         *)
NodeNeedsWrapper ==
    \A r \in Runs, l \in Launches : NodeAlive(r, l) => Up(r, l)

LockHolderStarted ==
    \A r \in Runs, l \in Launches :
        laneLock = <<r, l>> => launches[r][l].node \notin {"none", "boot"}

AllRecorded == \A r \in Runs : orphans[r] = 0

LEMMA OneUpInLane ==
  ASSUME BaseInv, StateShape, UpInv, AllRecorded, runMishaps = {},
         NEW q \in Runs, NEW k \in Launches, Up(q, k),
         NEW r \in Runs, NEW l \in Launches, Up(r, l)
  PROVE  q = r /\ k = l
<1>0. /\ TypeInv /\ CopyInv /\ OneWorker /\ OneRunning
      /\ UpOK(q) /\ UpOK(r)
  BY DEF BaseInv, UpInv, AllRecorded
<1> DEFINE Records(d, p) == job[d].at = "record" /\ job[d].cur = p
<1>1. ASSUME NEW p \in Runs, NEW m \in Launches, Up(p, m), UpOK(p)
      PROVE  runs[p].status = "running" \/ \E d \in Daemons : Records(d, p)
  <2>1. CASE m = runs[p].pid
    <3>1. runs[p].status \notin {"none", "pending"}
      BY <2>1 DEF StateShape, Launches
    <3>2. runs[p].status \notin Terminal
      BY <1>1 DEF UpOK, OverIsCalm, Calm
    <3>3. QED
      BY <1>0, <3>1, <3>2 DEF TypeInv, SupervisorStateTypes, RunState, Terminal
  <2>2. CASE InFlight(p, m)
    BY <2>2 DEF InFlight
  <2>3. QED
    BY <1>1, <2>1, <2>2 DEF UpOK, UpIsKnown
<1>2. ASSUME NEW d \in Daemons, NEW p \in Runs, Records(d, p)
      PROVE  runs[p].status = "running" \/ NoneRunning(runs)
  BY <1>0, <1>2 DEF CopyInv, CopyOK, InHand
<1>3. q = r
  <2>1. CASE runs[q].status = "running" /\ runs[r].status = "running"
    BY <1>0, <2>1 DEF OneRunning
  <2>2. CASE runs[q].status # "running" /\ runs[r].status # "running"
    BY <1>0, <1>1, <2>2 DEF OneWorker, Working
  <2>3. CASE runs[q].status = "running" /\ runs[r].status # "running"
    BY <1>0, <1>1, <1>2, <2>3 DEF NoneRunning
  <2>4. CASE runs[q].status # "running" /\ runs[r].status = "running"
    BY <1>0, <1>1, <1>2, <2>4 DEF NoneRunning
  <2>5. QED
    BY <2>1, <2>2, <2>3, <2>4
<1>4. QED
  BY <1>0, <1>3, UpsAreEqual

LEMMA WrappersStay ==
  ASSUME "alone" \notin runMishaps', TypeInv, ProcessShape,
         NodeNeedsWrapper, [Next]_vars
  PROVE  NodeNeedsWrapper'
<1>1. CASE \A d \in Daemons : ~Spawn(d)
  BY <1>1, LaunchesAge DEF AllAge, Older, Alive3, NodeNeedsWrapper, NodeAlive, Up
<1>2. ASSUME NEW d \in Daemons, Spawn(d) PROVE NodeNeedsWrapper'
  <2>1. PICK l \in Launches : \A r \in Runs, k \in Launches :
            launches'[r][k] = IF r = job[d].cur /\ k = l THEN Spawned
                              ELSE launches[r][k]
    BY <1>2, SpawnEffect
  <2>2. QED
    BY <2>1, SpawnedProcess DEF NodeNeedsWrapper, NodeAlive, Up
<1>3. QED
  BY <1>1, <1>2

LEMMA LaneLockSteps ==
  ASSUME TypeInv, [Next]_vars
  PROVE  \/ laneLock' = laneLock
         \/ laneLock' = NoLaunch
         \/ \E r \in Runs, l \in Launches : LauncherStarts(r, l)
<1>1. ASSUME NEW d \in Daemons, LoopStep(d) \/ Acquire(d) \/ DaemonCrash(d)
      PROVE  laneLock' = laneLock
  BY <1>1 DEF LoopStep, AdoptScan, AdoptRun, AdoptDone, Heartbeat, Scan, Observe,
     ReadStatus, ReadAgents, ReadProgress, CheckPid, Apply, ReconcileDone, Pick,
     Spawn, Record, SpawnFails, Acquire, DaemonCrash, procVars
<1>2. ASSUME NEW r \in Runs, Submit(r) PROVE laneLock' = laneLock
  BY <1>2 DEF Submit, procVars
<1>3. ASSUME NEW r \in Runs, NEW l \in Launches, LauncherStep(r, l) \/ Kill(r, l)
      PROVE  laneLock' = laneLock \/ laneLock' = NoLaunch \/ LauncherStarts(r, l)
  BY <1>3 DEF LauncherStep, LauncherAdvances, Kill, LauncherRefused, LaunchAgents,
     Finalize, LauncherExits, WrapperReports
<1>4. ASSUME NEW o \in Readers, ReaderApply(o) PROVE laneLock' = laneLock
  BY <1>4 DEF ReaderApply, procVars
<1>5. QED
  BY <1>1, <1>2, <1>3, <1>4, StepCases

LEMMA LockHolderStep ==
  ASSUME TypeInv, ProcessShape, LockHolderStarted, [Next]_vars
  PROVE  LockHolderStarted'
<1> SUFFICES ASSUME NEW r \in Runs, NEW l \in Launches, laneLock' = <<r, l>>
             PROVE  launches'[r][l].node \notin {"none", "boot"}
  BY DEF LockHolderStarted
<1>1. CASE laneLock' = laneLock
  <2>0. launches[r][l].node \notin {"none", "boot"}
    BY <1>1 DEF LockHolderStarted
  <2>1. CASE \A d \in Daemons : ~Spawn(d)
    BY <2>0, <2>1, LaunchesAge DEF AllAge, Older
  <2>2. ASSUME NEW d \in Daemons, Spawn(d)
        PROVE  launches'[r][l].node \notin {"none", "boot"}
    <3>1. PICK m \in Launches :
            /\ m \notin Launched(job[d].cur)
            /\ \A q \in Runs, k \in Launches :
                  launches'[q][k] = IF q = job[d].cur /\ k = m THEN Spawned
                                    ELSE launches[q][k]
      BY <2>2, SpawnEffect
    <3>2. ~(r = job[d].cur /\ l = m)
      BY <2>0, <3>1 DEF Launched
    <3>3. QED
      BY <2>0, <3>1, <3>2
  <2>3. QED
    BY <2>1, <2>2
<1>2. CASE laneLock' = NoLaunch
  BY <1>2, SupervisorAssumption
<1>3. ASSUME NEW q \in Runs, NEW k \in Launches, LauncherStarts(q, k)
      PROVE  launches'[r][l].node \notin {"none", "boot"}
  <2>1. r = q /\ l = k
    BY <1>3 DEF LauncherStarts
  <2>2. launches'[r][l] = [launches[r][l] EXCEPT !.node = "work"]
    BY <1>3, <2>1 DEF LauncherStarts, SetLaunch, TypeInv, SupervisorStateTypes
  <2>3. launches[r][l] \in Processes
    BY DEF TypeInv, SupervisorStateTypes
  <2>4. QED
    BY <2>2, <2>3 DEF Processes
<1>4. QED
  BY <1>1, <1>2, <1>3, LaneLockSteps

NoneRefused == \A r \in Runs, l \in Launches : launches[r][l].code # "refused"

LEMMA RefusedStep ==
  ASSUME BaseInv, StateShape, UpInv, NodeNeedsWrapper, LockHolderStarted,
         AllRecorded, runMishaps = {}, NoneRefused, [Next]_vars
  PROVE  NoneRefused'
<1>0. TypeInv
  BY DEF BaseInv
<1>1. ASSUME NEW d \in Daemons, LoopStep(d) \/ Acquire(d) \/ DaemonCrash(d), ~Spawn(d)
      PROVE  UNCHANGED launches
  BY <1>1 DEF LoopStep, AdoptScan, AdoptRun, AdoptDone, Heartbeat, Scan, Observe,
     ReadStatus, ReadAgents, ReadProgress, CheckPid, Apply, ReconcileDone, Pick,
     Record, SpawnFails, Acquire, DaemonCrash, procVars
<1>2. ASSUME NEW d \in Daemons, Spawn(d) PROVE NoneRefused'
  <2>1. PICK l \in Launches : \A r \in Runs, k \in Launches :
            launches'[r][k] = IF r = job[d].cur /\ k = l THEN Spawned
                              ELSE launches[r][k]
    BY <1>0, <1>2, SpawnEffect
  <2>2. QED
    BY <2>1, SpawnedProcess DEF NoneRefused
<1>3. ASSUME NEW r \in Runs, Submit(r) PROVE UNCHANGED launches
  BY <1>3 DEF Submit, procVars
<1>4. ASSUME NEW r \in Runs, NEW l \in Launches, LauncherStep(r, l) \/ Kill(r, l)
      PROVE  NoneRefused'
  <2> DEFINE p == launches[r][l]
  <2>0. p \in Processes /\ p.code # "refused"
    BY <1>0 DEF TypeInv, SupervisorStateTypes, NoneRefused
  <2>1. ASSUME NEW n, n.code # "refused", SetLaunch(r, l, n)
        PROVE  NoneRefused'
    BY <1>0, <2>1 DEF SetLaunch, NoneRefused, TypeInv, SupervisorStateTypes
  <2>2. CASE LauncherRefused(r, l)
    <3>1. PICK q \in Runs, k \in Launches : laneLock = <<q, k>> /\ NodeAlive(q, k)
      BY <1>0, <2>2 DEF LauncherRefused, LaneBusy, TypeInv, SupervisorStateTypes
    <3>2. launches[r][l].node = "boot" /\ NodeAlive(r, l)
      BY <2>2 DEF LauncherRefused, NodeAlive
    <3>3. q = r /\ k = l
      BY <3>1, <3>2, OneUpInLane DEF NodeNeedsWrapper
    <3>4. QED
      BY <3>1, <3>2, <3>3 DEF LockHolderStarted
  <2>3. CASE LauncherStarts(r, l) \/ LauncherExits(r, l) \/ WrapperReports(r, l)
    <3>1. /\ [p EXCEPT !.node = "work"].code = p.code
          /\ [p EXCEPT !.node = "dead"].code = p.code
          /\ [p EXCEPT !.wrap = "down"].code = p.code
      BY <2>0 DEF Processes
    <3>2. QED
      BY <2>0, <2>1, <2>3, <3>1 DEF LauncherStarts, LauncherExits, WrapperReports
  <2>4. CASE LaunchAgents(r, l)
    BY <2>4 DEF LaunchAgents, NoneRefused
  <2>5. ASSUME NEW code \in {"ok", "err"}, Finalize(r, l, code)
        PROVE  NoneRefused'
    <3> DEFINE n == [p EXCEPT !.node = "final", !.code = code, !.won = (code = "ok")]
    <3>1. n.code = code /\ code # "refused"
      BY <2>0 DEF Processes
    <3>2. SetLaunch(r, l, n)
      BY <2>5 DEF Finalize
    <3> HIDE DEF n
    <3>3. QED
      BY <2>1, <3>1, <3>2
  <2>6. CASE Kill(r, l)
    <3>1. NodeGone(p) \in Processes /\ NodeGone(p).code # "refused"
      BY <2>0 DEF NodeGone, Processes
    <3>2. WrapperGone(p).code # "refused" /\ WrapperGone(NodeGone(p)).code # "refused"
      BY <2>0, <3>1 DEF WrapperGone, Processes
    <3>3. QED
      BY <2>1, <2>6, <3>1, <3>2 DEF Kill
  <2>7. QED
    BY <1>4, <2>2, <2>3, <2>4, <2>5, <2>6 DEF LauncherStep, LauncherAdvances
<1>5. UNCHANGED launches => NoneRefused'
  BY DEF NoneRefused
<1>6. ASSUME NEW o \in Readers, ReaderApply(o) PROVE UNCHANGED launches
  BY <1>6 DEF ReaderApply, procVars
<1>7. QED
  BY <1>0, <1>1, <1>2, <1>3, <1>4, <1>5, <1>6, StepCases

QuietInv ==
    /\ "alone" \notin runMishaps => NodeNeedsWrapper
    /\ LockHolderStarted
    /\ AllRecorded /\ runMishaps = {} => NoneRefused

LEMMA QuietHolds == Spec => [](Unmixed => QuietInv)
<1>1. Init => QuietInv
  BY SupervisorAssumption DEF Init, QuietInv, NodeNeedsWrapper, NodeAlive, NoProcess,
     LockHolderStarted, NoneRefused
<1>2. BaseInv /\ BudgetInv /\ UpInv /\ QuietInv /\ [Next]_vars => QuietInv'
  <2> SUFFICES ASSUME BaseInv, BudgetInv, UpInv, QuietInv, [Next]_vars
               PROVE  QuietInv'
    OBVIOUS
  <2>0. TypeInv /\ runMishaps \subseteq runMishaps'
    BY StaysUnmixed DEF BaseInv
  <2>1. ("alone" \notin runMishaps' => NodeNeedsWrapper') /\ LockHolderStarted'
    BY <2>0, WrappersStay, LockHolderStep DEF BudgetInv, QuietInv
  <2>2. AllRecorded' => AllRecorded
    <3>1. ASSUME NEW d \in Daemons, LoopStep(d) \/ Acquire(d)
          PROVE  UNCHANGED orphans
      BY <3>1 DEF history, LoopStep, AdoptScan, AdoptRun, AdoptDone, Heartbeat, Scan, Observe,
         ReadStatus, ReadAgents, ReadProgress, CheckPid, Apply, ReconcileDone, Pick,
         Spawn, Record, SpawnFails, Acquire
    <3>2. ASSUME NEW d \in Daemons, DaemonCrash(d) PROVE AllRecorded' => AllRecorded
      <4>1. orphans \in [Runs -> Nat]
        BY DEF BaseInv, TypeInv, SupervisorStateTypes
      <4>2. \A r \in Runs : orphans'[r] = orphans[r] \/ orphans'[r] = orphans[r] + 1
        BY <3>2, <4>1 DEF DaemonCrash
      <4>3. QED
        BY <4>1, <4>2 DEF AllRecorded
    <3>3. ASSUME NEW r \in Runs, Submit(r) PROVE UNCHANGED orphans
      BY <3>3 DEF Submit, history
    <3>4. UNCHANGED orphans => (AllRecorded' => AllRecorded)
      BY DEF AllRecorded
    <3>5. ASSUME NEW o \in Readers, ReaderApply(o) PROVE UNCHANGED orphans
      BY <3>5 DEF ReaderApply
    <3>6. QED
      BY <2>0, <3>1, <3>2, <3>3, <3>4, <3>5, StepCases
  <2>3. AllRecorded /\ runMishaps = {} => NoneRefused'
    BY RefusedStep DEF QuietInv, BudgetInv
  <2>4. QED
    BY <2>0, <2>1, <2>2, <2>3 DEF QuietInv
<1>3. (Unmixed => BaseInv) /\ (Unmixed => BudgetInv) /\ (Unmixed => UpInv)
        /\ (Unmixed => QuietInv) /\ [Next]_vars /\ [Unmixed' => Unmixed]_vars
        => (Unmixed => QuietInv)'
  <2>1. [Unmixed' => Unmixed]_vars /\ Unmixed' => Unmixed
    BY DEF Unmixed, vars, supVars, lockVars, history
  <2>2. QED
    BY <1>2, <2>1
<1>4. QED
  BY <1>1, <1>3, BaseHolds, BudgetHolds, UpHolds, UnmixedBefore, PTL DEF Spec

(* A run that is reported over has no launcher at work: its agents and its *)
(* files are left alone.  Only an early report or a wrapper killed alone   *)
(* leaves a launcher behind.                                               *)
THEOREM SettledRunsAreQuiet == Spec => []SettledIsQuiet
<1>1. (Unmixed => UpInv) /\ (Unmixed => QuietInv) => SettledIsQuiet
  BY DEF Unmixed, UpInv, UpOK, OverIsCalm, Calm, QuietInv, NodeNeedsWrapper,
         SettledIsQuiet
<1>2. QED
  BY <1>1, UpHolds, QuietHolds, PTL

(* No launcher of a queued run is refused by the lane's lock: when it is   *)
(* started, the launcher of the run before has gone, however it ended and  *)
(* whoever reported that.                                                  *)
THEOREM QueuedRunsStart == Spec => []QueueNotRefused
<1>1. (Unmixed => QuietInv) => QueueNotRefused
  BY DEF Unmixed, QuietInv, AllRecorded, NoneRefused, QueueNotRefused
<1>2. QED
  BY <1>1, QuietHolds, PTL
=============================================================================
