-------------------------- MODULE SupervisorProofs --------------------------
(***************************************************************************)
(* Proofs about Supervisor, for any number of runs, daemons, readers and   *)
(* launches, any failures and any mishap of the lock file: types, the lock *)
(* it implements, and the evidence a success has.                          *)
(***************************************************************************)
EXTENDS Supervisor, SupervisorLockProofs

-----------------------------------------------------------------------------
(* Every step of the supervisor is a step of its lock, or leaves the lock  *)
(* alone.                                                                  *)
LEMMA StepIsLockStep == [Next]_vars => [LockNext]_lockVars
<1> SUFFICES ASSUME [Next]_vars PROVE [LockNext]_lockVars
  OBVIOUS
<1> USE DEF LockNext, DaemonLockStep
<1>1. ASSUME NEW r \in Runs, Submit(r) \/ EnsureSupervisorRunning(r) \/ AgentsEnd(r)
      PROVE  [LockNext]_lockVars
  BY <1>1 DEF Submit, EnsureSupervisorRunning, AgentsEnd
<1>2. ASSUME NEW d \in Daemons, StartDaemon(d) \/ SpawnFails(d) \/ DaemonCrash(d)
      PROVE  [LockNext]_lockVars
  BY <1>2 DEF StartDaemon, SpawnFails, DaemonCrash
<1>3. ASSUME NEW o \in Observers, Observe(o) PROVE [LockNext]_lockVars
  BY <1>3 DEF Observe, ReadStatus, ReadAgents, ReadProgress, CheckPid
<1>4. ASSUME NEW d \in Daemons, DaemonStep(d) PROVE [LockNext]_lockVars
  <2>1. CASE Acquire(d)
    BY <2>1 DEF Acquire
  <2>2. CASE AdoptScan(d) \/ AdoptRun(d) \/ AdoptDone(d) \/ Scan(d)
    BY <2>2 DEF AdoptScan, AdoptRun, AdoptDone, Scan
  <2>3. CASE Heartbeat(d)
    BY <2>3 DEF Heartbeat
  <2>4. CASE Apply(d) \/ ReconcileDone(d) \/ Spawn(d)
    BY <2>4 DEF Apply, ReconcileDone, Spawn
  <2>5. CASE Pick(d)
    BY <2>5 DEF Pick, Claim, Leave, Sleep
  <2>6. CASE Record(d)
    BY <2>6 DEF Record
  <2>7. CASE Observe(d)
    BY <2>7, <1>3 DEF Observers
  <2>8. QED
    BY <1>4, <2>1, <2>2, <2>3, <2>4, <2>5, <2>6, <2>7 DEF DaemonStep
<1>5. ASSUME NEW o \in Readers, ReaderStep(o) PROVE [LockNext]_lockVars
  <2>1. ASSUME NEW r \in Runs, ReadState(o, r) PROVE [LockNext]_lockVars
    BY <2>1 DEF ReadState
  <2>2. CASE ReaderApply(o)
    BY <2>2 DEF ReaderApply
  <2>3. QED
    BY <1>3, <1>5, <2>1, <2>2 DEF ReaderStep, Observers
<1>6. ASSUME NEW r \in Runs, NEW l \in Launches, LauncherStep(r, l) \/ Kill(r, l)
      PROVE  [LockNext]_lockVars
  BY <1>6 DEF LauncherStep, LauncherAdvances, Kill, LauncherStarts, LauncherRefused, LaunchAgents,
              Finalize, LauncherExits, WrapperReports
<1>7. CASE LeaseLapse
  BY <1>7 DEF LeaseLapse
<1>8. CASE UNCHANGED vars
  BY <1>8 DEF vars, lockVars, pathVars
<1>9. QED
  BY <1>1, <1>2, <1>4, <1>5, <1>6, <1>7, <1>8 DEF Next

(* The supervisor implements its lock: what is proved of SupervisorLock    *)
(* holds of the daemons that drive runs.                                   *)
THEOREM SupervisorRefinesLock == Spec => LockRefined
<1>1. Init => LockInit
  BY DEF Init
<1>2. QED
  BY <1>1, StepIsLockStep, PTL DEF Spec, LockSpec, LockRefined

(* Two daemons drive the runs of a lane at once only after one of the      *)
(* three mishaps of the lock file.                                         *)
THEOREM OneDaemonDrivesRuns == Spec => []MutualExclusion
BY SupervisorRefinesLock, DaemonsExcludeEachOther, PTL DEF LockRefined

-----------------------------------------------------------------------------
(* Types.  A verdict changes only the status and the disposition of a      *)
(* state, and only to values of their types.                               *)
SupervisorStateTypes ==
    /\ runs \in [Runs -> RunState]
    /\ ensure \in SUBSET Runs
    /\ statusFile \in [Runs -> Codes]
    /\ progress \in [Runs -> Journals]
    /\ agents \in [Runs -> Runtimes]
    /\ launches \in [Runs -> [Launches -> Processes]]
    /\ laneLock \in (Runs \X Launches) \cup {NoLaunch}
    /\ orphans \in [Runs -> Nat]
    /\ runMishaps \in SUBSET RunMishapKinds

(* A job that has an entry in hand has a run in hand, and an entry to      *)
(* visit is a run.                                                         *)
JobTypes == job \in [Observers -> Jobs]

InHand == {"agents", "progress", "pid", "apply", "spawn", "record"}

JobHasRun == \A o \in Observers : job[o].at \in InHand => job[o].cur \in Runs

LEMMA ReconciledTyped ==
  ASSUME NEW s \in RunState, NEW j \in Jobs, NEW v,
         v = "journal" => j.journal \in Terminal
  PROVE  /\ Reconciled(s, j, v) \in RunState
         /\ Reconciled(s, j, v).pid = s.pid
         /\ Reconciled(s, j, v).status # s.status =>
               v \in {"status", "journal", "lost"}
<1>1. CASE v = "status"
  BY <1>1 DEF Reconciled, RunState, SettledByStatus
<1>2. CASE v = "healthy"
  BY <1>2 DEF Reconciled, RunState
<1>3. CASE v = "degraded"
  BY <1>3 DEF Reconciled, RunState
<1>4. CASE v = "journal"
  BY <1>4 DEF Reconciled, RunState, SettledByJournal, Terminal
<1>5. CASE v = "lost"
  BY <1>5 DEF Reconciled, RunState
<1>6. CASE v \notin {"status", "healthy", "degraded", "journal", "lost"}
  BY <1>6 DEF Reconciled
<1>7. QED
  BY <1>1, <1>2, <1>3, <1>4, <1>5, <1>6

LEMMA NoJobTyped == NoJob \in Jobs /\ NoRun \in RunState
BY SupervisorAssumption DEF NoJob, NoRun, Jobs, RunState, Codes, Runtimes, Journals

LEMMA SnapshotTyped ==
  ASSUME runs \in [Runs -> RunState], NEW S
  PROVE  Snapshot(S) \in [Runs -> RunState]
BY NoJobTyped DEF Snapshot

LEMMA NextEntryTyped ==
  ASSUME NEW j \in Jobs
  PROVE  NextEntry(j) \in Jobs /\ NextEntry(j).at \notin InHand
<1>1. [j.snap EXCEPT ![j.cur] = NoRun] \in [Runs -> RunState]
  BY NoJobTyped DEF Jobs
<1>2. NextEntry(j).at \in {"adopt", "reconcile"}
  BY NoJobTyped DEF NextEntry, Jobs
<1>3. NextEntry(j) \in Jobs
  BY <1>1, NoJobTyped DEF NextEntry, Jobs
<1>4. QED
  BY <1>2, <1>3 DEF InHand

LEMMA VerdictJournal ==
  ASSUME NEW s, NEW j, Verdict(s, j) = "journal" \/ ReadVerdict(s, j) = "journal"
  PROVE  j.journal \in Terminal
BY DEF Verdict, ReadVerdict, Finalized

LEMMA StartedTyped ==
  ASSUME NEW d \in Daemons, NEW s \in RunState, NEW n \in 0 .. MaxLaunches
  PROVE  Started(d, s, n) \in RunState
<1>1. CASE s.status = "running"
  <2>1. s.resumes \in Nat /\ s.resumes + 1 \in Nat
    BY DEF RunState
  <2> DEFINE k == s.resumes + 1
  <2>2. Started(d, s, n) = [s EXCEPT !.pid = n, !.disp = "running", !.resumes = k]
    BY <1>1 DEF Started
  <2> HIDE DEF k
  <2>3. QED
    BY <2>1, <2>2 DEF RunState, k
<1>2. CASE s.status # "running"
  BY <1>2 DEF Started, RunState
<1>3. QED
  BY <1>1, <1>2

LEMMA OwnerTyped ==
  ASSUME NEW d \in Daemons, NEW s \in RunState
  PROVE  [s EXCEPT !.owner = d] \in RunState
BY DEF RunState

(* Storing a well-typed job, or launcher process, keeps the rest typed.    *)
JobOK(j) == j \in Jobs /\ (j.at \in InHand => j.cur \in Runs)

JobInv == JobTypes /\ JobHasRun

LEMMA JobUpdate ==
  ASSUME JobInv, NEW o \in Observers, NEW j, JobOK(j), SetJob(o, j)
  PROVE  JobInv'
<1>1. job' \in [Observers -> Jobs]
  BY DEF JobInv, JobTypes, JobOK, SetJob
<1>2. ASSUME NEW q \in Observers PROVE job'[q] = IF q = o THEN j ELSE job[q]
  BY DEF JobInv, JobTypes, SetJob
<1>3. QED
  BY <1>1, <1>2 DEF JobInv, JobTypes, JobHasRun, JobOK

LEMMA LaunchUpdate ==
  ASSUME launches \in [Runs -> [Launches -> Processes]],
         NEW r \in Runs, NEW l \in Launches, NEW p \in Processes,
         SetLaunch(r, l, p)
  PROVE  launches' \in [Runs -> [Launches -> Processes]]
BY DEF SetLaunch

LEMMA ReadStatesJob ==
  ASSUME SupervisorStateTypes, JobInv, NEW d \in Observers,
         NEW next \in {"adopt", "reconcile"}, NEW adopting \in BOOLEAN,
         ReadStates(d, next, adopting)
  PROVE  JobInv'
<1> DEFINE todo == RunsWith(runs, "running")
           j == [NoJob EXCEPT !.at = next, !.todo = todo, !.adopt = adopting,
                              !.snap = Snapshot(todo)]
<1>1. todo \in SUBSET Runs
  BY DEF RunsWith
<1>2. Snapshot(todo) \in [Runs -> RunState]
  BY SnapshotTyped DEF SupervisorStateTypes
<1>3. JobOK(j)
  BY <1>1, <1>2, NoJobTyped DEF JobOK, Jobs, InHand
<1>4. SetJob(d, j)
  BY DEF ReadStates
<1> HIDE DEF j
<1>5. QED
  BY <1>3, <1>4, JobUpdate

TypeInv ==
    /\ SupervisorStateTypes
    /\ JobInv

(* The observations of a daemon or a reader only fill its own job.         *)
LEMMA ObserveTypes ==
  ASSUME TypeInv, NEW o \in Observers, Observe(o)
  PROVE  TypeInv'
<1>0. job[o] \in Jobs /\ (job[o].at \in InHand => job[o].cur \in Runs)
  BY DEF TypeInv, JobInv, JobTypes, JobHasRun
<1>1. JobInv'
  <2>1. CASE ReadStatus(o)
    <3>1. PICK r \in Runs :
            SetJob(o, [job[o] EXCEPT !.cur = r, !.status = statusFile[r],
                  !.at = IF statusFile[r] = "none" THEN "agents" ELSE "apply"])
      BY <2>1 DEF ReadStatus
    <3>2. statusFile[r] \in Codes
      BY DEF TypeInv, SupervisorStateTypes
    <3>3. JobOK([job[o] EXCEPT !.cur = r, !.status = statusFile[r],
                  !.at = IF statusFile[r] = "none" THEN "agents" ELSE "apply"])
      BY <1>0, <3>2 DEF JobOK, Jobs
    <3>4. QED
      BY <3>1, <3>3, JobUpdate DEF TypeInv
  <2>2. CASE ReadAgents(o)
    <3>1. job[o].cur \in Runs
      BY <1>0, <2>2 DEF ReadAgents, InHand
    <3>2. JobOK([job[o] EXCEPT !.agents = agents[job[o].cur], !.at = "progress"])
      BY <1>0, <3>1 DEF JobOK, Jobs, TypeInv, SupervisorStateTypes
    <3>3. QED
      BY <2>2, <3>2, JobUpdate DEF ReadAgents, TypeInv
  <2>3. CASE ReadProgress(o)
    <3>1. job[o].cur \in Runs
      BY <1>0, <2>3 DEF ReadProgress, InHand
    <3>2. JobOK([job[o] EXCEPT !.journal = progress[job[o].cur], !.at = "pid"])
      BY <1>0, <3>1 DEF JobOK, Jobs, TypeInv, SupervisorStateTypes
    <3>3. QED
      BY <2>3, <3>2, JobUpdate DEF ReadProgress, TypeInv
  <2>4. CASE CheckPid(o)
    <3> DEFINE up == WrapperAlive(job[o].cur, job[o].snap[job[o].cur].pid)
    <3>1. job[o].cur \in Runs
      BY <1>0, <2>4 DEF CheckPid, InHand
    <3>2. up \in BOOLEAN
      BY DEF WrapperAlive
    <3>3. SetJob(o, [job[o] EXCEPT !.up = up, !.at = "apply"])
      BY <2>4 DEF CheckPid
    <3> HIDE DEF up
    <3>4. JobOK([job[o] EXCEPT !.up = up, !.at = "apply"])
      BY <1>0, <3>1, <3>2 DEF JobOK, Jobs
    <3>5. QED
      BY <3>3, <3>4, JobUpdate DEF TypeInv
  <2>5. QED
    BY <2>1, <2>2, <2>3, <2>4 DEF Observe
<1>2. SupervisorStateTypes'
  BY DEF TypeInv, SupervisorStateTypes, Observe, ReadStatus, ReadAgents,
         ReadProgress, CheckPid, fileVars, procVars, history
<1>3. QED
  BY <1>1, <1>2 DEF TypeInv

(* The job of a daemon after each of its other steps.                      *)
LEMMA DaemonJobs ==
  ASSUME TypeInv, NEW d \in Daemons,
         DaemonStep(d) \/ SpawnFails(d) \/ DaemonCrash(d) \/ StartDaemon(d)
  PROVE  JobInv'
<1>0. /\ JobInv /\ SupervisorStateTypes
      /\ d \in Observers
      /\ job[d] \in Jobs
      /\ job[d].at \in InHand => job[d].cur \in Runs
  BY DEF TypeInv, JobInv, JobTypes, JobHasRun, Observers
<1>a. JobOK(NoJob)
  BY NoJobTyped DEF JobOK, NoJob, InHand
<1>b. \A at \in {"start", "beat", "scan", "pick"} : JobOK([NoJob EXCEPT !.at = at])
  BY NoJobTyped DEF JobOK, Jobs, InHand
<1>c. JobOK(NextEntry(job[d]))
  BY <1>0, NextEntryTyped DEF JobOK
<1>d. UNCHANGED job => JobInv'
  BY <1>0 DEF JobInv, JobTypes, JobHasRun
<1>1. CASE Acquire(d)
  BY <1>0, <1>1, <1>b, <1>d, JobUpdate DEF Acquire
<1>2. CASE AdoptScan(d)
  BY <1>0, <1>2, ReadStatesJob DEF AdoptScan
<1>3. CASE AdoptRun(d)
  <2>1. JobOK([job[d] EXCEPT !.at = "reconcile"])
    BY <1>0 DEF JobOK, Jobs, InHand
  <2>2. QED
    BY <1>0, <1>3, <2>1, JobUpdate DEF AdoptRun
<1>4. CASE AdoptDone(d)
  BY <1>0, <1>4, <1>b, JobUpdate DEF AdoptDone
<1>5. CASE Heartbeat(d)
  BY <1>0, <1>5, <1>b, <1>d, JobUpdate DEF Heartbeat
<1>6. CASE Scan(d)
  BY <1>0, <1>6, ReadStatesJob DEF Scan
<1>7. CASE Observe(d)
  BY <1>0, <1>7, ObserveTypes DEF TypeInv
<1>8. CASE Apply(d)
  <2>1. JobOK([job[d] EXCEPT !.at = "spawn"])
    BY <1>0, <1>8 DEF Apply, JobOK, Jobs, InHand
  <2>2. SetJob(d, [job[d] EXCEPT !.at = "spawn"]) \/ SetJob(d, NextEntry(job[d]))
    BY <1>8 DEF Apply
  <2>3. QED
    BY <1>0, <2>1, <2>2, <1>c, JobUpdate
<1>9. CASE ReconcileDone(d)
  BY <1>0, <1>9, <1>b, JobUpdate DEF ReconcileDone
<1>10. CASE Pick(d)
  <2>1. CASE Claim(d)
    <3>1. PICK r \in Runs : SetJob(d, [NoJob EXCEPT !.at = "spawn", !.cur = r,
                                                    !.snap = Snapshot({r})])
      BY <2>1 DEF Claim
    <3>2. Snapshot({r}) \in [Runs -> RunState]
      BY <1>0, SnapshotTyped DEF SupervisorStateTypes
    <3>3. JobOK([NoJob EXCEPT !.at = "spawn", !.cur = r, !.snap = Snapshot({r})])
      BY <3>2, NoJobTyped DEF JobOK, Jobs
    <3>4. QED
      BY <1>0, <3>1, <3>3, JobUpdate
  <2>2. CASE Sleep(d)
    BY <1>0, <2>2, <1>b, JobUpdate DEF Sleep
  <2>3. CASE Leave(d)
    BY <1>0, <2>3, <1>a, JobUpdate DEF Leave
  <2>4. QED
    BY <1>10, <2>1, <2>2, <2>3 DEF Pick
<1>11. CASE Spawn(d)
  <2>1. PICK l \in Launches : SetJob(d, [job[d] EXCEPT !.launch = l, !.at = "record"])
    BY <1>11 DEF Spawn
  <2>2. l \in 0 .. MaxLaunches
    BY SupervisorAssumption DEF Launches
  <2>3. JobOK([job[d] EXCEPT !.launch = l, !.at = "record"])
    BY <1>0, <1>11, <2>2 DEF Spawn, JobOK, Jobs, InHand
  <2>4. QED
    BY <1>0, <2>1, <2>3, JobUpdate
<1>12. CASE SpawnFails(d)
  <2>1. 0 \in 0 .. MaxLaunches
    BY SupervisorAssumption
  <2>2. JobOK([job[d] EXCEPT !.launch = 0, !.at = "record"])
    BY <1>0, <1>12, <2>1 DEF SpawnFails, JobOK, Jobs, InHand
  <2>3. QED
    BY <1>0, <1>12, <2>2, JobUpdate DEF SpawnFails
<1>13. CASE Record(d)
  <2>1. \/ SetJob(d, NoJob)
        \/ SetJob(d, NextEntry(job[d]))
        \/ SetJob(d, [NoJob EXCEPT !.at = "beat"])
    BY <1>13 DEF Record
  <2>2. QED
    BY <1>0, <2>1, <1>a, <1>b, <1>c, JobUpdate
<1>14. CASE DaemonCrash(d)
  BY <1>0, <1>14, <1>a, JobUpdate DEF DaemonCrash
<1>15. CASE StartDaemon(d)
  BY <1>15, <1>d DEF StartDaemon, supVars
<1>16. QED
  BY <1>1, <1>2, <1>3, <1>4, <1>5, <1>6, <1>7, <1>8, <1>9, <1>10, <1>11, <1>12,
     <1>13, <1>14, <1>15 DEF DaemonStep

LEMMA DaemonTypes ==
  ASSUME TypeInv, NEW d \in Daemons,
         DaemonStep(d) \/ SpawnFails(d) \/ DaemonCrash(d) \/ StartDaemon(d)
  PROVE  TypeInv'
<1> DEFINE j == job[d]
           s == j.snap[j.cur]
<1>0. /\ SupervisorStateTypes
      /\ j \in Jobs
      /\ j.at \in InHand => j.cur \in Runs /\ s \in RunState
      /\ j.launch \in 0 .. MaxLaunches
  BY DEF TypeInv, JobInv, JobTypes, JobHasRun, Observers, Jobs
<1>1. JobInv'
  BY DaemonJobs
<1>2. SupervisorStateTypes'
  <2> USE DEF SupervisorStateTypes, fileVars, procVars, history
  <2>1. CASE Acquire(d) \/ AdoptScan(d) \/ AdoptDone(d) \/ Heartbeat(d) \/ Scan(d)
             \/ ReconcileDone(d) \/ Pick(d) \/ StartDaemon(d)
    BY <1>0, <2>1 DEF Acquire, AdoptScan, AdoptDone, Heartbeat, Scan,
                      ReconcileDone, Pick, StartDaemon, supVars
  <2>2. CASE Observe(d)
    BY <2>2, ObserveTypes DEF Observers, TypeInv
  <2>3. CASE AdoptRun(d)
    <3>1. \A r \in Runs : [j.snap[r] EXCEPT !.owner = d] \in RunState
      BY <1>0, OwnerTyped DEF Jobs
    <3>2. runs' \in [Runs -> RunState]
      BY <1>0, <2>3, <3>1 DEF AdoptRun
    <3>3. QED
      BY <1>0, <2>3, <3>2 DEF AdoptRun
  <2>4. CASE Apply(d)
    <3>1. j.cur \in Runs /\ s \in RunState
      BY <1>0, <2>4 DEF Apply, InHand
    <3>2. Reconciled(s, j, Verdict(s, j)) \in RunState
      BY <1>0, <3>1, ReconciledTyped, VerdictJournal
    <3>3. runs' = runs \/ runs' = [runs EXCEPT ![j.cur] = Reconciled(s, j, Verdict(s, j))]
      BY <2>4 DEF Apply
    <3>4. runs' \in [Runs -> RunState]
      BY <1>0, <3>1, <3>2, <3>3
    <3>5. QED
      BY <1>0, <2>4, <3>4 DEF Apply
  <2>5. CASE Spawn(d)
    <3>1. j.cur \in Runs
      BY <1>0, <2>5 DEF Spawn, InHand
    <3>2. PICK l \in Launches :
            SetLaunch(j.cur, l, [NoProcess EXCEPT !.node = "boot", !.wrap = "up"])
      BY <2>5 DEF Spawn
    <3>3. [NoProcess EXCEPT !.node = "boot", !.wrap = "up"] \in Processes
      BY DEF NoProcess, Processes
    <3>4. launches' \in [Runs -> [Launches -> Processes]]
      BY <1>0, <3>1, <3>2, <3>3, LaunchUpdate
    <3>5. statusFile' \in [Runs -> Codes]
      BY <1>0, <2>5, <3>1 DEF Spawn, Codes
    <3>6. QED
      BY <1>0, <2>5, <3>4, <3>5 DEF Spawn
  <2>6. CASE SpawnFails(d)
    BY <1>0, <2>6 DEF SpawnFails, Codes
  <2>7. CASE Record(d)
    <3>1. j.cur \in Runs /\ Started(d, s, j.launch) \in RunState
      BY <1>0, <2>7, StartedTyped DEF Record, InHand
    <3>2. runs' \in [Runs -> RunState]
      BY <1>0, <2>7, <3>1 DEF Record
    <3>3. QED
      BY <1>0, <2>7, <3>2 DEF Record
  <2>8. CASE DaemonCrash(d)
    <3>1. \A n \in Nat : n + 1 \in Nat
      OBVIOUS
    <3>2. orphans' = orphans \/ orphans' = [orphans EXCEPT ![job[d].cur] = @ + 1]
      BY <2>8 DEF DaemonCrash
    <3>3. orphans' \in [Runs -> Nat]
      BY <1>0, <3>1, <3>2
    <3>4. QED
      BY <1>0, <2>8, <3>3 DEF DaemonCrash
  <2>9. QED
    BY <2>1, <2>2, <2>3, <2>4, <2>5, <2>6, <2>7, <2>8 DEF DaemonStep
<1>3. QED
  BY <1>1, <1>2 DEF TypeInv

LEMMA ReaderTypes ==
  ASSUME TypeInv, NEW o \in Readers, ReaderStep(o)
  PROVE  TypeInv'
<1>0. o \in Observers /\ JobInv /\ SupervisorStateTypes
  BY DEF Observers, TypeInv
<1>1. ASSUME NEW r \in Runs, ReadState(o, r) PROVE TypeInv'
  <2>1. Snapshot({r}) \in [Runs -> RunState]
    BY <1>0, SnapshotTyped DEF SupervisorStateTypes
  <2>2. JobOK([NoJob EXCEPT !.at = "reconcile", !.todo = {r}, !.snap = Snapshot({r})])
    BY <2>1, NoJobTyped DEF JobOK, Jobs, InHand
  <2>3. JobInv'
    BY <1>0, <1>1, <2>2, JobUpdate DEF ReadState
  <2>4. QED
    BY <1>0, <1>1, <2>3
       DEF ReadState, TypeInv, SupervisorStateTypes, fileVars, procVars, history
<1>2. CASE ReaderApply(o)
  <2> DEFINE j == job[o]
             s == j.snap[j.cur]
             v == ReadVerdict(s, j)
  <2>1. j \in Jobs /\ j.cur \in Runs /\ s \in RunState
    BY <1>0, <1>2 DEF ReaderApply, InHand, JobInv, JobTypes, JobHasRun, Jobs
  <2>2. Reconciled(s, j, v) \in RunState
    BY <2>1, ReconciledTyped, VerdictJournal
  <2>3. runs' = runs \/ runs' = [runs EXCEPT ![j.cur] = Reconciled(s, j, v)]
    BY <1>2 DEF ReaderApply
  <2>4. runs' \in [Runs -> RunState]
    BY <1>0, <2>1, <2>2, <2>3 DEF SupervisorStateTypes
  <2>5. JobOK(NoJob)
    BY NoJobTyped DEF JobOK, NoJob, InHand
  <2>6. JobInv'
    BY <1>0, <1>2, <2>5, JobUpdate DEF ReaderApply
  <2>a. runMishaps' \in SUBSET RunMishapKinds
    <3>1. WriteMishaps(o, j.cur, Reconciled(s, j, v)) \in SUBSET RunMishapKinds
      BY DEF WriteMishaps
    <3>2. \/ runMishaps' = runMishaps
          \/ runMishaps' = runMishaps \cup WriteMishaps(o, j.cur, Reconciled(s, j, v))
      BY <1>2 DEF ReaderApply
    <3> HIDE DEF j, s, v
    <3>3. QED
      BY <1>0, <3>1, <3>2 DEF SupervisorStateTypes
  <2>7. QED
    BY <1>0, <1>2, <2>4, <2>6, <2>a DEF ReaderApply, TypeInv, SupervisorStateTypes, procVars, history
<1>3. QED
  BY <1>0, <1>1, <1>2, ObserveTypes DEF ReaderStep

LEMMA LauncherTypes ==
  ASSUME TypeInv, NEW r \in Runs, NEW l \in Launches,
         LauncherStep(r, l) \/ Kill(r, l)
  PROVE  TypeInv'
<1> DEFINE p == launches[r][l]
<1>0. SupervisorStateTypes /\ JobInv /\ p \in Processes
  BY DEF TypeInv, SupervisorStateTypes
<1>1. JobInv'
  BY <1>0 DEF JobInv, JobTypes, JobHasRun, LauncherStep, LauncherAdvances, LauncherStarts,
     LauncherRefused, LaunchAgents, Finalize, LauncherExits, WrapperReports, Kill
<1>2. launches' \in [Runs -> [Launches -> Processes]]
  <2>1. UNCHANGED launches => launches' \in [Runs -> [Launches -> Processes]]
    BY <1>0 DEF SupervisorStateTypes
  <2>2. ASSUME NEW q \in Processes, SetLaunch(r, l, q)
        PROVE  launches' \in [Runs -> [Launches -> Processes]]
    BY <1>0, <2>2, LaunchUpdate DEF SupervisorStateTypes
  <2>3. CASE LauncherStarts(r, l) \/ LauncherRefused(r, l) \/ LauncherExits(r, l)
    <3>1. /\ [p EXCEPT !.node = "work"] \in Processes
          /\ [p EXCEPT !.node = "dead", !.code = "refused"] \in Processes
          /\ [p EXCEPT !.node = "dead"] \in Processes
      BY <1>0 DEF Processes
    <3>2. QED
      BY <2>2, <2>3, <3>1 DEF LauncherStarts, LauncherRefused, LauncherExits
  <2>4. ASSUME NEW code \in {"ok", "err"}, Finalize(r, l, code)
        PROVE  launches' \in [Runs -> [Launches -> Processes]]
    <3>1. [p EXCEPT !.node = "final", !.code = code, !.won = (code = "ok")] \in Processes
      BY <1>0 DEF Processes
    <3>2. QED
      BY <2>2, <2>4, <3>1 DEF Finalize
  <2>5. CASE WrapperReports(r, l)
    <3>1. [p EXCEPT !.wrap = "down"] \in Processes
      BY <1>0 DEF Processes
    <3>2. QED
      BY <2>2, <2>5, <3>1 DEF WrapperReports
  <2>6. CASE Kill(r, l)
    <3>1. NodeGone(p) \in Processes
      BY <1>0 DEF NodeGone, Processes
    <3>2. WrapperGone(p) \in Processes /\ WrapperGone(NodeGone(p)) \in Processes
      BY <1>0, <3>1 DEF WrapperGone, Processes
    <3>3. QED
      BY <2>2, <2>6, <3>1, <3>2 DEF Kill
  <2>7. QED
    BY <2>1, <2>3, <2>4, <2>5, <2>6 DEF LauncherStep, LauncherAdvances, LaunchAgents
<1>3. SupervisorStateTypes'
  <2> USE <1>0, <1>2 DEF SupervisorStateTypes, fileVars, history, RunMishapKinds, Journals, Codes, Runtimes
  <2>1. CASE LauncherStarts(r, l)
    BY <2>1 DEF LauncherStarts
  <2>2. CASE LauncherRefused(r, l) \/ LauncherExits(r, l) \/ Kill(r, l)
    BY <2>2 DEF LauncherRefused, LauncherExits, Kill
  <2>3. CASE LaunchAgents(r, l)
    BY <2>3 DEF LaunchAgents
  <2>4. ASSUME NEW code \in {"ok", "err"}, Finalize(r, l, code)
        PROVE  SupervisorStateTypes'
    BY <2>4 DEF Finalize
  <2>5. CASE WrapperReports(r, l)
    BY <2>5 DEF WrapperReports
  <2>6. QED
    BY <2>1, <2>2, <2>3, <2>4, <2>5 DEF LauncherStep, LauncherAdvances
<1>4. QED
  BY <1>1, <1>3 DEF TypeInv

LEMMA TypeInvStep == TypeInv /\ [Next]_vars => TypeInv'
<1> SUFFICES ASSUME TypeInv, [Next]_vars PROVE TypeInv'
  OBVIOUS
<1> USE DEF TypeInv, SupervisorStateTypes, JobInv, JobTypes, JobHasRun, fileVars, procVars, history
<1>1. ASSUME NEW r \in Runs, Submit(r) PROVE TypeInv'
  <2>1. \A s \in RunState : [s EXCEPT !.status = "pending"] \in RunState
    BY DEF RunState
  <2>2. [runs[r] EXCEPT !.status = "pending"] \in RunState
    BY <2>1
  <2>3. QED
    BY <1>1, <2>2 DEF Submit
<1>2. ASSUME NEW r \in Runs, EnsureSupervisorRunning(r) \/ AgentsEnd(r) PROVE TypeInv'
  BY <1>2 DEF EnsureSupervisorRunning, AgentsEnd, Runtimes
<1>3. ASSUME NEW d \in Daemons,
             StartDaemon(d) \/ DaemonStep(d) \/ SpawnFails(d) \/ DaemonCrash(d)
      PROVE  TypeInv'
  BY <1>3, DaemonTypes
<1>4. ASSUME NEW o \in Readers, ReaderStep(o) PROVE TypeInv'
  BY <1>4, ReaderTypes
<1>5. ASSUME NEW r \in Runs, NEW l \in Launches, LauncherStep(r, l) \/ Kill(r, l)
      PROVE  TypeInv'
  BY <1>5, LauncherTypes
<1>6. CASE LeaseLapse
  BY <1>6 DEF LeaseLapse, supVars
<1>7. CASE UNCHANGED vars
  BY <1>7 DEF vars, supVars, fileVars, procVars, history
<1>8. QED
  BY <1>1, <1>2, <1>3, <1>4, <1>5, <1>6, <1>7 DEF Next

LEMMA TypeInvInit == Init => TypeInv
<1> SUFFICES ASSUME Init PROVE TypeInv
  OBVIOUS
<1>1. NoProcess \in Processes
  BY DEF NoProcess, Processes
<1>2. NoJob.at \notin InHand
  BY DEF NoJob, InHand
<1>3. QED
  BY <1>1, <1>2, NoJobTyped
     DEF Init, TypeInv, SupervisorStateTypes, JobInv, JobTypes, JobHasRun,
         Codes, Journals, Runtimes

(* Every variable of the supervisor keeps its type, whatever fails.        *)
THEOREM SupervisorTypeCorrect == Spec => []SupervisorTypeOK
<1>1. TypeInv /\ LockTypeOK => SupervisorTypeOK
  BY DEF TypeInv, SupervisorStateTypes, JobInv, JobTypes, SupervisorTypeOK
<1>2. Spec => []TypeInv
  BY TypeInvInit, TypeInvStep, PTL DEF Spec
<1>3. Spec => []LockTypeOK
  BY SupervisorRefinesLock, LockTypeCorrect, PTL DEF LockRefined
<1>4. QED
  BY <1>1, <1>2, <1>3, PTL

-----------------------------------------------------------------------------
(***************************************************************************)
(* No run is reported completed without a launcher that finished all its   *)
(* waves.  The report travels: launcher, journal or exit code, status      *)
(* file, a process's locals, state.json, and from there into the stale     *)
(* copies other processes write back.  The invariant says that each of     *)
(* these carries a success only for a run that has one, and success is     *)
(* never undone.                                                           *)
(***************************************************************************)

LaunchEvidence ==
    \A r \in Runs, l \in Launches :
        /\ launches[r][l].won => launches[r][l].node \in {"final", "dead"}
        /\ launches[r][l].code = "ok" => launches[r][l].won

FileEvidence ==
    \A r \in Runs :
        /\ runs[r].status = "completed" => Won(r)
        /\ statusFile[r] = "ok"         => Won(r)
        /\ progress[r] = "completed"    => Won(r)

(* What a process read of another run is gone before it reads this one's.  *)
Evident(j) ==
    /\ \A r \in Runs : j.snap[r].status = "completed" => Won(r)
    /\ j.status = "ok"         => j.at \in InHand /\ Won(j.cur)
    /\ j.journal = "completed" => j.at \in InHand /\ Won(j.cur)

JobEvidence == \A o \in Observers : Evident(job[o])

EvidenceInv == TypeInv /\ LaunchEvidence /\ FileEvidence /\ JobEvidence

WonStays == \A r \in Runs : Won(r) => Won(r)'

-----------------------------------------------------------------------------
(* Success is never undone: a launch's record is replaced only when there  *)
(* was no launch.                                                          *)
LEMMA SetLaunchKeepsWon ==
  ASSUME TypeInv, LaunchEvidence, NEW r \in Runs, NEW l \in Launches,
         NEW p \in Processes, SetLaunch(r, l, p),
         launches[r][l].won => p.won
  PROVE  WonStays
<1>1. \A q \in Runs, k \in Launches : launches[q][k].won => launches'[q][k].won
  BY DEF SetLaunch, TypeInv, SupervisorStateTypes
<1>2. QED
  BY <1>1 DEF WonStays, Won

LEMMA SetLaunchKeepsEvidence ==
  ASSUME TypeInv, LaunchEvidence, NEW r \in Runs, NEW l \in Launches,
         NEW p \in Processes, SetLaunch(r, l, p),
         p.won => p.node \in {"final", "dead"},
         p.code = "ok" => p.won
  PROVE  LaunchEvidence'
BY DEF SetLaunch, LaunchEvidence, TypeInv, SupervisorStateTypes

LEMMA LauncherEvidence ==
  ASSUME EvidenceInv, NEW r \in Runs, NEW l \in Launches,
         LauncherStep(r, l) \/ Kill(r, l)
  PROVE  WonStays /\ LaunchEvidence'
<1> DEFINE p == launches[r][l]
<1>0. /\ TypeInv /\ LaunchEvidence /\ p \in Processes
      /\ p.won => p.node \in {"final", "dead"}
      /\ p.code = "ok" => p.won
  BY DEF EvidenceInv, TypeInv, SupervisorStateTypes, LaunchEvidence
<1>1. ASSUME NEW q \in Processes, SetLaunch(r, l, q), p.won => q.won,
             q.won => q.node \in {"final", "dead"}, q.code = "ok" => q.won
      PROVE  WonStays /\ LaunchEvidence'
  BY <1>0, <1>1, SetLaunchKeepsWon, SetLaunchKeepsEvidence
<1>2. UNCHANGED launches => WonStays /\ LaunchEvidence'
  BY <1>0 DEF WonStays, Won, LaunchEvidence
<1>3. CASE LauncherStarts(r, l)
  <2>1. p.node = "boot" /\ SetLaunch(r, l, [p EXCEPT !.node = "work"])
    BY <1>3 DEF LauncherStarts
  <2>2. QED
    BY <1>0, <1>1, <2>1 DEF Processes
<1>4. CASE LauncherRefused(r, l)
  <2>1. /\ p.node = "boot"
        /\ SetLaunch(r, l, [p EXCEPT !.node = "dead", !.code = "refused"])
    BY <1>4 DEF LauncherRefused
  <2>2. QED
    BY <1>0, <1>1, <2>1 DEF Processes
<1>5. ASSUME NEW code \in {"ok", "err"}, Finalize(r, l, code)
      PROVE  WonStays /\ LaunchEvidence'
  <2> DEFINE q == [p EXCEPT !.node = "final", !.code = code, !.won = (code = "ok")]
  <2>1. p.node = "work" /\ SetLaunch(r, l, q)
    BY <1>5 DEF Finalize
  <2>2. q \in Processes /\ q.node = "final" /\ q.code = code /\ q.won = (code = "ok")
    BY <1>0 DEF Processes
  <2> HIDE DEF q
  <2>3. QED
    BY <1>0, <1>1, <2>1, <2>2
<1>6. CASE LauncherExits(r, l)
  <2>1. SetLaunch(r, l, [p EXCEPT !.node = "dead"])
    BY <1>6 DEF LauncherExits
  <2>2. QED
    BY <1>0, <1>1, <2>1 DEF Processes
<1>7. CASE WrapperReports(r, l)
  <2>1. SetLaunch(r, l, [p EXCEPT !.wrap = "down"])
    BY <1>7 DEF WrapperReports
  <2>2. QED
    BY <1>0, <1>1, <2>1 DEF Processes
<1>8. CASE Kill(r, l)
  <2>1. \A q \in Processes :
          /\ WrapperGone(q) \in Processes
          /\ WrapperGone(q).node = q.node /\ WrapperGone(q).won = q.won
          /\ WrapperGone(q).code = q.code
    BY DEF WrapperGone, Processes
  <2>2. /\ NodeGone(p) \in Processes
        /\ NodeGone(p).node = "dead" /\ NodeGone(p).won = p.won
        /\ NodeGone(p).code = "ok" => p.code = "ok"
    BY <1>0 DEF NodeGone, Processes
  <2>3. \/ SetLaunch(r, l, NodeGone(p))
        \/ SetLaunch(r, l, WrapperGone(NodeGone(p)))
        \/ SetLaunch(r, l, WrapperGone(p))
    BY <1>8 DEF Kill
  <2>4. QED
    BY <1>0, <1>1, <2>1, <2>2, <2>3
<1>9. QED
  BY <1>2, <1>3, <1>4, <1>5, <1>6, <1>7, <1>8 DEF LauncherStep, LauncherAdvances, LaunchAgents

LEMMA LaunchesEvidence ==
  ASSUME EvidenceInv, [Next]_vars
  PROVE  WonStays /\ LaunchEvidence'
<1>1. UNCHANGED launches => WonStays /\ LaunchEvidence'
  BY DEF WonStays, Won, LaunchEvidence, EvidenceInv
<1>2. ASSUME NEW d \in Daemons, Spawn(d) PROVE WonStays /\ LaunchEvidence'
  <2> DEFINE r == job[d].cur
             p == [NoProcess EXCEPT !.node = "boot", !.wrap = "up"]
  <2>1. r \in Runs
    BY <1>2 DEF Spawn, InHand, EvidenceInv, TypeInv, JobInv, JobHasRun, Observers
  <2>2. PICK l \in Launches : l \notin Launched(r) /\ SetLaunch(r, l, p)
    BY <1>2 DEF Spawn, Least
  <2>3. p \in Processes /\ p.code = "none" /\ ~p.won
    BY DEF NoProcess, Processes
  <2>4. ~launches[r][l].won
    BY <2>1, <2>2 DEF Launched, EvidenceInv, LaunchEvidence
  <2> HIDE DEF r, p
  <2>5. QED
    BY <2>1, <2>2, <2>3, <2>4, SetLaunchKeepsWon, SetLaunchKeepsEvidence
       DEF EvidenceInv
<1>3. ASSUME NEW d \in Daemons,
             StartDaemon(d) \/ DaemonStep(d) \/ SpawnFails(d) \/ DaemonCrash(d)
      PROVE  WonStays /\ LaunchEvidence'
  BY <1>1, <1>2, <1>3
     DEF StartDaemon, SpawnFails, DaemonCrash, DaemonStep, Acquire, AdoptScan,
         AdoptRun, AdoptDone, Heartbeat, Scan, Observe, ReadStatus, ReadAgents,
         ReadProgress, CheckPid, Apply, ReconcileDone, Pick, Record, procVars,
         supVars
<1>4. ASSUME NEW o \in Readers, ReaderStep(o) PROVE WonStays /\ LaunchEvidence'
  BY <1>1, <1>4 DEF ReaderStep, ReadState, Observe, ReadStatus, ReadAgents,
                    ReadProgress, CheckPid, ReaderApply, procVars
<1>5. ASSUME NEW r \in Runs, Submit(r) \/ EnsureSupervisorRunning(r) \/ AgentsEnd(r)
      PROVE  WonStays /\ LaunchEvidence'
  BY <1>1, <1>5 DEF Submit, EnsureSupervisorRunning, AgentsEnd, procVars
<1>6. CASE LeaseLapse \/ UNCHANGED vars
  BY <1>1, <1>6 DEF LeaseLapse, supVars, fileVars, procVars, vars
<1>7. QED
  BY <1>3, <1>4, <1>5, <1>6, LauncherEvidence DEF Next
-----------------------------------------------------------------------------
(* What a step stores in one process's locals is evident before it, hence  *)
(* after it.                                                               *)
LEMMA SetJobKeepsEvidence ==
  ASSUME EvidenceInv, WonStays, NEW o \in Observers, NEW j, JobOK(j),
         Evident(j), SetJob(o, j)
  PROVE  JobEvidence'
<1>1. \A q \in Observers : job'[q] = IF q = o THEN j ELSE job[q]
  BY DEF SetJob, EvidenceInv, TypeInv, JobInv, JobTypes
<1>2. \A q \in Observers : JobOK(job'[q]) /\ Evident(job'[q])
  BY <1>1 DEF EvidenceInv, JobEvidence, TypeInv, JobInv, JobTypes, JobHasRun, JobOK
<1>3. QED
  BY <1>2 DEF JobEvidence, Evident, WonStays, JobOK

LEMMA NoJobEvident == Evident(NoJob) /\ JobOK(NoJob)
BY NoJobTyped DEF Evident, NoJob, NoRun, JobOK, InHand

LEMMA SnapshotEvident ==
  ASSUME FileEvidence, NEW S
  PROVE  \A r \in Runs : Snapshot(S)[r].status = "completed" => Won(r)
BY DEF Snapshot, FileEvidence, NoRun

LEMMA ReconciledEvident ==
  ASSUME NEW r \in Runs, NEW s \in RunState, NEW j \in Jobs, NEW v,
         v = Verdict(s, j) \/ v = ReadVerdict(s, j),
         s.status = "completed" => Won(r),
         j.status = "ok" => Won(r), j.journal = "completed" => Won(r)
  PROVE  Reconciled(s, j, v).status = "completed" => Won(r)
<1>1. CASE v = "status"
  BY <1>1 DEF Reconciled, SettledByStatus, RunState
<1>2. CASE v = "journal"
  BY <1>2 DEF Reconciled, SettledByJournal, RunState
<1>3. CASE v = "lost"
  BY <1>3 DEF Reconciled, RunState
<1>4. CASE v \notin {"status", "journal", "lost"}
  BY <1>4, ReconciledTyped
<1>5. QED
  BY <1>1, <1>2, <1>3, <1>4

(* The files after each step.                                              *)
LEMMA FilesEvidence ==
  ASSUME EvidenceInv, [Next]_vars, WonStays
  PROVE  FileEvidence'
<1>0. TypeInv /\ TypeInv' /\ FileEvidence /\ SupervisorStateTypes /\ JobInv
  BY TypeInvStep DEF EvidenceInv, TypeInv
<1> DEFINE Old == /\ \A r \in Runs : runs'[r].status = "completed" => Won(r)
                  /\ \A r \in Runs : statusFile'[r] = "ok"         => Won(r)
                  /\ \A r \in Runs : progress'[r] = "completed"    => Won(r)
<1>1. Old => FileEvidence'
  BY DEF WonStays, FileEvidence
<1>2. UNCHANGED <<runs, statusFile, progress>> => Old
  BY <1>0 DEF FileEvidence
<1>3. ASSUME NEW r \in Runs, NEW s \in RunState, s.status = "completed" => Won(r),
             runs' = [runs EXCEPT ![r] = s], UNCHANGED <<statusFile, progress>>
      PROVE  Old
  BY <1>0, <1>3 DEF FileEvidence, SupervisorStateTypes
<1> HIDE DEF Old
<1>4. ASSUME NEW o \in Observers
      PROVE  LET j == job[o] IN
             /\ j \in Jobs
             /\ j.launch \in 0 .. MaxLaunches
             /\ \A r \in Runs : /\ j.snap[r] \in RunState
                                /\ j.snap[r].status = "completed" => Won(r)
             /\ j.at \in InHand => /\ j.cur \in Runs
                                   /\ j.status = "ok" => Won(j.cur)
                                   /\ j.journal = "completed" => Won(j.cur)
  BY <1>0 DEF JobInv, JobTypes, JobHasRun, EvidenceInv, JobEvidence, Evident, Jobs
<1>5. ASSUME NEW o \in Observers, NEW v,
             job[o].at \in InHand,
             \/ v = Verdict(job[o].snap[job[o].cur], job[o])
             \/ v = ReadVerdict(job[o].snap[job[o].cur], job[o]),
             runs' = [runs EXCEPT ![job[o].cur] =
                          Reconciled(job[o].snap[job[o].cur], job[o], v)],
             UNCHANGED <<statusFile, progress>>
      PROVE  Old
  <2> DEFINE j == job[o]
             s == j.snap[j.cur]
  <2>1. j.cur \in Runs /\ s \in RunState /\ j \in Jobs
    BY <1>4, <1>5
  <2>2. Reconciled(s, j, v) \in RunState
    BY <1>5, <2>1, ReconciledTyped, VerdictJournal
  <2>3. Reconciled(s, j, v).status = "completed" => Won(j.cur)
    BY <1>4, <1>5, <2>1, ReconciledEvident
  <2>4. QED
    BY <1>3, <1>5, <2>1, <2>2, <2>3
<1>6. ASSUME NEW d \in Daemons, DaemonStep(d) PROVE FileEvidence'
  <2>0. d \in Observers
    BY DEF Observers
  <2>1. CASE Acquire(d) \/ AdoptScan(d) \/ AdoptDone(d) \/ Heartbeat(d) \/ Scan(d)
             \/ ReconcileDone(d) \/ Pick(d) \/ Observe(d)
    BY <2>1, <1>1, <1>2
       DEF Acquire, AdoptScan, AdoptDone, Heartbeat, Scan, ReconcileDone, Pick,
           Observe, ReadStatus, ReadAgents, ReadProgress, CheckPid, fileVars, procVars, history
  <2>2. CASE AdoptRun(d)
    <3>1. PICK r \in Runs : runs' = [runs EXCEPT ![r] = [job[d].snap[r] EXCEPT !.owner = d]]
      BY <2>2 DEF AdoptRun
    <3>2. [job[d].snap[r] EXCEPT !.owner = d] \in RunState
      BY <1>4, <2>0, OwnerTyped
    <3>3. [job[d].snap[r] EXCEPT !.owner = d].status = job[d].snap[r].status
      BY <1>4, <2>0 DEF RunState
    <3>4. UNCHANGED <<statusFile, progress>>
      BY <2>2 DEF AdoptRun, procVars
    <3>5. Old
      BY <1>3, <1>4, <2>0, <3>1, <3>2, <3>3, <3>4
    <3>6. QED
      BY <1>1, <3>5
  <2>3. CASE Apply(d)
    <3> DEFINE v == Verdict(job[d].snap[job[d].cur], job[d])
    <3>1. /\ job[d].at \in InHand
          /\ UNCHANGED <<statusFile, progress>>
          /\ \/ runs' = runs
             \/ runs' = [runs EXCEPT ![job[d].cur] =
                            Reconciled(job[d].snap[job[d].cur], job[d], v)]
      BY <2>3 DEF Apply, InHand, procVars
    <3> HIDE DEF v
    <3>2. v = Verdict(job[d].snap[job[d].cur], job[d])
      BY DEF v
    <3>3. QED
      BY <1>1, <1>2, <1>5, <2>0, <3>1, <3>2
  <2>4. CASE Spawn(d)
    <3>1. /\ statusFile' = [statusFile EXCEPT ![job[d].cur] = "none"]
          /\ UNCHANGED <<runs, progress>>
      BY <2>4 DEF Spawn
    <3>2. Old
      BY <1>0, <3>1 DEF Old, FileEvidence, SupervisorStateTypes
    <3>3. QED
      BY <1>1, <3>2
  <2>5. CASE Record(d)
    <3> DEFINE j == job[d]
               s == j.snap[j.cur]
    <3>1. /\ runs' = [runs EXCEPT ![j.cur] = Started(d, s, j.launch)]
          /\ UNCHANGED <<statusFile, progress>>
          /\ j.at \in InHand
      BY <2>5 DEF Record, InHand, procVars
    <3>2. j.cur \in Runs /\ s \in RunState /\ Started(d, s, j.launch) \in RunState
      BY <1>4, <2>0, <3>1, StartedTyped
    <3>3. Started(d, s, j.launch).status = "running"
      BY <3>2 DEF Started, RunState
    <3>4. Old
      BY <1>3, <3>1, <3>2, <3>3
    <3>5. QED
      BY <1>1, <3>4
  <2>6. QED
    BY <1>6, <2>1, <2>2, <2>3, <2>4, <2>5 DEF DaemonStep
<1>7. ASSUME NEW d \in Daemons, SpawnFails(d) PROVE FileEvidence'
  <2>1. /\ statusFile' = [statusFile EXCEPT ![job[d].cur] = "none"]
        /\ UNCHANGED <<runs, progress>>
    BY <1>7 DEF SpawnFails, procVars
  <2>2. Old
    BY <1>0, <2>1 DEF Old, FileEvidence, SupervisorStateTypes
  <2>3. QED
    BY <1>1, <2>2
<1>8. ASSUME NEW d \in Daemons, StartDaemon(d) \/ DaemonCrash(d) PROVE FileEvidence'
  BY <1>1, <1>2, <1>8 DEF StartDaemon, DaemonCrash, supVars, fileVars, procVars, history
<1>9. ASSUME NEW o \in Readers, ReaderStep(o) PROVE FileEvidence'
  <2>1. ASSUME NEW r \in Runs, ReadState(o, r) PROVE FileEvidence'
    BY <1>1, <1>2, <2>1 DEF ReadState, fileVars, procVars, history
  <2>2. CASE Observe(o)
    BY <1>1, <1>2, <2>2 DEF Observe, ReadStatus, ReadAgents, ReadProgress, CheckPid,
                            fileVars, procVars, history
  <2>3. CASE ReaderApply(o)
    <3> DEFINE v == ReadVerdict(job[o].snap[job[o].cur], job[o])
    <3>1. /\ job[o].at \in InHand
          /\ UNCHANGED <<statusFile, progress>>
          /\ \/ runs' = runs
             \/ runs' = [runs EXCEPT ![job[o].cur] =
                            Reconciled(job[o].snap[job[o].cur], job[o], v)]
      BY <2>3 DEF ReaderApply, InHand, procVars
    <3> HIDE DEF v
    <3>2. v = ReadVerdict(job[o].snap[job[o].cur], job[o])
      BY DEF v
    <3>3. o \in Observers
      BY DEF Observers
    <3>4. QED
      BY <1>1, <1>2, <1>5, <3>1, <3>2, <3>3
  <2>4. QED
    BY <1>9, <2>1, <2>2, <2>3 DEF ReaderStep
<1>10. ASSUME NEW r \in Runs, Submit(r) PROVE FileEvidence'
  <2>1. [runs[r] EXCEPT !.status = "pending"] \in RunState
    <3>1. runs[r] \in RunState
      BY <1>0 DEF SupervisorStateTypes
    <3>2. QED
      BY <3>1 DEF RunState
  <2>2. [runs[r] EXCEPT !.status = "pending"].status = "pending"
    <3>1. runs[r] \in RunState
      BY <1>0 DEF SupervisorStateTypes
    <3>2. QED
      BY <3>1 DEF RunState
  <2>3. Old
    BY <1>3, <1>10, <2>1, <2>2 DEF Submit, procVars
  <2>4. QED
    BY <1>1, <2>3
<1>11. ASSUME NEW r \in Runs, EnsureSupervisorRunning(r) \/ AgentsEnd(r)
       PROVE  FileEvidence'
  BY <1>1, <1>2, <1>11 DEF EnsureSupervisorRunning, AgentsEnd, fileVars, procVars, history
<1>12. ASSUME NEW r \in Runs, NEW l \in Launches, LauncherStep(r, l) \/ Kill(r, l)
       PROVE  FileEvidence'
  <2> DEFINE p == launches[r][l]
  <2>1. CASE LauncherStarts(r, l) \/ LaunchAgents(r, l)
    <3>1. Old
      BY <1>0, <2>1 DEF LauncherStarts, LaunchAgents, fileVars, Old, FileEvidence,
                        SupervisorStateTypes
    <3>2. QED
      BY <1>1, <3>1
  <2>2. CASE LauncherRefused(r, l) \/ LauncherExits(r, l) \/ Kill(r, l)
    BY <1>1, <1>2, <2>2 DEF LauncherRefused, LauncherExits, Kill, fileVars
  <2>3. ASSUME NEW code \in {"ok", "err"}, Finalize(r, l, code) PROVE FileEvidence'
    <3> DEFINE q == [p EXCEPT !.node = "final", !.code = code, !.won = (code = "ok")]
    <3>1. /\ SetLaunch(r, l, q) /\ UNCHANGED <<runs, statusFile>>
          /\ progress' = [progress EXCEPT
                ![r] = IF code = "ok" THEN "completed" ELSE "failed"]
      BY <2>3 DEF Finalize, fileVars
    <3>a. p \in Processes
      BY <1>0 DEF SupervisorStateTypes
    <3>2. q \in Processes /\ q.won = (code = "ok")
      BY <3>a DEF Processes
    <3>3. launches'[r][l] = q
      BY <1>0, <3>1 DEF SetLaunch, SupervisorStateTypes
    <3>4. code = "ok" => Won(r)'
      BY <3>2, <3>3 DEF Won
    <3>5. \A k \in Runs : progress'[k] = "completed" => Won(k)'
      BY <1>0, <3>1, <3>4 DEF WonStays, FileEvidence, SupervisorStateTypes
    <3>6. QED
      BY <1>0, <3>1, <3>5 DEF WonStays, FileEvidence
  <2>4. CASE WrapperReports(r, l)
    <3>1. p.code = "ok" => Won(r)
      BY DEF Won, EvidenceInv, LaunchEvidence
    <3>2. /\ statusFile' = [statusFile EXCEPT ![r] = IF p.code = "ok" THEN "ok" ELSE "err"]
          /\ UNCHANGED <<runs, progress>>
      BY <2>4 DEF WrapperReports
    <3>3. Old
      BY <1>0, <3>1, <3>2 DEF Old, FileEvidence, SupervisorStateTypes
    <3>4. QED
      BY <1>1, <3>3
  <2>5. QED
    BY <1>12, <2>1, <2>2, <2>3, <2>4 DEF LauncherStep, LauncherAdvances
<1>13. CASE LeaseLapse \/ UNCHANGED vars
  BY <1>1, <1>2, <1>13 DEF LeaseLapse, supVars, fileVars, procVars, vars
<1>14. QED
  BY <1>6, <1>7, <1>8, <1>9, <1>10, <1>11, <1>12, <1>13 DEF Next

(* What every process holds after each step.                               *)
LEMMA ObserveEvidence ==
  ASSUME EvidenceInv, WonStays, NEW o \in Observers, Observe(o)
  PROVE  JobEvidence'
<1>0. /\ FileEvidence /\ SupervisorStateTypes
      /\ job[o] \in Jobs /\ Evident(job[o])
      /\ job[o].at \in InHand => job[o].cur \in Runs
  BY DEF EvidenceInv, TypeInv, JobInv, JobTypes, JobHasRun, JobEvidence
<1>1. CASE ReadStatus(o)
  <2>1. PICK r \in Runs :
          SetJob(o, [job[o] EXCEPT !.cur = r, !.status = statusFile[r],
                !.at = IF statusFile[r] = "none" THEN "agents" ELSE "apply"])
    BY <1>1 DEF ReadStatus
  <2> DEFINE j == [job[o] EXCEPT !.cur = r, !.status = statusFile[r],
                !.at = IF statusFile[r] = "none" THEN "agents" ELSE "apply"]
  <2>2. /\ j.snap = job[o].snap /\ j.status = statusFile[r] /\ j.cur = r
        /\ j.at \in InHand /\ j.journal = job[o].journal
    BY <1>0 DEF Jobs, InHand
  <2>3. job[o].at \notin InHand
    BY <1>1 DEF ReadStatus, InHand
  <2>4. statusFile[r] \in Codes
    BY <1>0 DEF SupervisorStateTypes
  <2>5. JobOK(j)
    BY <1>0, <2>4 DEF JobOK, Jobs
  <2>6. SetJob(o, j)
    BY <2>1
  <2> HIDE DEF j
  <2>7. Evident(j)
    BY <1>0, <2>2, <2>3 DEF Evident, FileEvidence
  <2>8. QED
    BY <2>5, <2>6, <2>7, SetJobKeepsEvidence
<1>2. CASE ReadAgents(o)
  <2> DEFINE j == [job[o] EXCEPT !.agents = agents[job[o].cur], !.at = "progress"]
  <2>1. SetJob(o, j) /\ job[o].cur \in Runs
    BY <1>0, <1>2 DEF ReadAgents, InHand
  <2>2. /\ j.snap = job[o].snap /\ j.status = job[o].status /\ j.cur = job[o].cur
        /\ j.at \in InHand /\ j.journal = job[o].journal
    BY <1>0 DEF Jobs, InHand
  <2>3. JobOK(j)
    BY <1>0, <2>1 DEF JobOK, Jobs, SupervisorStateTypes
  <2> HIDE DEF j
  <2>4. Evident(j)
    BY <1>0, <2>2 DEF Evident
  <2>5. QED
    BY <2>1, <2>3, <2>4, SetJobKeepsEvidence
<1>3. CASE ReadProgress(o)
  <2> DEFINE j == [job[o] EXCEPT !.journal = progress[job[o].cur], !.at = "pid"]
  <2>1. SetJob(o, j) /\ job[o].cur \in Runs
    BY <1>0, <1>3 DEF ReadProgress, InHand
  <2>2. /\ j.snap = job[o].snap /\ j.status = job[o].status /\ j.cur = job[o].cur
        /\ j.at \in InHand /\ j.journal = progress[job[o].cur]
    BY <1>0 DEF Jobs, InHand
  <2>3. JobOK(j)
    BY <1>0, <2>1 DEF JobOK, Jobs, SupervisorStateTypes
  <2> HIDE DEF j
  <2>4. Evident(j)
    BY <1>0, <2>1, <2>2 DEF Evident, FileEvidence
  <2>5. QED
    BY <2>1, <2>3, <2>4, SetJobKeepsEvidence
<1>4. CASE CheckPid(o)
  <2> DEFINE up == WrapperAlive(job[o].cur, job[o].snap[job[o].cur].pid)
             j == [job[o] EXCEPT !.up = up, !.at = "apply"]
  <2>1. SetJob(o, j) /\ job[o].cur \in Runs
    BY <1>0, <1>4 DEF CheckPid, InHand
  <2>2. up \in BOOLEAN
    BY DEF WrapperAlive
  <2> HIDE DEF up
  <2>3. /\ j.snap = job[o].snap /\ j.status = job[o].status /\ j.cur = job[o].cur
        /\ j.at \in InHand /\ j.journal = job[o].journal
    BY <1>0 DEF Jobs, InHand
  <2>4. JobOK(j)
    BY <1>0, <2>1, <2>2 DEF JobOK, Jobs
  <2> HIDE DEF j
  <2>5. Evident(j)
    BY <1>0, <2>3 DEF Evident
  <2>6. QED
    BY <2>1, <2>4, <2>5, SetJobKeepsEvidence
<1>5. QED
  BY <1>1, <1>2, <1>3, <1>4 DEF Observe

LEMMA DaemonEvidence ==
  ASSUME EvidenceInv, WonStays, NEW d \in Daemons,
         DaemonStep(d) \/ SpawnFails(d) \/ DaemonCrash(d) \/ StartDaemon(d)
  PROVE  JobEvidence'
<1>0. /\ d \in Observers /\ FileEvidence /\ SupervisorStateTypes
      /\ job[d] \in Jobs /\ Evident(job[d])
      /\ job[d].at \in InHand => job[d].cur \in Runs
  BY DEF EvidenceInv, TypeInv, JobInv, JobTypes, JobHasRun, JobEvidence, Observers
<1>a. UNCHANGED job => JobEvidence'
  <2>1. \A o \in Observers : Evident(job[o]) /\ JobOK(job[o])
    BY DEF EvidenceInv, TypeInv, JobInv, JobTypes, JobHasRun, JobEvidence, JobOK
  <2>2. QED
    BY <2>1 DEF JobEvidence, Evident, WonStays, JobOK
<1>b. SetJob(d, NoJob) => JobEvidence'
  BY <1>0, NoJobEvident, SetJobKeepsEvidence
<1>c. ASSUME NEW at \in {"start", "beat", "scan", "pick"},
             SetJob(d, [NoJob EXCEPT !.at = at])
      PROVE  JobEvidence'
  <2> DEFINE j == [NoJob EXCEPT !.at = at]
  <2>1. JobOK(j) /\ j.snap = NoJob.snap /\ j.status = "none" /\ j.journal = "none"
    BY NoJobTyped DEF JobOK, Jobs, InHand, NoJob
  <2>2. SetJob(d, j)
    BY <1>c
  <2> HIDE DEF j
  <2>3. Evident(j)
    BY <2>1, NoJobEvident DEF Evident
  <2>4. QED
    BY <1>0, <2>1, <2>2, <2>3, SetJobKeepsEvidence
<1>d. SetJob(d, NextEntry(job[d])) => JobEvidence'
  <2> DEFINE j == NextEntry(job[d])
  <2>1. j.status = "none" /\ j.journal = "none"
        /\ j.snap = [job[d].snap EXCEPT ![job[d].cur] = NoRun]
    BY DEF NextEntry, NoJob
  <2>2. JobOK(j)
    BY <1>0, NextEntryTyped DEF JobOK
  <2> HIDE DEF j
  <2>3. \A r \in Runs : j.snap[r] = NoRun \/ j.snap[r] = job[d].snap[r]
    BY <1>0, <2>1 DEF Jobs
  <2>4. Evident(j)
    BY <1>0, <2>1, <2>3 DEF Evident, NoRun
  <2>5. SetJob(d, j) => JobEvidence'
    BY <1>0, <2>2, <2>4, SetJobKeepsEvidence
  <2>6. QED
    BY <2>5 DEF j
<1>e. ASSUME NEW next \in {"adopt", "reconcile"}, NEW adopting \in BOOLEAN,
             ReadStates(d, next, adopting)
      PROVE  JobEvidence'
  <2> DEFINE todo == RunsWith(runs, "running")
             j == [NoJob EXCEPT !.at = next, !.todo = todo, !.adopt = adopting,
                                !.snap = Snapshot(todo)]
  <2>1. todo \in SUBSET Runs
    BY DEF RunsWith
  <2>2. SetJob(d, j)
    BY <1>e DEF ReadStates
  <2>3. /\ Snapshot(todo) \in [Runs -> RunState]
        /\ \A r \in Runs : Snapshot(todo)[r].status = "completed" => Won(r)
    BY <1>0, SnapshotTyped, SnapshotEvident DEF SupervisorStateTypes
  <2> HIDE DEF todo
  <2>4. JobOK(j)
    BY <2>1, <2>3, NoJobTyped DEF JobOK, Jobs, InHand
  <2>5. j.snap = Snapshot(todo) /\ j.status = "none" /\ j.journal = "none"
    BY DEF NoJob
  <2> HIDE DEF j
  <2>6. Evident(j)
    BY <2>3, <2>5 DEF Evident
  <2>7. QED
    BY <1>0, <2>2, <2>4, <2>6, SetJobKeepsEvidence
<1>f. ASSUME NEW j, SetJob(d, j), JobOK(j), j.snap = job[d].snap, j.cur = job[d].cur,
             j.status = job[d].status, j.journal = job[d].journal,
             job[d].at \in InHand => j.at \in InHand
      PROVE  JobEvidence'
  <2>1. Evident(j)
    BY <1>0, <1>f DEF Evident
  <2>2. QED
    BY <1>0, <1>f, <2>1, SetJobKeepsEvidence
<1>1. CASE Acquire(d)
  BY <1>1, <1>a, <1>c DEF Acquire
<1>2. CASE AdoptScan(d)
  BY <1>2, <1>e DEF AdoptScan
<1>3. CASE AdoptRun(d)
  <2> DEFINE j == [job[d] EXCEPT !.at = "reconcile"]
  <2>1. /\ JobOK(j) /\ j.snap = job[d].snap /\ j.cur = job[d].cur
        /\ j.status = job[d].status /\ j.journal = job[d].journal
    BY <1>0 DEF JobOK, Jobs, InHand
  <2>2. SetJob(d, j) /\ job[d].at \notin InHand
    BY <1>3 DEF AdoptRun, InHand
  <2> HIDE DEF j
  <2>3. QED
    BY <1>f, <2>1, <2>2
<1>4. CASE AdoptDone(d)
  BY <1>4, <1>c DEF AdoptDone
<1>5. CASE Heartbeat(d)
  BY <1>5, <1>a, <1>c DEF Heartbeat
<1>6. CASE Scan(d)
  BY <1>6, <1>e DEF Scan
<1>7. CASE Observe(d)
  BY <1>0, <1>7, ObserveEvidence
<1>8. CASE Apply(d)
  <2> DEFINE j == [job[d] EXCEPT !.at = "spawn"]
  <2>1. /\ JobOK(j) /\ j.snap = job[d].snap /\ j.cur = job[d].cur
        /\ j.status = job[d].status /\ j.journal = job[d].journal /\ j.at \in InHand
    BY <1>0, <1>8 DEF Apply, JobOK, Jobs, InHand
  <2>2. SetJob(d, j) \/ SetJob(d, NextEntry(job[d]))
    BY <1>8 DEF Apply
  <2> HIDE DEF j
  <2>3. QED
    BY <1>d, <1>f, <2>1, <2>2
<1>9. CASE ReconcileDone(d)
  BY <1>9, <1>c DEF ReconcileDone
<1>10. CASE Pick(d)
  <2>1. CASE Claim(d)
    <3>1. PICK r \in Runs : SetJob(d, [NoJob EXCEPT !.at = "spawn", !.cur = r,
                                                    !.snap = Snapshot({r})])
      BY <2>1 DEF Claim
    <3> DEFINE j == [NoJob EXCEPT !.at = "spawn", !.cur = r, !.snap = Snapshot({r})]
    <3>2. /\ Snapshot({r}) \in [Runs -> RunState]
          /\ \A q \in Runs : Snapshot({r})[q].status = "completed" => Won(q)
      BY <1>0, SnapshotTyped, SnapshotEvident DEF SupervisorStateTypes
    <3>3. JobOK(j)
      BY <3>2, NoJobTyped DEF JobOK, Jobs
    <3>4. j.snap = Snapshot({r}) /\ j.status = "none" /\ j.journal = "none"
      BY DEF NoJob
    <3>5. SetJob(d, j)
      BY <3>1
    <3> HIDE DEF j
    <3>6. Evident(j)
      BY <3>2, <3>4 DEF Evident
    <3>7. QED
      BY <1>0, <3>3, <3>5, <3>6, SetJobKeepsEvidence
  <2>2. CASE Sleep(d) \/ Leave(d)
    BY <2>2, <1>b, <1>c DEF Sleep, Leave
  <2>3. QED
    BY <1>10, <2>1, <2>2 DEF Pick
<1>11. CASE Spawn(d)
  <2>1. PICK l \in Launches : SetJob(d, [job[d] EXCEPT !.launch = l, !.at = "record"])
    BY <1>11 DEF Spawn
  <2> DEFINE j == [job[d] EXCEPT !.launch = l, !.at = "record"]
  <2>2. l \in 0 .. MaxLaunches
    BY SupervisorAssumption DEF Launches
  <2>3. /\ JobOK(j) /\ j.snap = job[d].snap /\ j.cur = job[d].cur
        /\ j.status = job[d].status /\ j.journal = job[d].journal /\ j.at \in InHand
    BY <1>0, <1>11, <2>2 DEF Spawn, JobOK, Jobs, InHand
  <2>4. SetJob(d, j)
    BY <2>1
  <2> HIDE DEF j
  <2>5. QED
    BY <1>f, <2>3, <2>4
<1>12. CASE SpawnFails(d)
  <2> DEFINE j == [job[d] EXCEPT !.launch = 0, !.at = "record"]
  <2>1. 0 \in 0 .. MaxLaunches
    BY SupervisorAssumption
  <2>2. /\ JobOK(j) /\ j.snap = job[d].snap /\ j.cur = job[d].cur
        /\ j.status = job[d].status /\ j.journal = job[d].journal /\ j.at \in InHand
    BY <1>0, <1>12, <2>1 DEF SpawnFails, JobOK, Jobs, InHand
  <2>3. SetJob(d, j)
    BY <1>12 DEF SpawnFails
  <2> HIDE DEF j
  <2>4. QED
    BY <1>f, <2>2, <2>3
<1>13. CASE Record(d)
  <2>1. \/ SetJob(d, NoJob)
        \/ SetJob(d, NextEntry(job[d]))
        \/ SetJob(d, [NoJob EXCEPT !.at = "beat"])
    BY <1>13 DEF Record
  <2>2. QED
    BY <1>b, <1>c, <1>d, <2>1
<1>14. CASE DaemonCrash(d)
  BY <1>14, <1>b DEF DaemonCrash
<1>15. CASE StartDaemon(d)
  BY <1>15, <1>a DEF StartDaemon, supVars
<1>16. QED
  BY <1>1, <1>2, <1>3, <1>4, <1>5, <1>6, <1>7, <1>8, <1>9, <1>10, <1>11, <1>12,
     <1>13, <1>14, <1>15 DEF DaemonStep

LEMMA JobsEvidence ==
  ASSUME EvidenceInv, [Next]_vars, WonStays
  PROVE  JobEvidence'
<1>1. UNCHANGED job => JobEvidence'
  <2>1. \A o \in Observers : Evident(job[o]) /\ JobOK(job[o])
    BY DEF EvidenceInv, TypeInv, JobInv, JobTypes, JobHasRun, JobEvidence, JobOK
  <2>2. QED
    BY <2>1 DEF JobEvidence, Evident, WonStays, JobOK
<1>2. ASSUME NEW d \in Daemons,
             StartDaemon(d) \/ DaemonStep(d) \/ SpawnFails(d) \/ DaemonCrash(d)
      PROVE  JobEvidence'
  BY <1>2, DaemonEvidence
<1>3. ASSUME NEW o \in Readers, ReaderStep(o) PROVE JobEvidence'
  <2>0. o \in Observers
    BY DEF Observers
  <2>1. ASSUME NEW r \in Runs, ReadState(o, r) PROVE JobEvidence'
    <3> DEFINE j == [NoJob EXCEPT !.at = "reconcile", !.todo = {r},
                                  !.snap = Snapshot({r})]
    <3>1. /\ Snapshot({r}) \in [Runs -> RunState]
          /\ \A q \in Runs : Snapshot({r})[q].status = "completed" => Won(q)
      BY SnapshotTyped, SnapshotEvident DEF EvidenceInv, TypeInv, SupervisorStateTypes
    <3>2. JobOK(j)
      BY <3>1, NoJobTyped DEF JobOK, Jobs, InHand
    <3>3. j.snap = Snapshot({r}) /\ j.status = "none" /\ j.journal = "none"
      BY DEF NoJob
    <3>4. SetJob(o, j)
      BY <2>1 DEF ReadState
    <3> HIDE DEF j
    <3>5. Evident(j)
      BY <3>1, <3>3 DEF Evident
    <3>6. QED
      BY <2>0, <3>2, <3>4, <3>5, SetJobKeepsEvidence
  <2>2. CASE ReaderApply(o)
    BY <2>0, <2>2, NoJobEvident, SetJobKeepsEvidence DEF ReaderApply
  <2>3. QED
    BY <1>3, <2>0, <2>1, <2>2, ObserveEvidence DEF ReaderStep
<1>4. ASSUME NEW r \in Runs, Submit(r) \/ EnsureSupervisorRunning(r) \/ AgentsEnd(r)
      PROVE  JobEvidence'
  BY <1>1, <1>4 DEF Submit, EnsureSupervisorRunning, AgentsEnd
<1>5. ASSUME NEW r \in Runs, NEW l \in Launches, LauncherStep(r, l) \/ Kill(r, l)
      PROVE  JobEvidence'
  BY <1>1, <1>5 DEF LauncherStep, LauncherAdvances, Kill, LauncherStarts, LauncherRefused,
                    LaunchAgents, Finalize, LauncherExits, WrapperReports
<1>6. CASE LeaseLapse \/ UNCHANGED vars
  BY <1>1, <1>6 DEF LeaseLapse, supVars, fileVars, procVars, vars
<1>7. QED
  BY <1>2, <1>3, <1>4, <1>5, <1>6 DEF Next

LEMMA EvidenceStep == EvidenceInv /\ [Next]_vars => EvidenceInv'
BY LaunchesEvidence, FilesEvidence, JobsEvidence, TypeInvStep DEF EvidenceInv

LEMMA EvidenceInit == Init => EvidenceInv
<1> SUFFICES ASSUME Init PROVE EvidenceInv
  OBVIOUS
<1>1. TypeInv
  BY TypeInvInit
<1>2. LaunchEvidence
  BY DEF Init, LaunchEvidence, NoProcess
<1>3. FileEvidence
  BY DEF Init, FileEvidence, NoRun
<1>4. JobEvidence
  BY NoJobEvident DEF Init, JobEvidence
<1>5. QED
  BY <1>1, <1>2, <1>3, <1>4 DEF EvidenceInv

(* A run reported completed has a launcher that finished all its waves,    *)
(* for any number of runs, daemons, readers and launches, any mishap of    *)
(* the lock file and any failures.                                         *)
THEOREM CompletedRunsWon == Spec => []SuccessHasEvidence
<1>1. EvidenceInv => SuccessHasEvidence
  BY DEF EvidenceInv, FileEvidence, SuccessHasEvidence
<1>2. QED
  BY <1>1, EvidenceInit, EvidenceStep, PTL DEF Spec
=============================================================================
