------------------------ MODULE AgentSessionsProofs ------------------------
(***************************************************************************)
(* Proofs about AgentSessions, for any number of launchers and sessions:   *)
(* the types and what a success stands for, the exclusion of launchers by  *)
(* the lane's lock until one of them is mistaken for dead, and that the    *)
(* protocol implements AgentRun until the first mishap.                    *)
(***************************************************************************)
EXTENDS AgentSessions, TLAPS

-----------------------------------------------------------------------------
(* What an update of a launcher's locals does.                             *)
LEMMA Becomes ==
  ASSUME job \in [Launchers -> Jobs], NEW l \in Launchers, NEW j \in Jobs, Become(l, j)
  PROVE  /\ job' \in [Launchers -> Jobs]
         /\ job'[l] = j
         /\ \A k \in Launchers : k # l => job'[k] = job[k]
BY DEF Become

LEMMA Moved ==
  ASSUME job \in [Launchers -> Jobs], NEW l \in Launchers, NEW place \in JobPlaces, Move(l, place)
  PROVE  /\ job' \in [Launchers -> Jobs]
         /\ job'[l].at = place /\ job'[l].session = job[l].session
         /\ job'[l].prior = job[l].prior /\ job'[l].next = job[l].next
         /\ job'[l].timedOut = job[l].timedOut
         /\ \A k \in Launchers : k # l => job'[k] = job[k]
<1>1. job[l] \in Jobs
  OBVIOUS
<1>2. [job[l] EXCEPT !.at = place] \in Jobs
  BY <1>1 DEF Jobs
<1>3. job'[l] = [job[l] EXCEPT !.at = place]
  BY <1>2, Becomes DEF Move
<1>4. /\ job'[l].at = place /\ job'[l].session = job[l].session
      /\ job'[l].prior = job[l].prior /\ job'[l].next = job[l].next
      /\ job'[l].timedOut = job[l].timedOut
  BY <1>1, <1>3 DEF Jobs
<1>5. QED
  BY <1>2, <1>4, Becomes DEF Move

LEMMA JobTyped ==
  ASSUME NEW at \in JobPlaces, NEW session \in 0 .. MaxSessions,
         NEW prior \in Records \cup {NoFile}, NEW next \in {"clear", "judge"},
         NEW timedOut \in BOOLEAN
  PROVE  Job(at, session, prior, next, timedOut) \in Jobs
BY DEF Job, Jobs

LEMMA Pids == 0 \in 0 .. MaxSessions /\ Sessions \subseteq 0 .. MaxSessions
BY SessionAssumption DEF Sessions

LEMMA NoJobTyped == NoJob \in Jobs
<1>1. "idle" \in JobPlaces /\ NoFile \in Records \cup {NoFile} /\ FALSE \in BOOLEAN
  BY DEF JobPlaces
<1>2. QED
  BY <1>1, Pids, JobTyped DEF NoJob

LEMMA RecordTyped ==
  ASSUME NEW disp \in {"launching", "running", "ended"},
         NEW r \in 0 .. MaxSessions, NEW e \in 0 .. MaxSessions
  PROVE  /\ Record(disp, r, e) \in Records
         /\ Record(disp, r, e) # NoFile
         /\ Record(disp, r, e).disp = disp /\ Record(disp, r, e).exec = e
BY NoFileAssumption DEF Record, Records

(* The record a patch starts from.                                         *)
LEMMA CurrentTyped ==
  ASSUME SessionTypeOK
  PROVE  Current.runner \in 0 .. MaxSessions /\ Current.exec \in 0 .. MaxSessions
<1>1. CASE runtime = NoFile
  BY <1>1, Pids DEF Current, Record
<1>2. CASE runtime # NoFile
  BY <1>2 DEF Current, SessionTypeOK, Records
<1>3. QED
  BY <1>1, <1>2

-----------------------------------------------------------------------------
LEMMA InitTyped == Init => SessionTypeOK
BY NoJobTyped
   DEF Init, LaneInit, SessionTypeOK, LaneTypeOK, LockPlaces, RunnerPlaces, Gone, LaneMishapKinds, SessionMishaps

LEMMA LaneTypeStep ==
  ASSUME LaneTypeOK, [LaneNext]_laneVars
  PROVE  LaneTypeOK'
<1> USE DEF LaneTypeOK, LockPlaces, Contending, Finished, At, LaneMishapKinds, laneFile
<1>1. CASE LaneNext
  BY <1>1 DEF LaneNext, AcquireStep, StartLauncher, OpenLock, WriteLock, InspectLock, RemoveStale,
     RetryOpen, ReleaseLock, Die, Create, DropFile, JudgeLock
<1>2. CASE UNCHANGED laneVars
  BY <1>2 DEF laneVars
<1>3. QED
  BY <1>1, <1>2

LEMMA LauncherTypeStep ==
  ASSUME SessionTypeOK, NEW l \in Launchers, LauncherStep(l)
  PROVE  SessionTypeOK'
<1> USE DEF SessionTypeOK
<1>0. job[l] \in Jobs /\ job[l].session \in 0 .. MaxSessions /\ job[l].next \in {"clear", "judge"}
      /\ job[l].timedOut \in BOOLEAN /\ job[l].prior \in Records \cup {NoFile}
  BY DEF Jobs
<1>a. {"clear", "judge"} \subseteq JobPlaces /\ NoFile \in Records \cup {NoFile}
      /\ {"stop", "clear", "judge", "rewrite"} \subseteq JobPlaces
  BY DEF JobPlaces
<1>b. (LaneTypeOK' <=> LaneTypeOK) /\ mishaps' \in SUBSET SessionMishaps
  <2>1. UNCHANGED laneVars /\ mishaps' \in SUBSET SessionMishaps
    BY DEF Noting, SessionMishaps, LauncherStep, BeginSession, StopSignal, StopKill, Clear, WriteInitialRecord,
       SpawnRunner, RewriteRecord, PollStatus, PollRecord, Deadline, Judge
  <2>2. QED
    BY <2>1 DEF laneVars, laneFile, LaneTypeOK
<1>c. StopDone(l) => job' \in [Launchers -> Jobs]
  <2> SUFFICES ASSUME StopDone(l) PROVE job' \in [Launchers -> Jobs]
    OBVIOUS
  <2>1. Job(job[l].next, job[l].session, NoFile, job[l].next, job[l].timedOut) \in Jobs
    BY <1>0, <1>a, JobTyped
  <2>2. QED
    BY <2>1, Becomes DEF StopDone
<1>d. \A place \in JobPlaces : Move(l, place) => job' \in [Launchers -> Jobs]
  BY Moved
<1>1. CASE BeginSession(l)
  <2>1. Job(IF runtime = NoFile THEN "clear" ELSE "stop", 0, runtime, "clear", FALSE) \in Jobs
    <3>1. (IF runtime = NoFile THEN "clear" ELSE "stop") \in JobPlaces
      BY <1>a
    <3>2. QED
      BY <3>1, Pids, JobTyped
  <2>2. job' \in [Launchers -> Jobs]
    BY <1>1, <2>1, Becomes DEF BeginSession
  <2>3. QED
    BY <1>1, <1>b, <2>2 DEF BeginSession
<1>2. CASE StopSignal(l)
  <2>1. job' \in [Launchers -> Jobs]
    BY <1>2, <1>c, <1>d DEF StopSignal, JobPlaces
  <2>2. runner' \in [Sessions -> RunnerPlaces]
    BY <1>2 DEF StopSignal, RunnerPlaces, Gone
  <2>3. exec' \in [Sessions -> {"none", "run", "straggles", "killed"} \cup OwnEnds]
    BY <1>2 DEF StopSignal
  <2>4. QED
    BY <1>2, <1>b, <2>1, <2>2, <2>3 DEF StopSignal
<1>3. CASE StopKill(l)
  <2>1. job' \in [Launchers -> Jobs]
    BY <1>3, <1>c DEF StopKill
  <2>2. runner' \in [Sessions -> RunnerPlaces]
    BY <1>3 DEF StopKill, RunnerPlaces, Gone
  <2>3. exec' \in [Sessions -> {"none", "run", "straggles", "killed"} \cup OwnEnds]
    BY <1>3 DEF StopKill
  <2>4. QED
    BY <1>3, <1>b, <2>1, <2>2, <2>3 DEF StopKill
<1>4. CASE Clear(l)
  BY <1>4, <1>b, <1>d DEF Clear, JobPlaces
<1>5. CASE WriteInitialRecord(l)
  <2>1. Record("launching", 0, 0) \in Records
    BY Pids, RecordTyped
  <2>2. QED
    BY <1>5, <1>b, <1>d, <2>1 DEF WriteInitialRecord, JobPlaces
<1>6. CASE SpawnRunner(l)
  <2>1. PICK s \in Sessions : SetRunner(s, "starting") /\ Become(l, Job("rewrite", s, NoFile, "clear", FALSE))
    BY <1>6 DEF SpawnRunner
  <2>2. Job("rewrite", s, NoFile, "clear", FALSE) \in Jobs
    <3>1. "rewrite" \in JobPlaces /\ s \in 0 .. MaxSessions
      BY <1>a, Pids
    <3>2. QED
      BY <1>a, <3>1, JobTyped
  <2>3. job' \in [Launchers -> Jobs]
    BY <2>1, <2>2, Becomes
  <2>4. runner' \in [Sessions -> RunnerPlaces]
    BY <2>1 DEF SetRunner, RunnerPlaces, Unmarked
  <2>5. QED
    BY <1>6, <1>b, <2>3, <2>4 DEF SpawnRunner
<1>7. CASE RewriteRecord(l)
  <2>1. Record("launching", job[l].session, 0) \in Records
    BY <1>0, Pids, RecordTyped
  <2>2. QED
    BY <1>7, <1>b, <1>d, <2>1 DEF RewriteRecord, JobPlaces
<1>8. CASE PollStatus(l)
  BY <1>8, <1>b, <1>d DEF PollStatus, JobPlaces
<1>9. CASE PollRecord(l)
  BY <1>9, <1>b, <1>d DEF PollRecord, JobPlaces
<1>10. CASE Deadline(l)
  <2>1. Job(IF runtime = NoFile THEN "judge" ELSE "stop", job[l].session, runtime, "judge", TRUE) \in Jobs
    BY <1>0, <1>a, JobTyped
  <2>2. job' \in [Launchers -> Jobs]
    BY <1>10, <2>1, Becomes DEF Deadline
  <2>3. QED
    BY <1>10, <1>b, <2>2 DEF Deadline
<1>11. CASE Judge(l)
  <2>1. Conclusion(job[l].timedOut) \in {"ok", "bad", "lost"}
    BY DEF Conclusion
  <2>2. job' \in [Launchers -> Jobs]
    BY <1>11, NoJobTyped, Becomes DEF Judge
  <2>3. QED
    BY <1>11, <1>b, <2>1, <2>2 DEF Judge
<1>12. QED
  BY <1>1, <1>2, <1>3, <1>4, <1>5, <1>6, <1>7, <1>8, <1>9, <1>10, <1>11 DEF LauncherStep

LEMMA RunnerTypeStep ==
  ASSUME SessionTypeOK, NEW s \in Sessions,
         RunnerStep(s) \/ Heartbeat(s) \/ ExecutorStep(s) \/ RunnerKilled(s)
  PROVE  SessionTypeOK'
<1> USE DEF SessionTypeOK
<1>a. 0 \in 0 .. MaxSessions /\ s \in 0 .. MaxSessions
  BY Pids
<1>b. (LaneTypeOK' <=> LaneTypeOK) /\ mishaps' \in SUBSET SessionMishaps
  <2>1. UNCHANGED laneVars /\ mishaps' \in SUBSET SessionMishaps
    BY DEF Noting, SessionMishaps, RunnerStep, Heartbeat, ExecutorStep, ExecutorEnds, ShellKilled, StragglerEnds, RunnerKilled, RunnerStarts, RunnerSpawns,
       RunnerMarks, RunnerFails, RunnerReportsFailure, RunnerReports, RunnerEnds
  <2>2. QED
    BY <2>1 DEF laneVars, laneFile, LaneTypeOK
<1>c. \A place \in RunnerPlaces : SetRunner(s, place) => runner' \in [Sessions -> RunnerPlaces]
  BY DEF SetRunner
<1>1. CASE RunnerStarts(s)
  <2>1. Record("launching", s, 0) \in Records
    BY <1>a, RecordTyped
  <2>2. QED
    BY <1>1, <1>b, <1>c, <2>1 DEF RunnerStarts, RunnerPlaces, Unmarked
<1>2. CASE RunnerSpawns(s)
  <2>1. runner' \in [Sessions -> RunnerPlaces]
    BY <1>2, <1>c DEF RunnerSpawns, RunnerPlaces, Unmarked
  <2>2. QED
    BY <1>2, <1>b, <2>1 DEF RunnerSpawns
<1>3. CASE RunnerMarks(s)
  <2>1. Record("running", s, IF runner[s] = "spawned" THEN s ELSE 0) \in Records
    BY <1>a, RecordTyped
  <2>2. runner' \in [Sessions -> RunnerPlaces]
    BY <1>3, <1>c DEF RunnerMarks, RunnerPlaces
  <2>3. QED
    BY <1>3, <1>b, <2>1, <2>2 DEF RunnerMarks
<1>4. CASE RunnerFails(s)
  <2>1. Record("ended", s, Current.exec) \in Records
    BY <1>a, CurrentTyped, RecordTyped
  <2>2. QED
    BY <1>4, <1>b, <1>c, <2>1 DEF RunnerFails, RunnerPlaces
<1>5. CASE RunnerReportsFailure(s)
  BY <1>5, <1>b, <1>c DEF RunnerReportsFailure, RunnerPlaces, Gone
<1>6. CASE RunnerReports(s)
  <2>1. [code |-> ReportedCode(s), by |-> s] \in [code : {"ok", "bad"}, by : Sessions]
    BY DEF ReportedCode
  <2>2. QED
    BY <1>6, <1>b, <1>c, <2>1 DEF RunnerReports, RunnerPlaces
<1>7. CASE RunnerEnds(s)
  <2>1. Record("ended", Current.runner, Current.exec) \in Records
    BY CurrentTyped, RecordTyped
  <2>2. QED
    BY <1>7, <1>b, <1>c, <2>1 DEF RunnerEnds, RunnerPlaces, Gone
<1>8. CASE Heartbeat(s)
  <2>1. Record("running", Current.runner, Current.exec) \in Records
    BY CurrentTyped, RecordTyped
  <2>2. QED
    BY <1>8, <1>b, <2>1 DEF Heartbeat
<1>9. CASE ExecutorStep(s)
  BY <1>9, <1>b DEF ExecutorStep, ExecutorEnds, ShellKilled, StragglerEnds, OwnEnds
<1>10. CASE RunnerKilled(s)
  BY <1>10, <1>b, <1>c DEF RunnerKilled, RunnerPlaces, Gone
<1>11. QED
  BY <1>1, <1>2, <1>3, <1>4, <1>5, <1>6, <1>7, <1>8, <1>9, <1>10 DEF RunnerStep

LEMMA TypeStep ==
  ASSUME SessionTypeOK, [Next]_vars
  PROVE  SessionTypeOK'
<1>1. CASE LaneStep
  <2>1. LaneTypeOK'
    BY <1>1, LaneTypeStep DEF LaneStep, SessionTypeOK
  <2>2. job' \in [Launchers -> Jobs]
    BY <1>1, NoJobTyped DEF LaneStep, SessionTypeOK
  <2>3. QED
    BY <1>1, <2>1, <2>2 DEF LaneStep, SessionTypeOK
<1>2. CASE UNCHANGED vars
  BY <1>2 DEF vars, laneVars, laneFile, sessionVars, SessionTypeOK, LaneTypeOK
<1>3. QED
  BY <1>1, <1>2, LauncherTypeStep, RunnerTypeStep DEF Next

(* Lock, files, processes and locals keep their types, whatever races      *)
(* happen.                                                                 *)
THEOREM SessionTypeCorrect == Spec => []SessionTypeOK
BY InitTyped, TypeStep, PTL DEF Spec

-----------------------------------------------------------------------------
(* An executor that came to its own end stays so, and no status reports a  *)
(* success without one.                                                    *)
FinishedInv ==
    /\ SessionTypeOK
    /\ SuccessIsFinished
    /\ status # NoFile /\ status.code = "ok" => \E t \in Sessions : exec[t] \in OwnEnds
    /\ \A s \in Sessions : runner[s] \in {"none", "starting", "launching"} => exec[s] = "none"

LEMMA FinishedInit == Init => FinishedInv
BY InitTyped DEF Init, FinishedInv, SuccessIsFinished

(* The executors' part of a step.                                          *)
LEMMA FinishedExecs ==
  ASSUME FinishedInv, [Next]_vars
  PROVE  /\ \A t \in Sessions : exec[t] \in OwnEnds => exec'[t] \in OwnEnds
         /\ \A t \in Sessions : runner'[t] \in {"none", "starting", "launching"} => exec'[t] = "none"
<1> USE DEF SessionTypeOK, FinishedInv, OwnEnds
<1>1. ASSUME NEW l \in Launchers, LauncherStep(l)
      PROVE  /\ \A t \in Sessions : exec[t] \in OwnEnds => exec'[t] \in OwnEnds
             /\ \A t \in Sessions : runner'[t] \in {"none", "starting", "launching"} => exec'[t] = "none"
  <2>1. CASE StopSignal(l)
    <3>1. /\ runner' = runner \/ runner' = [runner EXCEPT ![job[l].prior.runner] = "killed"]
          /\ exec' = exec
      BY <2>1 DEF StopSignal
    <3>2. QED
      BY <3>1
  <2>2. CASE StopKill(l)
    <3>1. /\ runner' = runner \/ runner' = [runner EXCEPT ![job[l].prior.runner] = "killed"]
          /\ exec' = exec \/ (/\ exec' = [exec EXCEPT ![job[l].prior.exec] = "killed"]
                             /\ exec[job[l].prior.exec] = "run")
      BY <2>2 DEF StopKill, TargetAlive, Target
    <3>2. QED
      BY <3>1
  <2>3. CASE SpawnRunner(l)
    BY <2>3 DEF SpawnRunner, SetRunner
  <2>4. CASE UNCHANGED <<runner, exec>>
    BY <2>4
  <2>5. QED
    BY <1>1, <2>1, <2>2, <2>3, <2>4 DEF LauncherStep, BeginSession, Clear, WriteInitialRecord,
       RewriteRecord, PollStatus, PollRecord, Deadline, Judge
<1>2. ASSUME NEW s \in Sessions, RunnerStep(s) \/ Heartbeat(s) \/ ExecutorStep(s) \/ RunnerKilled(s)
      PROVE  /\ \A t \in Sessions : exec[t] \in OwnEnds => exec'[t] \in OwnEnds
             /\ \A t \in Sessions : runner'[t] \in {"none", "starting", "launching"} => exec'[t] = "none"
  <2>1. CASE RunnerSpawns(s)
    BY <2>1 DEF RunnerSpawns, SetRunner
  <2>2. CASE ExecutorStep(s)
    BY <2>2 DEF ExecutorStep, ExecutorEnds, ShellKilled, StragglerEnds
  <2>3. CASE UNCHANGED <<runner, exec>>
    BY <2>3
  <2>4. CASE exec' = exec /\ \E place \in RunnerPlaces \ {"none", "starting"} :
               SetRunner(s, place) /\ (place = "launching" => runner[s] = "starting")
    BY <2>4 DEF SetRunner
  <2>5. RunnerStarts(s) => exec' = exec /\ SetRunner(s, "launching") /\ runner[s] = "starting"
    BY DEF RunnerStarts
  <2>6. \/ RunnerMarks(s) \/ RunnerFails(s) \/ RunnerReportsFailure(s) \/ RunnerReports(s)
        \/ RunnerEnds(s) \/ RunnerKilled(s)
        => exec' = exec /\ \E place \in {"running", "rejected", "failing", "ended", "closing", "killed"} :
                               SetRunner(s, place)
    BY DEF RunnerMarks, RunnerFails, RunnerReportsFailure, RunnerReports, RunnerEnds, RunnerKilled
  <2>7. {"launching", "running", "rejected", "failing", "ended", "closing", "killed"} \subseteq RunnerPlaces
    BY DEF RunnerPlaces, Unmarked, Gone
  <2>8. Heartbeat(s) => UNCHANGED <<runner, exec>>
    BY DEF Heartbeat
  <2>9. QED
    BY <1>2, <2>1, <2>2, <2>3, <2>4, <2>5, <2>6, <2>7, <2>8 DEF RunnerStep
<1>3. CASE LaneStep \/ UNCHANGED vars
  BY <1>3 DEF LaneStep, vars, sessionVars
<1>4. QED
  BY <1>1, <1>2, <1>3 DEF Next

LEMMA FinishedStep ==
  ASSUME FinishedInv, [Next]_vars
  PROVE  FinishedInv'
<1> DEFINE Success == \E t \in Sessions : exec[t] \in OwnEnds
<1>0. SessionTypeOK /\ SessionTypeOK' /\ (Success => Success')
  BY TypeStep, FinishedExecs DEF FinishedInv
<1>1. status' # NoFile /\ status'.code = "ok" => Success'
  <2>1. CASE status' = status \/ status' = NoFile
    BY <1>0, <2>1 DEF FinishedInv
  <2>2. ASSUME NEW s \in Sessions, RunnerReportsFailure(s), status' # status
        PROVE  status'.code # "ok"
    BY <2>2 DEF RunnerReportsFailure
  <2>3. ASSUME NEW s \in Sessions, RunnerReports(s) PROVE status'.code = "ok" => Success
    BY <2>3 DEF RunnerReports, ReportedCode
  <2>4. \/ status' = status \/ status' = NoFile
        \/ \E s \in Sessions : RunnerReportsFailure(s) \/ RunnerReports(s)
    BY DEF Next, LaneStep, LauncherStep, BeginSession, StopSignal, StopKill, Clear,
       WriteInitialRecord, SpawnRunner, RewriteRecord, PollStatus, PollRecord, Deadline, Judge,
       RunnerStep, RunnerStarts, RunnerSpawns, RunnerMarks, RunnerFails, RunnerEnds, Heartbeat,
       ExecutorStep, ExecutorEnds, ShellKilled, StragglerEnds, RunnerKilled, vars, sessionVars
  <2>5. QED
    BY <1>0, <2>1, <2>2, <2>3, <2>4
<1>2. \A s \in Sessions : verdict'[s] = "ok" => Success'
  <2>1. CASE verdict' = verdict
    BY <1>0, <2>1 DEF FinishedInv, SuccessIsFinished
  <2>2. ASSUME NEW l \in Launchers, Judge(l), NEW s \in Sessions, verdict'[s] = "ok"
        PROVE  Success
    <3>1. CASE Conclusion(job[l].timedOut) = "ok"
      BY <3>1 DEF FinishedInv, Conclusion
    <3>2. CASE verdict[s] = "ok"
      BY <3>2 DEF FinishedInv, SuccessIsFinished
    <3>3. QED
      BY <1>0, <2>2, <3>1, <3>2 DEF Judge, SessionTypeOK
  <2>3. verdict' = verdict \/ \E l \in Launchers : Judge(l)
    BY DEF Next, LaneStep, LauncherStep, BeginSession, StopSignal, StopKill, Clear,
       WriteInitialRecord, SpawnRunner, RewriteRecord, PollStatus, PollRecord, Deadline,
       RunnerStep, RunnerStarts, RunnerSpawns, RunnerMarks, RunnerFails, RunnerReportsFailure,
       RunnerReports, RunnerEnds, Heartbeat, ExecutorStep, ExecutorEnds, ShellKilled, StragglerEnds, RunnerKilled, vars, sessionVars
  <2>4. QED
    BY <1>0, <2>1, <2>2, <2>3
<1>3. QED
  BY <1>0, <1>1, <1>2, FinishedExecs DEF FinishedInv, SuccessIsFinished

(* A success is an executor's finished work, whatever races happen.        *)
THEOREM SuccessesAreFinished == Spec => []SuccessIsFinished
<1>1. FinishedInv => SuccessIsFinished
  BY DEF FinishedInv
<1>2. QED
  BY FinishedInit, FinishedStep, <1>1, PTL DEF Spec

-----------------------------------------------------------------------------
(***************************************************************************)
(* The lock.  The file at the path is the one its writer or holder         *)
(* created, and a contender that called it stale and is about to remove it *)
(* was right, until a mishap of the lane is on record.                     *)
(***************************************************************************)
Owning == {"write", "held"}

LockHeld ==
    /\ \A l, k \in Launchers : lpc[l] \in Owning /\ lpc[k] \in Owning => l = k
    /\ \A l \in Launchers :
          /\ lpc[l] = "held" => lockFile = l
          /\ lpc[l] = "write" => lockFile = Empty /\ l \in lockFds
    /\ laneJudged # {} => \A l \in Launchers : lpc[l] \notin Owning

LEMMA LockInit == Init => LockHeld
BY DEF Init, LaneInit, LockHeld, Owning

LEMMA LaneMishapsStay ==
  ASSUME [LaneNext]_laneVars
  PROVE  laneMishaps \subseteq laneMishaps'
<1>1. CASE LaneNext
  BY <1>1 DEF LaneNext, AcquireStep, StartLauncher, OpenLock, WriteLock, InspectLock, JudgeLock,
     RemoveStale, RetryOpen, Create, ReleaseLock, Die
<1>2. QED
  BY <1>1 DEF laneVars

LEMMA LockStep ==
  ASSUME LaneTypeOK, LockHeld, [LaneNext]_laneVars, laneMishaps' = {}
  PROVE  LockHeld'
<1> USE LauncherLockAssumption, LaneMishapsStay
        DEF LaneTypeOK, LockHeld, Owning, laneFile, At
<1>1. ASSUME NEW l \in Launchers, StartLauncher(l) PROVE LockHeld'
  BY <1>1 DEF StartLauncher
<1>2. ASSUME NEW l \in Launchers, OpenLock(l) PROVE LockHeld'
  BY <1>2 DEF OpenLock, Create
<1>3. ASSUME NEW l \in Launchers, WriteLock(l) PROVE LockHeld'
  BY <1>3 DEF WriteLock
<1>4. ASSUME NEW l \in Launchers, InspectLock(l) PROVE LockHeld'
  <2>1. CASE lockFile \in Launchers /\ Running(lockFile)
    BY <1>4, <2>1 DEF InspectLock, JudgeLock
  <2>2. CASE ~(lockFile \in Launchers /\ Running(lockFile))
    <3>1. ~(lockFile = Empty /\ lockFds # {})
      BY <1>4, <2>2 DEF InspectLock, JudgeLock
    <3>2. \A k \in Launchers : lpc[k] \notin Owning
      BY <2>2, <3>1 DEF Running, Finished
    <3>3. QED
      BY <1>4, <2>2, <3>2 DEF InspectLock, JudgeLock
  <2>3. QED
    BY <2>1, <2>2
<1>5. ASSUME NEW l \in Launchers, RemoveStale(l) PROVE LockHeld'
  BY <1>5 DEF RemoveStale, DropFile
<1>6. ASSUME NEW l \in Launchers, RetryOpen(l) PROVE LockHeld'
  BY <1>6 DEF RetryOpen, Create
<1>7. ASSUME NEW l \in Launchers, ReleaseLock(l) PROVE LockHeld'
  BY <1>7 DEF ReleaseLock, DropFile
<1>8. ASSUME NEW l \in Launchers, Die(l) PROVE LockHeld'
  BY <1>8 DEF Die
<1>9. CASE UNCHANGED laneVars
  BY <1>9 DEF laneVars
<1>10. QED
  BY <1>1, <1>2, <1>3, <1>4, <1>5, <1>6, <1>7, <1>8, <1>9 DEF LaneNext, AcquireStep

(* The other steps of the launchers and runners leave the lock alone.      *)
LEMMA LaneUntouched ==
  ASSUME [Next]_vars
  PROVE  [LaneNext]_laneVars
BY DEF Next, LaneStep, LauncherStep, BeginSession, StopSignal, StopKill, Clear,
   WriteInitialRecord, SpawnRunner, RewriteRecord, PollStatus, PollRecord, Deadline, Judge,
   RunnerStep, RunnerStarts, RunnerSpawns, RunnerMarks, RunnerFails, RunnerReportsFailure,
   RunnerReports, RunnerEnds, Heartbeat, ExecutorStep, ExecutorEnds, ShellKilled, StragglerEnds, RunnerKilled, vars

(* One launcher drives the lane, however many start at whatever moments    *)
(* and whichever of them die, until one is mistaken for dead.              *)
THEOREM OneLauncherAtATime == Spec => []OneLauncherPerLane
<1> DEFINE LaneInv == LaneTypeOK /\ (laneMishaps = {} => LockHeld)
<1>1. LaneInv => OneLauncherPerLane
  BY DEF LockHeld, OneLauncherPerLane, Owning
<1>2. SessionTypeOK => LaneTypeOK
  BY DEF SessionTypeOK
<1>3. Init => LaneInv
  BY LockInit, InitTyped, <1>2
<1>4. LaneInv /\ LaneTypeOK' /\ [Next]_vars => LaneInv'
  <2> SUFFICES ASSUME LaneInv, LaneTypeOK', [Next]_vars, laneMishaps' = {} PROVE LockHeld'
    OBVIOUS
  <2>1. [LaneNext]_laneVars
    BY LaneUntouched
  <2>2. laneMishaps = {}
    BY <2>1, LaneMishapsStay
  <2>3. QED
    BY <2>1, <2>2, LockStep
<1> HIDE DEF LaneInv
<1>5. QED
  BY SessionTypeCorrect, <1>1, <1>2, <1>3, <1>4, PTL DEF Spec

-----------------------------------------------------------------------------
(***************************************************************************)
(* Until a mishap the protocol implements AgentRun.  At most one session is*)
(* active, and it is the one the driving launcher awaits (OneActive,       *)
(* Duty); the record names an executor as long as it runs, so whoever      *)
(* stops the agent stops it (RecordKnows); the status file tells how its   *)
(* writer's executor ended (Reported).                                     *)
(***************************************************************************)
Active(s) == RunnerAlive(s) \/ exec[s] = "run"

OneActive == \A s, t \in Sessions : Active(s) /\ Active(t) => s = t

NobodyRuns == \A s \in Sessions : runner[s] \notin Unmarked /\ exec[s] # "run"

RecordKnows ==
    \A s \in Sessions :
        /\ runner[s] \in Unmarked => runtime # NoFile /\ runtime.disp = "launching"
        /\ exec[s] = "run" /\ runner[s] \notin Unmarked =>
              runtime # NoFile /\ runtime.exec = s /\ runtime.disp = "running"

(* How far an executor has come is seen from its runner, and a verdict     *)
(* comes after the start.                                                  *)
Stages ==
    \A s \in Sessions :
        /\ exec[s] # "straggles"
        /\ exec[s] = "run" => runner[s] \in {"spawned", "running", "killed"}
        /\ runner[s] \in {"none", "starting", "launching", "unspawned", "rejected", "failing"} =>
              exec[s] = "none"
        /\ verdict[s] # "none" => runner[s] \notin Unmarked \cup {"none"}

Reported ==
    status # NoFile =>
        /\ exec[status.by] # "run" /\ runner[status.by] \in {"closing", "ended", "killed"}
        /\ status.code = "ok" <=> exec[status.by] \in OwnEnds

Stopping(l) == job[l].at \in {"stop", "grace"}

Awaits(l) ==
    \/ job[l].at \in {"rewrite", "wait", "poll", "judge"}
    \/ Stopping(l) /\ job[l].next = "judge"

(* What a launcher may rely on where it is.                                *)
Duty(l) ==
    /\ lpc[l] # "held" \/ job[l].at = "idle" => job[l] = NoJob
    /\ Stopping(l) =>
          /\ \A s \in Sessions : runner[s] \notin Unmarked
          /\ \A s \in Sessions : exec[s] = "run" => job[l].prior.exec = s
    /\ job[l].at \in {"clear", "judge"} => NobodyRuns
    /\ job[l].at \in {"prepare", "spawn"} => status = NoFile /\ \A s \in Sessions : ~Active(s)
    /\ job[l].at = "spawn" => runtime = Record("launching", 0, 0)
    /\ Awaits(l) =>
          /\ job[l].session \in Sessions
          /\ runner[job[l].session] # "none"
          /\ verdict[job[l].session] = "none"
          /\ status # NoFile => status.by = job[l].session
          /\ \A s \in Sessions : Active(s) => s = job[l].session

RunInv ==
    /\ SessionTypeOK /\ LockHeld
    /\ OneActive /\ RecordKnows /\ Stages /\ Reported
    /\ \A l \in Launchers : Duty(l)

LEMMA RunInit == Init => RunInv
<1> SUFFICES ASSUME Init PROVE RunInv
  OBVIOUS
<1>1. SessionTypeOK /\ LockHeld
  BY InitTyped, LockInit
<1>2. NoJob.at = "idle" /\ NoJob.next = "clear"
  BY DEF NoJob, Job
<1>3. \A s \in Sessions : ~Active(s)
  BY DEF Init, Active, RunnerAlive, Gone
<1>4. OneActive /\ RecordKnows /\ Stages /\ Reported
  BY <1>3 DEF Init, OneActive, RecordKnows, Stages, Reported, Unmarked
<1>5. \A l \in Launchers : Duty(l)
  BY <1>2 DEF Init, Duty, Stopping, Awaits
<1>6. QED
  BY <1>1, <1>4, <1>5 DEF RunInv

(* A step that leaves no mishap on record found none there.                *)
LEMMA MishapsStay ==
  ASSUME [Next]_vars, Smooth'
  PROVE  Smooth
<1>1. laneMishaps \subseteq laneMishaps'
  BY LaneUntouched, LaneMishapsStay
<1>2. mishaps \subseteq mishaps'
  BY DEF Next, LaneStep, LauncherStep, BeginSession, StopSignal, StopKill, Clear,
     WriteInitialRecord, SpawnRunner, RewriteRecord, PollStatus, PollRecord, Deadline, Judge,
     RunnerStep, RunnerStarts, RunnerSpawns, RunnerMarks, RunnerFails, RunnerReportsFailure,
     RunnerReports, RunnerEnds, Heartbeat, ExecutorStep, ExecutorEnds, ShellKilled,
     StragglerEnds, RunnerKilled, Noting, vars, sessionVars
<1>3. QED
  BY <1>1, <1>2 DEF Smooth

(* A launcher that does nothing for the agent relies on nothing.           *)
LEMMA IdleDuty ==
  ASSUME NEW k \in Launchers, job'[k] = NoJob
  PROVE  Duty(k)'
<1>1. NoJob.at = "idle" /\ NoJob.next = "clear"
  BY DEF NoJob, Job
<1>2. QED
  BY <1>1 DEF Duty, Stopping, Awaits

(* Only the holder of the lock does anything.                              *)
LEMMA Alone ==
  ASSUME RunInv, NEW l \in Launchers, lpc[l] = "held", NEW k \in Launchers, k # l
  PROVE  job[k] = NoJob
BY DEF RunInv, LockHeld, Duty

(* A step of an active session takes away nothing its launcher relies on.  *)
LEMMA RunnerDuty ==
  ASSUME RunInv, NEW s \in Sessions, Active(s),
         UNCHANGED <<job, verdict, lpc>>,
         \A t \in Sessions : t # s => runner'[t] = runner[t] /\ exec'[t] = exec[t],
         exec'[s] = "run" => exec[s] = "run" \/ runner[s] = "launching",
         runner'[s] \in Unmarked => runner[s] \in Unmarked,
         runner'[s] # "none",
         status' # status => status' = NoFile \/ status'.by = s
  PROVE  OneActive' /\ \A l \in Launchers : Duty(l)'
<1>1. \A t \in Sessions : Active(t)' => Active(t)
  BY DEF Active, RunnerAlive
<1>2. OneActive'
  BY <1>1 DEF RunInv, OneActive
<1>3. ASSUME NEW l \in Launchers PROVE Duty(l)'
  <2>0. Duty(l) /\ job'[l] = job[l] /\ lpc'[l] = lpc[l]
    BY DEF RunInv
  <2>a. \A t \in Sessions : runner'[t] \in Unmarked => runner[t] \in Unmarked
    OBVIOUS
  <2>b. \A t \in Sessions : exec'[t] = "run" => exec[t] = "run" \/ runner[t] \in Unmarked
    BY DEF Unmarked
  <2>1. Stopping(l)' => /\ \A t \in Sessions : runner'[t] \notin Unmarked
                        /\ \A t \in Sessions : exec'[t] = "run" => job'[l].prior.exec = t
    BY <2>0, <2>a, <2>b DEF Duty, Stopping
  <2>2. job'[l].at \in {"clear", "judge"} => NobodyRuns'
    BY <2>0, <2>a, <2>b DEF Duty, NobodyRuns
  <2>3. job'[l].at \notin {"prepare", "spawn"}
    BY <2>0 DEF Duty
  <2>4. Awaits(l)' => s = job[l].session /\ job[l].session \in Sessions
    BY <2>0 DEF Duty, Awaits, Stopping
  <2>6. Awaits(l)' =>
          /\ job'[l].session \in Sessions
          /\ runner'[job'[l].session] # "none"
          /\ verdict'[job'[l].session] = "none"
          /\ status' # NoFile => status'.by = job'[l].session
          /\ \A t \in Sessions : Active(t)' => t = job'[l].session
    BY <1>1, <2>0, <2>4 DEF Duty, Awaits, Stopping
  <2>7. lpc'[l] # "held" \/ job'[l].at = "idle" => job'[l] = NoJob
    BY <2>0 DEF Duty
  <2>8. QED
    BY <2>1, <2>2, <2>3, <2>6, <2>7 DEF Duty
<1>4. QED
  BY <1>2, <1>3

LEMMA RunnerRunStep ==
  ASSUME RunInv, Smooth', NEW s \in Sessions,
         RunnerStep(s) \/ Heartbeat(s) \/ ExecutorStep(s) \/ RunnerKilled(s)
  PROVE  RunInv'
<1>0. SessionTypeOK /\ OneActive /\ RecordKnows /\ Stages /\ Reported
  BY DEF RunInv
<1>a. SessionTypeOK'
  BY <1>0, RunnerTypeStep
<1>b. UNCHANGED <<job, verdict, laneVars>>
  BY DEF RunnerStep, Heartbeat, ExecutorStep, ExecutorEnds, ShellKilled, StragglerEnds, RunnerKilled, RunnerStarts, RunnerSpawns,
     RunnerMarks, RunnerFails, RunnerReportsFailure, RunnerReports, RunnerEnds
<1>c. LockHeld'
  BY <1>b DEF RunInv, LockHeld, laneVars, laneFile, Owning
<1>d. lpc' = lpc
  BY <1>b DEF laneVars
<1>e. \A t \in Sessions : t # s /\ Active(s) => exec[t] # "run" /\ runner[t] \notin Unmarked
  BY <1>0 DEF OneActive, Active, RunnerAlive, Unmarked, Gone
<1>f. /\ runner \in [Sessions -> RunnerPlaces]
      /\ exec \in [Sessions -> {"none", "run", "straggles", "killed"} \cup OwnEnds]
      /\ status # NoFile => status.by \in Sessions
  BY <1>0 DEF SessionTypeOK
<1>g. 0 \in 0 .. MaxSessions /\ s \in 0 .. MaxSessions
  BY Pids
<1> SUFFICES OneActive' /\ RecordKnows' /\ Stages' /\ Reported' /\ \A l \in Launchers : Duty(l)'
  BY <1>a, <1>c DEF RunInv
<1>1. CASE RunnerStarts(s)
  <2>1. /\ runner[s] = "starting"
        /\ runtime' = Record("launching", s, 0) /\ UNCHANGED <<status, exec>>
        /\ runner' = [runner EXCEPT ![s] = "launching"]
    BY <1>1 DEF RunnerStarts, SetRunner
  <2>2. Active(s)
    BY <2>1 DEF Active, RunnerAlive, Gone
  <2>3. RecordKnows'
    BY <1>0, <1>e, <1>f, <1>g, <2>1, <2>2, RecordTyped DEF RecordKnows, Stages, Unmarked
  <2>4. Stages' /\ Reported'
    BY <1>0, <1>b, <1>f, <2>1 DEF Stages, Reported, Unmarked
  <2>5. QED
    BY <1>b, <1>d, <1>f, <2>1, <2>2, <2>3, <2>4, RunnerDuty DEF Unmarked
<1>2. CASE RunnerSpawns(s)
  <2>1. /\ runner[s] = "launching" /\ UNCHANGED <<status, runtime>>
        /\ \/ /\ exec' = [exec EXCEPT ![s] = "run"]
              /\ runner' = [runner EXCEPT ![s] = "spawned"]
           \/ /\ exec' = exec
              /\ runner' = [runner EXCEPT ![s] = "unspawned"]
    BY <1>2 DEF RunnerSpawns, SetRunner
  <2>2. Active(s)
    BY <2>1 DEF Active, RunnerAlive, Gone
  <2>3. RecordKnows'
    BY <1>0, <1>e, <1>f, <2>1, <2>2 DEF RecordKnows, Unmarked
  <2>4. Stages' /\ Reported'
    BY <1>0, <1>b, <1>f, <2>1 DEF Stages, Reported, Unmarked
  <2>5. QED
    BY <1>b, <1>d, <1>f, <2>1, <2>2, <2>3, <2>4, RunnerDuty DEF Unmarked
<1>3. CASE RunnerMarks(s)
  <2>1. /\ runner[s] \in {"spawned", "unspawned"} /\ UNCHANGED <<status, exec>>
        /\ runtime' = Record("running", s, IF runner[s] = "spawned" THEN s ELSE 0)
        /\ runner' = [runner EXCEPT ![s] = IF runner[s] = "spawned" THEN "running" ELSE "rejected"]
    BY <1>3 DEF RunnerMarks, SetRunner
  <2>2. Active(s)
    BY <2>1 DEF Active, RunnerAlive, Gone
  <2>3. RecordKnows'
    BY <1>0, <1>e, <1>f, <1>g, <2>1, <2>2, RecordTyped DEF RecordKnows, Stages, Unmarked
  <2>4. Stages' /\ Reported'
    BY <1>0, <1>b, <1>f, <2>1 DEF Stages, Reported, Unmarked
  <2>5. QED
    BY <1>b, <1>d, <1>f, <2>1, <2>2, <2>3, <2>4, RunnerDuty DEF Unmarked
<1>4. CASE RunnerFails(s)
  <2>1. /\ runner[s] = "rejected" /\ UNCHANGED <<status, exec>>
        /\ runner' = [runner EXCEPT ![s] = "failing"]
    BY <1>4 DEF RunnerFails, SetRunner
  <2>2. Active(s) /\ exec[s] = "none"
    BY <1>0, <2>1 DEF Active, RunnerAlive, Gone, Stages
  <2>3. RecordKnows'
    BY <1>e, <1>f, <2>1, <2>2 DEF RecordKnows, Unmarked
  <2>4. Stages' /\ Reported'
    BY <1>0, <1>b, <1>f, <2>1 DEF Stages, Reported, Unmarked
  <2>5. QED
    BY <1>b, <1>d, <1>f, <2>1, <2>2, <2>3, <2>4, RunnerDuty DEF Unmarked
<1>5. CASE RunnerReportsFailure(s)
  <2>1. /\ runner[s] = "failing" /\ UNCHANGED <<runtime, exec>>
        /\ status' = IF status = NoFile THEN [code |-> "bad", by |-> s] ELSE status
        /\ runner' = [runner EXCEPT ![s] = "ended"]
    BY <1>5 DEF RunnerReportsFailure, SetRunner
  <2>2. Active(s) /\ exec[s] = "none"
    BY <1>0, <2>1 DEF Active, RunnerAlive, Gone, Stages
  <2>3. RecordKnows'
    BY <1>0, <1>e, <1>f, <2>1, <2>2 DEF RecordKnows, Unmarked
  <2>4. Stages' /\ Reported'
    BY <1>0, <1>b, <1>f, <2>1, <2>2 DEF Stages, Reported, OwnEnds, Unmarked
  <2>5. QED
    BY <1>b, <1>d, <1>f, <2>1, <2>2, <2>3, <2>4, RunnerDuty DEF Unmarked
<1>6. CASE RunnerReports(s)
  <2>1. /\ runner[s] = "running" /\ exec[s] # "run" /\ UNCHANGED <<runtime, exec>>
        /\ status' = [code |-> IF exec[s] \in OwnEnds THEN "ok" ELSE "bad", by |-> s]
        /\ runner' = [runner EXCEPT ![s] = "closing"]
    BY <1>6 DEF RunnerReports, SetRunner, ReportedCode
  <2>2. Active(s)
    BY <2>1 DEF Active, RunnerAlive, Gone
  <2>3. RecordKnows'
    BY <1>0, <1>e, <1>f, <2>1, <2>2 DEF RecordKnows, Unmarked
  <2>4. Stages' /\ Reported'
    BY <1>0, <1>b, <1>f, <2>1 DEF Stages, Reported, Unmarked
  <2>5. QED
    BY <1>b, <1>d, <1>f, <2>1, <2>2, <2>3, <2>4, RunnerDuty DEF Unmarked
<1>7. CASE RunnerEnds(s)
  <2>1. /\ runner[s] = "closing" /\ UNCHANGED <<status, exec>>
        /\ runner' = [runner EXCEPT ![s] = "ended"]
    BY <1>7 DEF RunnerEnds, SetRunner
  <2>2. Active(s) /\ exec[s] # "run"
    BY <1>0, <2>1 DEF Active, RunnerAlive, Gone, Stages
  <2>3. RecordKnows'
    BY <1>e, <1>f, <2>1, <2>2 DEF RecordKnows, Unmarked
  <2>4. Stages' /\ Reported'
    BY <1>0, <1>b, <1>f, <2>1 DEF Stages, Reported, Unmarked
  <2>5. QED
    BY <1>b, <1>d, <1>f, <2>1, <2>2, <2>3, <2>4, RunnerDuty DEF Unmarked
<1>8. CASE Heartbeat(s)
  <2>1. /\ runner[s] = "running" /\ UNCHANGED <<status, exec, runner>>
        /\ runtime' = Record("running", Current.runner, Current.exec)
    BY <1>8 DEF Heartbeat
  <2>2. Active(s)
    BY <2>1 DEF Active, RunnerAlive, Gone
  <2>3. runtime' # NoFile /\ runtime'.disp = "running" /\ runtime'.exec = Current.exec
    BY <1>0, <2>1, CurrentTyped, RecordTyped
  <2>4. RecordKnows'
    BY <1>0, <1>e, <2>1, <2>2, <2>3 DEF RecordKnows, Unmarked, Current
  <2>5. Stages' /\ Reported'
    BY <1>0, <1>b, <2>1 DEF Stages, Reported
  <2>6. QED
    BY <1>b, <1>d, <2>1, <2>2, <2>4, <2>5, RunnerDuty DEF Unmarked
<1>9. CASE ExecutorStep(s)
  <2>1. /\ exec[s] = "run" /\ UNCHANGED <<runtime, status, runner>>
        /\ \E result \in OwnEnds \cup {"killed"} : exec' = [exec EXCEPT ![s] = result]
    <3>1. exec[s] # "straggles"
      BY <1>0 DEF Stages
    <3>2. ShellKilled(s) => exec' = [exec EXCEPT ![s] = "killed"]
      BY DEF ShellKilled, Noting, Smooth
    <3>3. QED
      BY <1>9, <3>1, <3>2 DEF ExecutorStep, ExecutorEnds, ShellKilled, StragglerEnds
  <2>2. Active(s) /\ runner[s] \in {"spawned", "running", "killed"}
    BY <1>0, <2>1 DEF Active, Stages
  <2>a. exec'[s] \in OwnEnds \cup {"killed"} /\ \A t \in Sessions : t # s => exec'[t] = exec[t]
    BY <1>f, <2>1
  <2>b. "run" \notin OwnEnds \cup {"killed"} /\ "straggles" \notin OwnEnds \cup {"killed"}
    BY DEF OwnEnds
  <2>3. RecordKnows'
    BY <1>0, <1>e, <1>f, <2>1, <2>2, <2>a, <2>b DEF RecordKnows, Unmarked
  <2>4. Stages' /\ Reported'
    BY <1>0, <1>b, <1>f, <2>1, <2>2, <2>a, <2>b DEF Stages, Reported, Unmarked
  <2>5. QED
    BY <1>b, <1>d, <1>f, <2>1, <2>2, <2>3, <2>4, <2>a, <2>b, RunnerDuty DEF Unmarked
<1>10. CASE RunnerKilled(s)
  <2>1. /\ runner[s] \notin Unmarked /\ runner[s] \notin Gone
        /\ UNCHANGED <<runtime, status, exec>>
        /\ runner' = [runner EXCEPT ![s] = "killed"]
    BY <1>10 DEF RunnerKilled, SetRunner, RunnerAlive, Noting, Smooth
  <2>2. Active(s)
    BY <2>1 DEF Active, RunnerAlive
  <2>3. RecordKnows'
    BY <1>0, <1>e, <1>f, <2>1, <2>2 DEF RecordKnows, Unmarked
  <2>4. Stages' /\ Reported'
    BY <1>0, <1>b, <1>f, <2>1 DEF Stages, Reported, Unmarked, Gone
  <2>5. QED
    BY <1>b, <1>d, <1>f, <2>1, <2>2, <2>3, <2>4, RunnerDuty DEF Unmarked
<1>11. QED
  BY <1>1, <1>2, <1>3, <1>4, <1>5, <1>6, <1>7, <1>8, <1>9, <1>10 DEF RunnerStep

(* The fields of a launcher's locals after a stop.                         *)
LEMMA StopEnds ==
  ASSUME job \in [Launchers -> Jobs], NEW l \in Launchers, StopDone(l)
  PROVE  /\ job'[l].at = job[l].next /\ job'[l].session = job[l].session
         /\ job'[l].next = job[l].next
         /\ \A k \in Launchers : k # l => job'[k] = job[k]
         /\ job[l].next \in {"clear", "judge"}
<1>1. job'[l] = Job(job[l].next, job[l].session, NoFile, job[l].next, job[l].timedOut)
      /\ \A k \in Launchers : k # l => job'[k] = job[k]
  BY DEF StopDone, Become
<1>2. job[l].next \in {"clear", "judge"}
  BY DEF Jobs
<1>3. QED
  BY <1>1, <1>2 DEF Job

LEMMA LauncherRunStep ==
  ASSUME RunInv, Smooth', NEW l \in Launchers, LauncherStep(l)
  PROVE  RunInv'
<1>0. /\ SessionTypeOK /\ OneActive /\ RecordKnows /\ Stages /\ Reported /\ Duty(l)
      /\ job \in [Launchers -> Jobs]
  BY DEF RunInv, SessionTypeOK
<1>a. SessionTypeOK'
  BY <1>0, LauncherTypeStep
<1>b. lpc[l] = "held" /\ UNCHANGED laneVars
  BY DEF LauncherStep, BeginSession, StopSignal, StopKill, Clear, WriteInitialRecord,
     SpawnRunner, RewriteRecord, PollStatus, PollRecord, Deadline, Judge, Drives
<1>c. LockHeld'
  BY <1>b DEF RunInv, LockHeld, laneVars, laneFile, Owning
<1>d. ASSUME \A k \in Launchers : k # l => job'[k] = job[k]
      PROVE  \A k \in Launchers : k # l => Duty(k)'
  BY <1>b, <1>d, Alone, IdleDuty
<1>e. lpc'[l] = "held"
  BY <1>b DEF laneVars
<1>f. /\ runner \in [Sessions -> RunnerPlaces]
      /\ exec \in [Sessions -> {"none", "run", "straggles", "killed"} \cup OwnEnds]
      /\ verdict \in [Sessions -> {"none", "ok", "bad", "lost"}]
      /\ status # NoFile => status.by \in Sessions
  BY <1>0 DEF SessionTypeOK
<1>g. UNCHANGED <<runner, exec, runtime, verdict, status>> =>
        OneActive' /\ RecordKnows' /\ Stages' /\ Reported'
  BY <1>0 DEF OneActive, Active, RunnerAlive, RecordKnows, Stages, Reported
<1>h. \A s \in Sessions : runner[s] \in Unmarked => Active(s)
  BY DEF Active, RunnerAlive, Unmarked, Gone
<1> SUFFICES /\ OneActive' /\ RecordKnows' /\ Stages' /\ Reported'
             /\ Duty(l)' /\ \A k \in Launchers : k # l => job'[k] = job[k]
  BY <1>a, <1>c, <1>d DEF RunInv
<1>1. CASE BeginSession(l)
  <2>1. /\ \A s \in Sessions : runner[s] \notin Unmarked
        /\ UNCHANGED <<runtime, status, runner, exec, verdict>>
        /\ job'[l] = Job(IF runtime = NoFile THEN "clear" ELSE "stop", 0, runtime, "clear", FALSE)
        /\ \A k \in Launchers : k # l => job'[k] = job[k]
    BY <1>0, <1>1 DEF BeginSession, Become, Noting, Unsettled, Smooth
  <2>2. /\ job'[l].at = (IF runtime = NoFile THEN "clear" ELSE "stop")
        /\ job'[l].next = "clear" /\ job'[l].prior = runtime
    BY <2>1 DEF Job
  <2>3. Duty(l)'
    BY <1>0, <1>e, <2>1, <2>2 DEF Duty, Stopping, Awaits, NobodyRuns, RecordKnows
  <2>4. QED
    BY <1>g, <2>1, <2>3
<1>2. CASE StopSignal(l)
  <2>1. Stopping(l) /\ UNCHANGED <<runtime, status, verdict>> /\ exec' = exec
    BY <1>2 DEF StopSignal, Drives, Stopping
  <2>2. \A s \in Sessions : runner[s] \notin Unmarked
    BY <1>0, <2>1 DEF Duty
  <2>3. runner' = runner
    <3>1. \A s \in Gone : s \notin Unmarked
      BY DEF Gone, Unmarked
    <3>2. ASSUME TargetAlive(job[l].prior), Target(job[l].prior) = "runner",
                 runner[job[l].prior.runner] \in Unmarked
          PROVE  runner' = runner
      <4>1. CASE job[l].prior.runner \in Sessions
        BY <2>2, <3>2, <4>1
      <4>2. CASE job[l].prior.runner \notin Sessions
        BY <1>2, <1>f, <4>2 DEF StopSignal
      <4>3. QED
        BY <4>1, <4>2
    <3>3. QED
      BY <1>2, <3>2 DEF StopSignal
  <2>4. CASE Move(l, "grace")
    <3>1. job'[l].at = "grace" /\ job'[l].session = job[l].session
          /\ job'[l].prior = job[l].prior /\ job'[l].next = job[l].next
          /\ \A k \in Launchers : k # l => job'[k] = job[k]
      BY <1>0, <2>4, Moved DEF JobPlaces
    <3>2. Duty(l)'
      BY <1>0, <1>e, <2>1, <2>3, <3>1 DEF Duty, Stopping, Awaits, Active, RunnerAlive
    <3>3. QED
      BY <1>g, <2>1, <2>3, <3>1, <3>2
  <2>5. CASE StopDone(l) /\ ~TargetAlive(job[l].prior)
    <3>1. NobodyRuns
      <4>1. ASSUME NEW s \in Sessions, exec[s] = "run" PROVE FALSE
        <5>1. job[l].prior.exec = s /\ s # 0
          BY <1>0, <2>1, <4>1, SessionAssumption DEF Duty, Sessions
        <5>2. QED
          BY <2>5, <4>1, <5>1 DEF TargetAlive, Target
      <4>2. QED
        BY <2>2, <4>1 DEF NobodyRuns
    <3>2. Duty(l)'
      BY <1>0, <1>e, <2>1, <2>3, <2>5, <3>1, StopEnds
         DEF Duty, Stopping, Awaits, Active, RunnerAlive, NobodyRuns
    <3>3. QED
      BY <1>0, <1>g, <2>1, <2>3, <2>5, <3>2, StopEnds
  <2>6. QED
    BY <1>2, <2>4, <2>5 DEF StopSignal
<1>3. CASE StopKill(l)
  <2>1. Stopping(l) /\ StopDone(l) /\ UNCHANGED <<runtime, status, verdict>>
    BY <1>3 DEF StopKill, Drives, Stopping
  <2>2. \A s \in Sessions : runner[s] \notin Unmarked
    BY <1>0, <2>1 DEF Duty
  <2>3. \A s \in Sessions : /\ runner'[s] = runner[s] \/ (RunnerAlive(s) /\ runner'[s] = "killed")
                            /\ exec'[s] = exec[s] \/ (exec[s] = "run" /\ exec'[s] = "killed")
    BY <1>3, <1>f DEF StopKill, TargetAlive, Target
  <2>4. \A s \in Sessions : exec'[s] # "run"
    <3>1. ASSUME NEW s \in Sessions, exec[s] = "run" PROVE exec'[s] = "killed"
      <4>1. job[l].prior.exec = s /\ s # 0
        BY <1>0, <2>1, <3>1, SessionAssumption DEF Duty, Sessions
      <4>2. TargetAlive(job[l].prior) /\ Target(job[l].prior) = "exec"
        BY <3>1, <4>1 DEF TargetAlive, Target
      <4>3. QED
        BY <1>3, <1>f, <4>1, <4>2 DEF StopKill
    <3>2. QED
      BY <2>3, <3>1
  <2>5. \A s \in Sessions : Active(s)' => Active(s)
    BY <2>3 DEF Active, RunnerAlive, Gone
  <2>6. \A s \in Sessions : runner'[s] \notin Unmarked
    BY <2>2, <2>3 DEF Unmarked
  <2>7. OneActive' /\ RecordKnows'
    BY <1>0, <2>4, <2>5, <2>6 DEF OneActive, RecordKnows
  <2>8. Stages'
    BY <1>0, <2>1, <2>2, <2>3, <2>6 DEF Stages, RunnerAlive, Gone
  <2>9. Reported'
    BY <1>0, <1>f, <2>1, <2>3 DEF Reported
  <2>10. Duty(l)'
    BY <1>0, <1>e, <2>1, <2>3, <2>4, <2>5, <2>6, StopEnds DEF Duty, Stopping, Awaits, NobodyRuns
  <2>11. QED
    BY <1>0, <2>1, <2>7, <2>8, <2>9, <2>10, StopEnds
<1>4. CASE Clear(l)
  <2>1. /\ job[l].at = "clear" /\ status' = NoFile /\ runtime' = NoFile
        /\ UNCHANGED <<runner, exec, verdict>>
        /\ \A s \in Sessions : RunnerAlive(s) => exec[s] = "run"
    BY <1>4 DEF Clear, Drives, Noting, Smooth
  <2>2. /\ job'[l].at = "prepare"
        /\ \A k \in Launchers : k # l => job'[k] = job[k]
    BY <1>0, <1>4, Moved DEF Clear, JobPlaces
  <2>3. NobodyRuns /\ \A s \in Sessions : ~Active(s)
    BY <1>0, <2>1 DEF Duty, NobodyRuns, Active
  <2>4. OneActive' /\ RecordKnows' /\ Stages' /\ Reported'
    BY <1>0, <2>1, <2>3 DEF OneActive, Active, RunnerAlive, RecordKnows, Stages, Reported, NobodyRuns
  <2>5. Duty(l)'
    BY <1>e, <2>1, <2>2, <2>3 DEF Duty, Stopping, Awaits, Active, RunnerAlive
  <2>6. QED
    BY <2>2, <2>4, <2>5
<1>5. CASE WriteInitialRecord(l)
  <2>1. /\ job[l].at = "prepare" /\ runtime' = Record("launching", 0, 0)
        /\ UNCHANGED <<status, runner, exec, verdict>>
    BY <1>5 DEF WriteInitialRecord, Drives
  <2>2. /\ job'[l].at = "spawn"
        /\ \A k \in Launchers : k # l => job'[k] = job[k]
    BY <1>0, <1>5, Moved DEF WriteInitialRecord, JobPlaces
  <2>3. status = NoFile /\ \A s \in Sessions : ~Active(s)
    BY <1>0, <2>1 DEF Duty
  <2>4. OneActive' /\ RecordKnows' /\ Stages' /\ Reported'
    BY <1>0, <1>h, <2>1, <2>3 DEF OneActive, Active, RunnerAlive, RecordKnows, Stages, Reported
  <2>5. Duty(l)'
    BY <1>e, <2>1, <2>2, <2>3 DEF Duty, Stopping, Awaits, Active, RunnerAlive
  <2>6. QED
    BY <2>2, <2>4, <2>5
<1>6. CASE SpawnRunner(l)
  <2>1. PICK s \in Sessions : /\ runner[s] = "none" /\ runner' = [runner EXCEPT ![s] = "starting"]
                              /\ Become(l, Job("rewrite", s, NoFile, "clear", FALSE))
    BY <1>6 DEF SpawnRunner, SetRunner
  <2>2. job[l].at = "spawn" /\ UNCHANGED <<runtime, status, exec, verdict>>
    BY <1>6 DEF SpawnRunner, Drives
  <2>3. /\ status = NoFile /\ runtime = Record("launching", 0, 0)
        /\ \A t \in Sessions : ~Active(t)
    BY <1>0, <2>2 DEF Duty
  <2>4. /\ job'[l] = Job("rewrite", s, NoFile, "clear", FALSE)
        /\ \A k \in Launchers : k # l => job'[k] = job[k]
    BY <1>0, <2>1 DEF Become
  <2>5. job'[l].at = "rewrite" /\ job'[l].session = s /\ job'[l].next = "clear"
    BY <2>4 DEF Job
  <2>6. \A t \in Sessions : Active(t)' => t = s
    BY <1>f, <2>1, <2>2, <2>3 DEF Active, RunnerAlive
  <2>7. runtime # NoFile /\ runtime.disp = "launching"
    BY <2>3, Pids, RecordTyped
  <2>8. exec[s] = "none" /\ verdict[s] = "none"
    BY <1>0, <2>1 DEF Stages
  <2>9. RecordKnows'
    BY <1>f, <2>1, <2>2, <2>3, <2>7, <2>8 DEF RecordKnows, Active
  <2>10. OneActive' /\ Stages' /\ Reported'
    BY <1>0, <1>f, <2>1, <2>2, <2>3, <2>6, <2>8 DEF OneActive, Stages, Reported, Unmarked
  <2>11. Duty(l)'
    BY <1>e, <1>f, <2>1, <2>2, <2>3, <2>5, <2>6, <2>8 DEF Duty, Stopping, Awaits
  <2>12. QED
    BY <2>4, <2>9, <2>10, <2>11
<1>7. CASE RewriteRecord(l)
  <2>1. /\ job[l].at = "rewrite" /\ runtime' = Record("launching", job[l].session, 0)
        /\ UNCHANGED <<status, runner, exec, verdict>>
        /\ runner[job[l].session] \in Unmarked
    BY <1>7 DEF RewriteRecord, Drives, Noting, Smooth
  <2>2. /\ job'[l].at = "wait" /\ job'[l].session = job[l].session
        /\ \A k \in Launchers : k # l => job'[k] = job[k]
    BY <1>0, <1>7, Moved DEF RewriteRecord, JobPlaces
  <2>3. /\ job[l].session \in Sessions
        /\ \A s \in Sessions : Active(s) => s = job[l].session
    BY <1>0, <2>1 DEF Duty, Awaits
  <2>4. \A s \in Sessions : exec[s] = "run" => runner[s] \in Unmarked
    BY <2>1, <2>3 DEF Active
  <2>5. runtime' # NoFile /\ runtime'.disp = "launching"
    <3>1. job[l].session \in 0 .. MaxSessions /\ 0 \in 0 .. MaxSessions
      BY <2>3, Pids
    <3>2. Record("launching", job[l].session, 0) # NoFile
      BY <3>1, RecordTyped
    <3>3. QED
      BY <2>1, <3>2 DEF Record
  <2>6. OneActive' /\ RecordKnows' /\ Stages' /\ Reported'
    BY <1>0, <2>1, <2>4, <2>5 DEF OneActive, Active, RunnerAlive, RecordKnows, Stages, Reported
  <2>7. Duty(l)'
    BY <1>0, <1>e, <2>1, <2>2 DEF Duty, Stopping, Awaits, Active, RunnerAlive
  <2>8. QED
    BY <2>2, <2>6, <2>7
<1>8. CASE PollStatus(l)
  <2>1. job[l].at = "wait" /\ UNCHANGED <<runtime, status, runner, exec, verdict>>
    BY <1>8 DEF PollStatus, Drives
  <2>2. /\ job'[l].at = (IF status = NoFile THEN "poll" ELSE "judge")
        /\ job'[l].session = job[l].session
        /\ \A k \in Launchers : k # l => job'[k] = job[k]
    BY <1>0, <1>8, Moved DEF PollStatus, JobPlaces
  <2>3. status # NoFile => NobodyRuns
    <3>1. ASSUME status # NoFile, NEW s \in Sessions PROVE runner[s] \notin Unmarked /\ exec[s] # "run"
      <4>1. /\ status.by = job[l].session /\ (Active(s) => s = job[l].session)
            /\ exec[status.by] # "run" /\ runner[status.by] \in {"closing", "ended", "killed"}
        BY <1>0, <2>1, <3>1 DEF Duty, Awaits, Reported
      <4>2. QED
        BY <1>h, <4>1 DEF Active, Unmarked
    <3>2. QED
      BY <3>1 DEF NobodyRuns
  <2>4. Duty(l)'
    BY <1>0, <1>e, <2>1, <2>2, <2>3 DEF Duty, Stopping, Awaits, Active, RunnerAlive, NobodyRuns
  <2>5. QED
    BY <1>g, <2>1, <2>2, <2>4
<1>9. CASE PollRecord(l)
  <2>1. job[l].at = "poll" /\ UNCHANGED <<runtime, status, runner, exec, verdict>>
    BY <1>9 DEF PollRecord, Drives
  <2>2. /\ job'[l].at = (IF RecordEnded THEN "judge" ELSE "wait")
        /\ job'[l].session = job[l].session
        /\ \A k \in Launchers : k # l => job'[k] = job[k]
    BY <1>0, <1>9, Moved DEF PollRecord, JobPlaces
  <2>3. RecordEnded => NobodyRuns
    BY <1>0 DEF RecordEnded, RecordKnows, NobodyRuns
  <2>4. Duty(l)'
    BY <1>0, <1>e, <2>1, <2>2, <2>3 DEF Duty, Stopping, Awaits, Active, RunnerAlive, NobodyRuns
  <2>5. QED
    BY <1>g, <2>1, <2>2, <2>4
<1>10. CASE Deadline(l)
  <2>1. /\ job[l].at = "poll" /\ \A s \in Sessions : runner[s] \notin Unmarked
        /\ UNCHANGED <<runtime, status, runner, exec, verdict>>
        /\ job'[l] = Job(IF runtime = NoFile THEN "judge" ELSE "stop",
                         job[l].session, runtime, "judge", TRUE)
        /\ \A k \in Launchers : k # l => job'[k] = job[k]
    BY <1>0, <1>10 DEF Deadline, Drives, Become, Noting, Unsettled, Smooth
  <2>2. /\ job'[l].at = (IF runtime = NoFile THEN "judge" ELSE "stop")
        /\ job'[l].session = job[l].session /\ job'[l].next = "judge"
        /\ job'[l].prior = runtime
    BY <2>1 DEF Job
  <2>3. Duty(l)'
    BY <1>0, <1>e, <2>1, <2>2 DEF Duty, Stopping, Awaits, Active, RunnerAlive, NobodyRuns, RecordKnows
  <2>4. QED
    BY <1>g, <2>1, <2>3
<1>11. CASE Judge(l)
  <2>1. /\ job[l].at = "judge" /\ UNCHANGED <<runtime, status, runner, exec>>
        /\ verdict' = [verdict EXCEPT ![job[l].session] = Conclusion(job[l].timedOut)]
        /\ job'[l] = NoJob
        /\ \A k \in Launchers : k # l => job'[k] = job[k]
    BY <1>0, <1>11 DEF Judge, Drives, Become
  <2>2. NobodyRuns /\ job[l].session \in Sessions /\ runner[job[l].session] # "none"
    BY <1>0, <2>1 DEF Duty, Awaits
  <2>3. Stages'
    BY <1>0, <1>f, <2>1, <2>2 DEF Stages, NobodyRuns
  <2>4. OneActive' /\ RecordKnows' /\ Reported'
    BY <1>0, <2>1 DEF OneActive, Active, RunnerAlive, RecordKnows, Reported
  <2>5. Duty(l)'
    BY <2>1, IdleDuty
  <2>6. QED
    BY <2>1, <2>3, <2>4, <2>5
<1>12. QED
  BY <1>1, <1>2, <1>3, <1>4, <1>5, <1>6, <1>7, <1>8, <1>9, <1>10, <1>11 DEF LauncherStep

LEMMA LaneRunStep ==
  ASSUME RunInv, Smooth', LaneStep
  PROVE  RunInv'
<1>1. SessionTypeOK' /\ LockHeld'
  BY TypeStep, LockStep DEF RunInv, LaneStep, Next, Smooth, SessionTypeOK
<1>2. UNCHANGED <<runtime, status, runner, exec, verdict>>
  BY DEF LaneStep
<1>3. OneActive' /\ RecordKnows' /\ Stages' /\ Reported'
  BY <1>2 DEF RunInv, OneActive, Active, RunnerAlive, RecordKnows, Stages, Reported
<1>4. ASSUME NEW l \in Launchers PROVE Duty(l)'
  <2>1. job'[l] = NoJob \/ (job'[l] = job[l] /\ lpc'[l] \notin Finished)
    BY DEF LaneStep
  <2>2. CASE job'[l] = NoJob
    BY <2>2, IdleDuty
  <2>3. CASE job'[l] = job[l] /\ lpc'[l] \notin Finished
    <3>1. lpc[l] = "held" => lpc'[l] = "held"
      BY <2>3 DEF LaneStep, LaneNext, AcquireStep, StartLauncher, OpenLock, WriteLock, InspectLock,
         RemoveStale, RetryOpen, ReleaseLock, Die, Create, JudgeLock, At, Finished, RunInv, SessionTypeOK,
         LaneTypeOK
    <3>2. CASE lpc[l] # "held"
      BY <2>3, <3>2, IdleDuty DEF RunInv, Duty
    <3>3. CASE lpc[l] = "held"
      BY <1>2, <2>3, <3>1, <3>3 DEF RunInv, Duty, Stopping, Awaits, NobodyRuns, Active, RunnerAlive
    <3>4. QED
      BY <3>2, <3>3
  <2>4. QED
    BY <2>1, <2>2, <2>3
<1>5. QED
  BY <1>1, <1>3, <1>4 DEF RunInv

LEMMA RunStep ==
  ASSUME RunInv, Smooth', [Next]_vars
  PROVE  RunInv'
<1>1. CASE UNCHANGED vars
  BY <1>1 DEF vars, laneVars, laneFile, sessionVars, RunInv, SessionTypeOK, LaneTypeOK, LockHeld,
     OneActive, Active, RunnerAlive, RecordKnows, Stages, Reported, Duty, Stopping, Awaits, NobodyRuns
<1>2. QED
  BY <1>1, LaneRunStep, LauncherRunStep, RunnerRunStep DEF Next

-----------------------------------------------------------------------------
LEMMA ContractInit == Init => Contract!Init
BY DEF Init, LaneInit, Contract!Init, AtWork, Sessions, Smooth

(* Without stragglers the executors are the workers of AgentRun.           *)
LEMMA WorkIsExec ==
  ASSUME SessionTypeOK, Stages
  PROVE  AtWork = exec
BY DEF SessionTypeOK, Stages, AtWork

(* A step that is no mishap is one of AgentRun's, or none.                 *)
LEMMA ContractStep ==
  ASSUME RunInv, Smooth', [Next]_vars
  PROVE  (\E s \in Sessions : Contract!Begin(s) \/ Contract!End(s) \/ Contract!Judge(s))
         \/ UNCHANGED <<AtWork, verdict>>
<1> DEFINE ContractDoes ==
        \/ \E t \in Sessions : Contract!Begin(t) \/ Contract!End(t) \/ Contract!Judge(t)
        \/ UNCHANGED <<AtWork, verdict>>
<1>0. SessionTypeOK /\ OneActive /\ Stages /\ Reported /\ \A l \in Launchers : Duty(l)
  BY DEF RunInv
<1>a. AtWork = exec /\ AtWork' = exec'
  <2>1. SessionTypeOK' /\ Stages'
    BY RunStep DEF RunInv
  <2>2. AtWork' = exec'
    BY <2>1 DEF SessionTypeOK, Stages, AtWork
  <2>3. QED
    BY <1>0, <2>2, WorkIsExec
<1>b. /\ exec \in [Sessions -> {"none", "run", "straggles", "killed"} \cup OwnEnds]
      /\ verdict \in [Sessions -> {"none", "ok", "bad", "lost"}]
  BY <1>0 DEF SessionTypeOK
<1>1. ASSUME NEW s \in Sessions, RunnerSpawns(s) PROVE ContractDoes
  <2>1. CASE exec' = exec
    BY <1>1, <1>a, <2>1 DEF RunnerSpawns
  <2>2. CASE exec' = [exec EXCEPT ![s] = "run"]
    <3>1. runner[s] = "launching" /\ verdict' = verdict
      BY <1>1 DEF RunnerSpawns
    <3>2. exec[s] = "none" /\ verdict[s] = "none"
      BY <1>0, <3>1 DEF Stages, Unmarked
    <3>3. \A t \in Sessions : exec[t] # "run"
      BY <1>0, <3>1, <3>2 DEF OneActive, Active, RunnerAlive, Gone
    <3>4. Contract!Begin(s)
      BY <1>a, <2>2, <3>1, <3>2, <3>3 DEF Contract!Begin
    <3>5. QED
      BY <3>4
  <2>3. QED
    BY <1>1, <2>1, <2>2 DEF RunnerSpawns
<1>2. ASSUME NEW s \in Sessions, ExecutorStep(s) PROVE ContractDoes
  <2>0. \A left \in BOOLEAN : Noting("straggler", left) => left = FALSE
    BY DEF Noting, Smooth
  <2>1. Contract!End(s)
    BY <1>0, <1>2, <1>a, <2>0 DEF ExecutorStep, ExecutorEnds, ShellKilled, StragglerEnds, Stages,
       OwnEnds, Contract!OwnEnds, Contract!End
  <2>2. QED
    BY <2>1
<1>3. ASSUME NEW l \in Launchers, StopKill(l) PROVE ContractDoes
  <2> DEFINE x == job[l].prior.exec
  <2>1. verdict' = verdict
    BY <1>3 DEF StopKill
  <2>2. CASE exec' = exec
    BY <1>a, <2>1, <2>2
  <2>3. CASE exec' = [exec EXCEPT ![x] = "killed"] /\ exec[x] = "run" /\ x \in Sessions
    <3>1. Contract!End(x)
      BY <1>a, <2>1, <2>3 DEF Contract!End, Contract!OwnEnds
    <3>2. QED
      BY <2>3, <3>1
  <2>4. exec' = exec \/ (exec' = [exec EXCEPT ![x] = "killed"] /\ exec[x] = "run")
    BY <1>3 DEF StopKill, TargetAlive, Target
  <2>5. x \notin Sessions => [exec EXCEPT ![x] = "killed"] = exec
    BY <1>b
  <2>6. QED
    BY <2>2, <2>3, <2>4, <2>5
<1>4. ASSUME NEW l \in Launchers, Judge(l) PROVE ContractDoes
  <2> DEFINE s == job[l].session
             v == Conclusion(job[l].timedOut)
  <2>1. job[l].at = "judge" /\ exec' = exec /\ verdict' = [verdict EXCEPT ![s] = v]
    BY <1>4 DEF Judge, Drives
  <2>2. /\ s \in Sessions /\ verdict[s] = "none" /\ exec[s] # "run"
        /\ status # NoFile => status.by = s
    BY <1>0, <2>1 DEF Duty, Awaits, NobodyRuns
  <2>3. /\ v \in {"ok", "bad", "lost"}
        /\ v = "ok" => exec[s] \in OwnEnds
        /\ v = "bad" => exec[s] \notin OwnEnds
    BY <1>0, <2>2 DEF Conclusion, Reported, SessionTypeOK
  <2> HIDE DEF v
  <2>4. Contract!Judge(s)
    BY <1>a, <2>1, <2>2, <2>3 DEF Contract!Judge, Contract!OwnEnds, OwnEnds
  <2>5. QED
    BY <2>2, <2>4
<1>5. CASE UNCHANGED <<exec, verdict>>
  BY <1>5, <1>a
<1>6. ASSUME NEW l \in Launchers, LauncherStep(l)
      PROVE  UNCHANGED <<exec, verdict>> \/ StopKill(l) \/ Judge(l)
  BY <1>6 DEF LauncherStep, BeginSession, StopSignal, Clear, WriteInitialRecord, SpawnRunner,
     RewriteRecord, PollStatus, PollRecord, Deadline
<1>7. ASSUME NEW s \in Sessions, RunnerStep(s) \/ Heartbeat(s) \/ ExecutorStep(s) \/ RunnerKilled(s)
      PROVE  UNCHANGED <<exec, verdict>> \/ RunnerSpawns(s) \/ ExecutorStep(s)
  BY <1>7 DEF RunnerStep, RunnerStarts, RunnerMarks, RunnerFails, RunnerReportsFailure,
     RunnerReports, RunnerEnds, Heartbeat, RunnerKilled
<1>8. LaneStep \/ UNCHANGED vars => UNCHANGED <<exec, verdict>>
  BY DEF LaneStep, vars, sessionVars
<1>9. QED
  BY <1>1, <1>2, <1>3, <1>4, <1>5, <1>6, <1>7, <1>8 DEF Next

(* Launcher, runner and their two files implement AgentRun: one worker at  *)
(* a time, one verdict a session, and that verdict about its own executor, *)
(* for any number of launchers that contend and die and of sessions, until *)
(* one of the mishaps the model remembers.                                 *)
THEOREM SessionsImplementAgentRun == Spec => AgentRunRefined
<1> DEFINE GoodInv == SessionTypeOK /\ (Smooth => RunInv)
<1>1. Init => GoodInv
  BY RunInit, InitTyped
<1>2. GoodInv /\ [Next]_vars => GoodInv'
  BY TypeStep, MishapsStay, RunStep
<1>3. GoodInv /\ [Next]_vars => [Contract!Next]_<<AtWork, verdict, ~Smooth>>
  <2> SUFFICES ASSUME GoodInv, [Next]_vars PROVE [Contract!Next]_<<AtWork, verdict, ~Smooth>>
    OBVIOUS
  <2>1. CASE ~Smooth'
    BY <2>1 DEF Contract!Next
  <2>2. CASE Smooth'
    <3>1. Smooth /\ RunInv
      BY <2>2, MishapsStay
    <3>2. UNCHANGED (~Smooth)
      BY <2>2, <3>1
    <3>3. QED
      BY <2>2, <3>1, <3>2, ContractStep DEF Contract!Next, Contract!Work
  <2>3. QED
    BY <2>1, <2>2
<1> HIDE DEF GoodInv
<1>4. QED
  BY <1>1, <1>2, <1>3, ContractInit, PTL DEF Spec, AgentRunRefined, Contract!Spec
=============================================================================
