---------------------------- MODULE AgentSessions ----------------------------
(***************************************************************************)
(* One agent of a wave, launched and waited for by the launchers of a lane *)
(* (scripts/wave-orchestrator/launcher-runtime.mjs: launchAgentSession,    *)
(* waitForWaveCompletion; agent-process-runner.mjs: runAgentProcessRunner, *)
(* terminateAgentProcessRuntime) over the launcher lock.                   *)
(*                                                                         *)
(* A session is one launch: a detached runner process that starts the      *)
(* executor (a bash process group), both of which outlive the launcher.    *)
(* They share two files with it: the runtime record (pids and disposition) *)
(* and the status file (exit code).  A session number stands for the pids  *)
(* of its runner and of its executor.                                      *)
(***************************************************************************)
EXTENDS LauncherLock

CONSTANTS
    MaxSessions, \* bound: how often the agent is launched in all
    NoFile       \* neither record nor status: the file does not exist

ASSUME SessionAssumption == MaxSessions \in Nat \ {0}

VARIABLES
    runtime,     \* <agent>.runtime.json: NoFile or a record
    status,      \* <agent>.status: NoFile or [code, by]
    runner,      \* where the runner process of each session is
    exec,        \* executor of each session: "none", "run", "straggles" (its shell
                 \* is gone), or its end: "done" well, "failed", or "killed"
    verdict,     \* what the launcher concluded of each session
    job,         \* locals of each launcher: the session, what it does for it
    mishaps      \* history: the races that went wrong, see SessionMishaps

(***************************************************************************)
(* Races the code does not exclude and that break what a launch promises;  *)
(* they happen here like every other step, and are remembered.             *)
(* "rewrite"  : the launcher, which rewrites the record it started from,   *)
(*              overwrites the one its runner has completed meanwhile.     *)
(* "early"    : a runner is killed, or its record is taken to stop it,     *)
(*              before it has recorded its executor.                       *)
(* "late"     : the files are cleared for the next session before a runner *)
(*              whose executor has ended has reported.                     *)
(* "straggler": the shell that leads the executor's group is killed, and a *)
(*              child of it goes on.                                       *)
(***************************************************************************)
SessionMishaps == {"rewrite", "early", "late", "straggler"}

Noting(kind, happens) == mishaps' = IF happens THEN mishaps \cup {kind} ELSE mishaps

Smooth == laneMishaps = {} /\ mishaps = {}

sessionVars == <<runtime, status, runner, exec, verdict, job, mishaps>>
vars == <<laneVars, sessionVars>>

Sessions == 1 .. MaxSessions

(* pid 0 stands for null.                                                  *)
Record(disp, runnerPid, execPid) == [disp |-> disp, runner |-> runnerPid, exec |-> execPid]

Records ==
    [disp : {"launching", "running", "ended"}, runner : 0 .. MaxSessions, exec : 0 .. MaxSessions]

ASSUME NoFileAssumption == NoFile \notin Records

Unmarked == {"starting", "launching", "spawned", "unspawned"}
Gone     == {"none", "ended", "killed"}
RunnerPlaces == Unmarked \cup Gone \cup {"running", "rejected", "failing", "closing"}

RunnerAlive(s) == runner[s] \notin Gone

(* How an executor ends that nobody kills.                                 *)
OwnEnds == {"done", "failed"}

JobPlaces == {"idle", "stop", "grace", "clear", "prepare", "spawn", "rewrite", "wait", "poll", "judge"}

Job(at, session, prior, next, timedOut) ==
    [at |-> at, session |-> session, prior |-> prior, next |-> next, timedOut |-> timedOut]

Jobs ==
    [at : JobPlaces, session : 0 .. MaxSessions, prior : Records \cup {NoFile},
     next : {"clear", "judge"}, timedOut : BOOLEAN]

NoJob == Job("idle", 0, NoFile, "clear", FALSE)

Drives(l, place) == lpc[l] = "held" /\ job[l].at = place

Become(l, j) == job' = [job EXCEPT ![l] = j]

Move(l, place) == Become(l, [job[l] EXCEPT !.at = place])

SetRunner(s, place) == runner' = [runner EXCEPT ![s] = place]

-----------------------------------------------------------------------------
Init ==
    /\ LaneInit
    /\ runtime = NoFile
    /\ status = NoFile
    /\ runner = [s \in Sessions |-> "none"]
    /\ exec = [s \in Sessions |-> "none"]
    /\ verdict = [s \in Sessions |-> "none"]
    /\ job = [l \in Launchers |-> NoJob]
    /\ mishaps = {}

(***************************************************************************)
(* terminateAgentProcessRuntime(prior): SIGTERM, a second's grace, then    *)
(* SIGKILL.  It signals the executor's group when the record names it, and *)
(* else the runner.  What SIGTERM does to a group is ShellKilled; it may   *)
(* also be ignored.                                                        *)
(***************************************************************************)
Target(prior) == IF prior.exec # 0 THEN "exec" ELSE IF prior.runner # 0 THEN "runner" ELSE "nobody"

(* terminateAgentProcessRuntime returns to its caller.                     *)
StopDone(l) ==
    Become(l, Job(job[l].next, job[l].session, NoFile, job[l].next, job[l].timedOut))

TargetAlive(prior) ==
    \/ Target(prior) = "exec" /\ exec[prior.exec] = "run"
    \/ Target(prior) = "runner" /\ RunnerAlive(prior.runner)

(* A signal that reaches nobody ends the function.  A runner that has not  *)
(* yet installed its handlers dies of SIGTERM; later, handleSignal stops   *)
(* its executor in the same way, which is ShellKilled again.               *)
StopSignal(l) ==
    /\ Drives(l, "stop")
    /\ LET prior == job[l].prior IN
        /\ IF TargetAlive(prior) THEN Move(l, "grace") ELSE StopDone(l)
        /\ runner' = IF /\ TargetAlive(prior) /\ Target(prior) = "runner"
                        /\ runner[prior.runner] \in Unmarked
                     THEN [runner EXCEPT ![prior.runner] = "killed"] ELSE runner
    /\ UNCHANGED <<runtime, status, exec, verdict, mishaps, laneVars>>

(* Mutant: the grace period ends without SIGKILL.                          *)
StopWithoutKill(l) ==
    /\ Drives(l, "grace")
    /\ StopDone(l)
    /\ UNCHANGED <<runtime, status, runner, exec, verdict, mishaps, laneVars>>

(* SIGKILL, to the whole group or to the runner.                           *)
StopKill(l) ==
    /\ Drives(l, "grace")
    /\ LET prior == job[l].prior IN
        /\ exec' = IF TargetAlive(prior) /\ Target(prior) = "exec"
                   THEN [exec EXCEPT ![prior.exec] = "killed"] ELSE exec
        /\ runner' = IF TargetAlive(prior) /\ Target(prior) = "runner"
                     THEN [runner EXCEPT ![prior.runner] = "killed"] ELSE runner
    /\ StopDone(l)
    /\ UNCHANGED <<runtime, status, verdict, mishaps, laneVars>>

(* A record is taken for what is running while a runner has yet to         *)
(* complete it.                                                            *)
Unsettled == \E s \in Sessions : runner[s] \in Unmarked

(***************************************************************************)
(* launchAgentSession.                                                     *)
(***************************************************************************)
(* The record of the session before is read, by whichever launcher wrote   *)
(* it, and its processes are stopped.                                      *)
BeginSession(l) ==
    /\ Drives(l, "idle")
    /\ \E s \in Sessions : runner[s] = "none"
    /\ Become(l, Job(IF runtime = NoFile THEN "clear" ELSE "stop", 0, runtime, "clear", FALSE))
    /\ Noting("early", Unsettled)
    /\ UNCHANGED <<runtime, status, runner, exec, verdict, laneVars>>

(* Status file and record are removed.                                     *)
Clear(l) ==
    /\ Drives(l, "clear")
    /\ Noting("late", \E s \in Sessions : RunnerAlive(s) /\ exec[s] # "run")
    /\ status' = NoFile
    /\ runtime' = NoFile
    /\ Move(l, "prepare")
    /\ UNCHANGED <<runner, exec, verdict, laneVars>>

(* Prompt, skills and context are awaited; then a record without pids.     *)
WriteInitialRecord(l) ==
    /\ Drives(l, "prepare")
    /\ runtime' = Record("launching", 0, 0)
    /\ Move(l, "spawn")
    /\ UNCHANGED <<status, runner, exec, verdict, mishaps, laneVars>>

SpawnRunner(l) ==
    /\ Drives(l, "spawn")
    /\ \E s \in Sessions :
        /\ runner[s] = "none" /\ \A t \in 1 .. s - 1 : runner[t] # "none"
        /\ SetRunner(s, "starting")
        /\ Become(l, Job("rewrite", s, NoFile, "clear", FALSE))
    /\ UNCHANGED <<runtime, status, exec, verdict, mishaps, laneVars>>

(* The record it started from once more, now with the runner's pid: what   *)
(* the runner has written meanwhile is lost.                               *)
RewriteRecord(l) ==
    /\ Drives(l, "rewrite")
    /\ runtime' = Record("launching", job[l].session, 0)
    /\ Move(l, "wait")
    /\ Noting("rewrite", runner[job[l].session] \notin Unmarked)
    /\ UNCHANGED <<status, runner, exec, verdict, laneVars>>

(***************************************************************************)
(* waitForWaveCompletion for this agent: the status file, then the record, *)
(* then the deadline.                                                      *)
(***************************************************************************)
PollStatus(l) ==
    /\ Drives(l, "wait")
    /\ Move(l, IF status = NoFile THEN "poll" ELSE "judge")
    /\ UNCHANGED <<runtime, status, runner, exec, verdict, mishaps, laneVars>>

RecordEnded == runtime # NoFile /\ runtime.disp = "ended"

PollRecord(l) ==
    /\ Drives(l, "poll")
    /\ Move(l, IF RecordEnded THEN "judge" ELSE "wait")
    /\ UNCHANGED <<runtime, status, runner, exec, verdict, mishaps, laneVars>>

(* Mutant: a record that says "running" extends the deadline.              *)
DeadlineSparesRunning(l) ==
    /\ Drives(l, "poll")
    /\ runtime = NoFile
    /\ Become(l, Job("judge", job[l].session, NoFile, "judge", TRUE))
    /\ UNCHANGED <<runtime, status, runner, exec, verdict, mishaps, laneVars>>

(* The budget of the agent or of the wave is used up.                      *)
Deadline(l) ==
    /\ Drives(l, "poll")
    /\ ~RecordEnded
    /\ Become(l, Job(IF runtime = NoFile THEN "judge" ELSE "stop",
                     job[l].session, runtime, "judge", TRUE))
    /\ Noting("early", Unsettled)
    /\ UNCHANGED <<runtime, status, runner, exec, verdict, laneVars>>

(* Mutant: an agent that ended without a status file counts as done.       *)
MissingStatusIsSuccess(timedOut) ==
    IF status = NoFile \/ status.code = "ok" THEN "ok" ELSE IF timedOut THEN "lost" ELSE "bad"

(* Mutant: a timeout has a verdict of its own.                             *)
TimeoutIsVerdict(timedOut) ==
    IF timedOut THEN "timeout" ELSE IF status = NoFile THEN "lost" ELSE status.code

(* What waitForWaveCompletion makes of the status file: code 0 is a        *)
(* success even after a timeout; no status, or a timeout, is a loss; any   *)
(* other code a failure.  Who wrote the file is not asked.                 *)
Conclusion(timedOut) ==
    IF status # NoFile /\ status.code = "ok" THEN "ok"
    ELSE IF status = NoFile \/ timedOut THEN "lost"
    ELSE "bad"

Judge(l) ==
    /\ Drives(l, "judge")
    /\ verdict' = [verdict EXCEPT ![job[l].session] = Conclusion(job[l].timedOut)]
    /\ Become(l, NoJob)
    /\ UNCHANGED <<runtime, status, runner, exec, mishaps, laneVars>>

(***************************************************************************)
(* The runner, runAgentProcessRunner.                                      *)
(***************************************************************************)
RunnerStarts(s) ==
    /\ runner[s] = "starting"
    /\ runtime' = Record("launching", s, 0)
    /\ SetRunner(s, "launching")
    /\ UNCHANGED <<status, exec, verdict, job, mishaps, laneVars>>

(* spawn("bash") gives a process group, or no pid and an error event that  *)
(* comes after the record was marked.                                      *)
RunnerSpawns(s) ==
    /\ runner[s] = "launching"
    /\ \/ /\ exec' = [exec EXCEPT ![s] = "run"]
          /\ SetRunner(s, "spawned")
       \/ /\ SetRunner(s, "unspawned")
          /\ UNCHANGED exec
    /\ UNCHANGED <<runtime, status, verdict, job, mishaps, laneVars>>

(* updateRuntimeRecord: the record as it is now, or {} if it is gone.      *)
Current == IF runtime = NoFile THEN Record("running", 0, 0) ELSE runtime

RunnerMarks(s) ==
    /\ runner[s] \in {"spawned", "unspawned"}
    /\ runtime' = Record("running", s, IF runner[s] = "spawned" THEN s ELSE 0)
    /\ SetRunner(s, IF runner[s] = "spawned" THEN "running" ELSE "rejected")
    /\ UNCHANGED <<status, exec, verdict, job, mishaps, laneVars>>

(* The heartbeat patches the disposition and leaves the pids as they are.  *)
Heartbeat(s) ==
    /\ runner[s] = "running" /\ status = NoFile
    /\ runtime' = Record("running", Current.runner, Current.exec)
    /\ UNCHANGED <<status, runner, exec, verdict, job, mishaps, laneVars>>

(* The rejected promise: first the record, then a status if there is none. *)
RunnerFails(s) ==
    /\ runner[s] = "rejected"
    /\ runtime' = Record("ended", s, Current.exec)
    /\ SetRunner(s, "failing")
    /\ UNCHANGED <<status, exec, verdict, job, mishaps, laneVars>>

RunnerReportsFailure(s) ==
    /\ runner[s] = "failing"
    /\ status' = IF status = NoFile THEN [code |-> "bad", by |-> s] ELSE status
    /\ SetRunner(s, "ended")
    /\ UNCHANGED <<runtime, exec, verdict, job, mishaps, laneVars>>

(* The code of the shell, which keeps the executor's in $status and does   *)
(* not exit with it: 0 unless the shell was killed.                        *)
ReportedCode(s) == IF exec[s] \in OwnEnds THEN "ok" ELSE "bad"

(* The shell has closed: first the status, then the record.                *)
RunnerReports(s) ==
    /\ runner[s] = "running" /\ exec[s] # "run"
    /\ status' = [code |-> ReportedCode(s), by |-> s]
    /\ SetRunner(s, "closing")
    /\ UNCHANGED <<runtime, exec, verdict, job, mishaps, laneVars>>

RunnerEnds(s) ==
    /\ runner[s] = "closing"
    /\ runtime' = Record("ended", Current.runner, Current.exec)
    /\ SetRunner(s, "ended")
    /\ UNCHANGED <<status, exec, verdict, job, mishaps, laneVars>>

(* The executor ends by itself, well or not, and its shell after it.       *)
ExecutorEnds(s) ==
    /\ exec[s] = "run"
    /\ \E result \in OwnEnds : exec' = [exec EXCEPT ![s] = result]
    /\ UNCHANGED <<runtime, status, runner, verdict, job, mishaps, laneVars>>

(* SIGTERM to the group, or a kill from outside, ends the shell.  A child  *)
(* that handles the signal goes on.                                        *)
ShellKilled(s) ==
    /\ exec[s] = "run"
    /\ \E left \in BOOLEAN :
          /\ exec' = [exec EXCEPT ![s] = IF left THEN "straggles" ELSE "killed"]
          /\ Noting("straggler", left)
    /\ UNCHANGED <<runtime, status, runner, verdict, job, laneVars>>

StragglerEnds(s) ==
    /\ exec[s] = "straggles"
    /\ exec' = [exec EXCEPT ![s] = "killed"]
    /\ UNCHANGED <<runtime, status, runner, verdict, job, mishaps, laneVars>>

(* The runner is killed from outside; its executor goes on.                *)
RunnerKilled(s) ==
    /\ RunnerAlive(s)
    /\ SetRunner(s, "killed")
    /\ Noting("early", runner[s] \in Unmarked)
    /\ UNCHANGED <<runtime, status, exec, verdict, job, laneVars>>

-----------------------------------------------------------------------------
LauncherStep(l) ==
    \/ BeginSession(l) \/ StopSignal(l) \/ StopKill(l) \/ Clear(l)
    \/ WriteInitialRecord(l) \/ SpawnRunner(l) \/ RewriteRecord(l)
    \/ PollStatus(l) \/ PollRecord(l) \/ Deadline(l) \/ Judge(l)

RunnerStep(s) ==
    \/ RunnerStarts(s) \/ RunnerSpawns(s) \/ RunnerMarks(s) \/ RunnerFails(s)
    \/ RunnerReportsFailure(s) \/ RunnerReports(s) \/ RunnerEnds(s)

(* An exception leaves runLauncherCli from anywhere: the lock is released, *)
(* the agents run on, and what the launcher knew of them is gone.          *)
LaneStep ==
    /\ LaneNext
    /\ job' = [l \in Launchers |-> IF lpc'[l] \in Finished THEN NoJob ELSE job[l]]
    /\ UNCHANGED <<runtime, status, runner, exec, verdict, mishaps>>

ExecutorStep(s) == ExecutorEnds(s) \/ ShellKilled(s) \/ StragglerEnds(s)

Next ==
    \/ LaneStep
    \/ \E l \in Launchers : LauncherStep(l)
    \/ \E s \in Sessions : RunnerStep(s) \/ Heartbeat(s) \/ ExecutorStep(s) \/ RunnerKilled(s)

Spec == Init /\ [][Next]_vars

(* Processes that live go on, and a deadline passes in the end: Deadline   *)
(* is enabled again with every round of the wait, hence strong fairness.   *)
(* Nothing makes an executor end.                                          *)
Fairness ==
    /\ \A l \in Launchers : WF_vars(LauncherStep(l)) /\ SF_vars(Deadline(l))
    /\ \A s \in Sessions : WF_vars(RunnerStep(s))

FairSpec == Spec /\ Fairness

-----------------------------------------------------------------------------
(* Each variable has its type.                                             *)
SessionTypeOK ==
    /\ LaneTypeOK
    /\ runtime \in Records \cup {NoFile}
    /\ status \in [code : {"ok", "bad"}, by : Sessions] \cup {NoFile}
    /\ runner \in [Sessions -> RunnerPlaces]
    /\ exec \in [Sessions -> {"none", "run", "straggles", "killed"} \cup OwnEnds]
    /\ verdict \in [Sessions -> {"none", "ok", "bad", "lost"}]
    /\ job \in [Launchers -> Jobs]
    /\ mishaps \in SUBSET SessionMishaps

(* The agent is one worker at a time whatever launchers and runners die,   *)
(* and a verdict is about the executor it was waited for: until the first  *)
(* mishap launcher, runner and their two files implement AgentRun.         *)
AtWork == [s \in Sessions |-> IF exec[s] = "straggles" THEN "run" ELSE exec[s]]
Contract == INSTANCE AgentRun WITH exec <- AtWork, void <- ~Smooth
AgentRunRefined == Contract!Spec

(* A success is always somebody's finished work: whatever file survives    *)
(* from an earlier session and whatever races happen, code 0 was written   *)
(* for an executor of this agent that came to its own end.                 *)
SuccessIsFinished ==
    \A s \in Sessions : verdict[s] = "ok" => \E t \in Sessions : exec[t] \in OwnEnds

(* A launcher that lives does not wait for ever: not for an agent that     *)
(* hangs, nor for one whose runner was killed or whose record was          *)
(* overwritten.                                                            *)
WaitsEnd ==
    \A l \in Launchers : Drives(l, "wait") ~> lpc[l] # "held" \/ job[l].at = "idle"
=============================================================================
