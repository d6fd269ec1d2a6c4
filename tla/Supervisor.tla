----------------------------- MODULE Supervisor -----------------------------
(***************************************************************************)
(* Runs submitted to the file-backed supervisor:                           *)
(* scripts/wave-orchestrator/supervisor-cli.mjs over the lock of           *)
(* SupervisorLock, with the launcher processes it spawns (the life of      *)
(* runLauncherCli seen from outside), their progress journal               *)
(* (launcher-progress.mjs) and the agents they leave behind.               *)
(*                                                                         *)
(* Everything is shared through files.  A step is a read or a write of one *)
(* of them, or one test of a pid, because another process may run between  *)
(* any two.  `job` is what a daemon or a reader (`wave status`, `wave      *)
(* wait`, the dashboards) holds in its local variables meanwhile.          *)
(***************************************************************************)
EXTENDS SupervisorLock

CONSTANTS
    Runs,           \* run ids, numbered in the order of submission
    Readers,        \* processes that read run states with reconciliation
    Once,           \* the daemons started with --once
    MaxLaunches,    \* bound: launcher processes per run
    ResumeLimit,    \* DEFAULT_SUPERVISOR_RESUME_LIMIT
    Faults,         \* the failures that may happen, see FaultKinds
    Nobody,         \* no supervisorId
    NoLaunch        \* the lane's launcher lock is free

FaultKinds ==
    {"daemonCrash",     \* a daemon is killed, except in the next window
     "crashInSpawn",    \* a daemon is killed between spawn and writeRunState
     "spawnFails",      \* spawn fails with EAGAIN: no pid, and the unhandled
                        \* error event ends the daemon
     "nodeKilled",      \* the launcher is killed, its wrapper reports it
     "groupKilled",     \* launcher and wrapper are killed together
     "wrapperKilled"}   \* the wrapper alone is killed

Launches  == 1 .. MaxLaunches
Observers == Daemons \cup Readers

ASSUME SupervisorAssumption ==
    /\ Runs \subseteq Nat
    /\ IsFiniteSet(Runs)
    /\ MaxLaunches \in Nat
    /\ ResumeLimit \in Nat
    /\ Once \subseteq Daemons
    /\ Daemons \cap Readers = {}
    /\ Nobody \notin Daemons
    /\ NoLaunch \notin Runs \X Launches
    /\ Faults \subseteq FaultKinds

VARIABLES
    runs,        \* state.json of every run
    ensure,      \* runs whose submitter has yet to call ensureSupervisorRunning
    statusFile,  \* launcher-status.json of every run: its exit code
    progress,    \* launcher-progress.json of every run
    agents,      \* agents/*.runtime.json of every run: none, live or stale
    launches,    \* the launcher processes of every run
    laneLock,    \* launcher.lock of the lane: the launcher named in it
    job,         \* local variables of daemons and readers
    orphans,     \* history: launches no state.json was ever written for
    runMishaps   \* history: the races over runs that went wrong

fileVars == <<runs, statusFile>>
procVars == <<progress, agents, launches, laneLock>>
history  == <<orphans, runMishaps>>
supVars  == <<fileVars, ensure, procVars, job, history>>
vars     == <<lockVars, supVars>>

(***************************************************************************)
(* Beside the mishaps of the lock, what the code does not exclude and what *)
(* breaks a promise about runs.  It all happens here and is remembered:    *)
(* "clash" : a reader changed what state.json says of the launches of a    *)
(*           run while a daemon had a copy of it in hand, or from a copy   *)
(*           that was itself out of date;                                  *)
(* "early" : a reader reported the end of a run whose wrapper was still up *)
(*           (it tests the journal before the pid, or a daemon has just    *)
(*           started the run);                                             *)
(* "alone" : a wrapper was killed and its launcher went on.                *)
(***************************************************************************)
RunMishapKinds == {"clash", "early", "alone"}

RunState ==
    [status  : {"none", "pending", "running", "completed", "failed"},
     pid     : 0 .. MaxLaunches,        \* launcherPid, 0 is null
     resumes : Nat,                     \* resumeAttempts
     owner   : Daemons \cup {Nobody},   \* supervisorId
     disp    : {"pending", "running", "completed", "failed",
                "launcher-lost-agents-running", "launcher-lost-before-status"}]

Codes     == {"none", "ok", "err"}
Journals  == {"none", "starting", "open", "completed", "failed"}
Runtimes  == {"none", "live", "stale"}
Processes ==
    [node : {"none", "boot", "work", "final", "dead"},   \* wave-launcher.mjs
     wrap : {"none", "up", "down"},                      \* the bash around it
     code : {"none", "ok", "err", "refused"},            \* its exit code
     won  : BOOLEAN]              \* history: it finished all selected waves

Jobs ==
    [at      : {"idle", "start", "adopt", "beat", "scan", "reconcile", "agents",
                "progress", "pid", "apply", "pick", "spawn", "record"},
     snap    : [Runs -> RunState],     \* the states read by pendingRunStates
     todo    : SUBSET Runs,            \* entries the for loop has still to visit
     cur     : Runs \cup {0},          \* the entry being reconciled
     adopt   : BOOLEAN,                \* in the adoption loop, not the main one
     status  : Codes,                  \* what it read of cur, in this order
     agents  : Runtimes,
     journal : Journals,
     up      : BOOLEAN,
     launch  : 0 .. MaxLaunches]       \* child.pid of the launch just spawned

Terminal == {"completed", "failed"}

NoRun == [status |-> "none", pid |-> 0, resumes |-> 0, owner |-> Nobody,
          disp |-> "pending"]
NoProcess == [node |-> "none", wrap |-> "none", code |-> "none", won |-> FALSE]
NoJob ==
    [at |-> "idle", snap |-> [r \in Runs |-> NoRun], todo |-> {}, cur |-> 0,
     adopt |-> FALSE, status |-> "none", agents |-> "none",
     journal |-> "none", up |-> FALSE, launch |-> 0]

Least(r, S) == r \in S /\ \A q \in S : r <= q

RunsWith(states, status) == {r \in Runs : states[r].status = status}

Launched(r) == {l \in Launches : launches[r][l].node # "none"}

NodeAlive(r, l)    == launches[r][l].node \in {"boot", "work", "final"}
WrapperAlive(r, l) == l \in Launches /\ launches[r][l].wrap = "up"

(* One process's locals, or one launcher process, changes.                 *)
SetJob(o, j)        == job' = [job EXCEPT ![o] = j]
SetLaunch(r, l, p)  == launches' = [launches EXCEPT ![r][l] = p]

-----------------------------------------------------------------------------
(* reconcileSupervisorRun and reconcileSupervisorReadState: what to make   *)
(* of a state read earlier and of the evidence read since, in the order    *)
(* each function tests it.                                                 *)
Finalized(journal) == journal \in Terminal

(* Mutant: a status file is taken for success, whatever it says.           *)
SettledByPresence(s, j) == [s EXCEPT !.status = "completed", !.disp = "completed"]

(* Mutant: the exit code is stored in place of the status.                 *)
SettledByRawCode(s, j) == [s EXCEPT !.status = j.status, !.disp = "completed"]

SettledByStatus(s, j) ==
    LET result == IF j.status = "ok" THEN "completed" ELSE "failed"
    IN  [s EXCEPT !.status = result, !.disp = result]

SettledByJournal(s, j) == [s EXCEPT !.status = j.journal, !.disp = j.journal]

(* Mutant of the daemon's order: the journal is tested before the pid.     *)
VerdictJournalFirst(s, j) ==
    IF j.status # "none" THEN "status"
    ELSE IF s.status # "running" THEN "keep"
    ELSE IF Finalized(j.journal) THEN "journal"
    ELSE IF j.up THEN "healthy"
    ELSE IF j.agents = "live" THEN "degraded"
    ELSE IF s.resumes < ResumeLimit THEN "resume"
    ELSE "lost"

(* Mutant: a lost launcher past the limit is left as it is.                *)
VerdictNeverLost(s, j) ==
    IF j.status # "none" THEN "status"
    ELSE IF s.status = "running" /\ ~j.up /\ s.resumes < ResumeLimit THEN "resume"
    ELSE "keep"

(* Mutant: the launcher's pid is not tested.                               *)
VerdictIgnoresPid(s, j) ==
    IF j.status # "none" THEN "status"
    ELSE IF s.status # "running" THEN "keep"
    ELSE IF Finalized(j.journal) THEN "journal"
    ELSE IF s.resumes < ResumeLimit THEN "resume"
    ELSE "healthy"

(* The daemon: status file, pid, agents, journal, then resume or give up.  *)
Verdict(s, j) ==
    IF j.status # "none" THEN "status"
    ELSE IF s.status # "running" THEN "keep"
    ELSE IF j.up THEN "healthy"
    ELSE IF j.agents = "live" THEN "degraded"
    ELSE IF Finalized(j.journal) THEN "journal"
    ELSE IF s.resumes < ResumeLimit THEN "resume"
    ELSE "lost"

(* Readers: the journal comes before the pid, and they never resume.       *)
ReadVerdict(s, j) ==
    IF j.status # "none" THEN "status"
    ELSE IF s.status # "running" THEN "keep"
    ELSE IF Finalized(j.journal) THEN "journal"
    ELSE IF j.up THEN "healthy"
    ELSE IF j.agents = "live" THEN "degraded"
    ELSE "keep"

Reconciled(s, j, verdict) ==
    CASE verdict = "status"   -> SettledByStatus(s, j)
      [] verdict = "healthy"  -> [s EXCEPT !.disp = "running"]
      [] verdict = "degraded" -> [s EXCEPT !.disp = "launcher-lost-agents-running"]
      [] verdict = "journal"  -> SettledByJournal(s, j)
      [] verdict = "lost"     -> [s EXCEPT !.status = "failed",
                                           !.disp = "launcher-lost-before-status"]
      [] OTHER                -> s

-----------------------------------------------------------------------------
Init ==
    /\ LockInit
    /\ runs = [r \in Runs |-> NoRun]
    /\ ensure = {}
    /\ statusFile = [r \in Runs |-> "none"]
    /\ progress = [r \in Runs |-> "none"]
    /\ agents = [r \in Runs |-> "none"]
    /\ launches = [r \in Runs |-> [l \in Launches |-> NoProcess]]
    /\ laneLock = NoLaunch
    /\ job = [o \in Observers |-> NoJob]
    /\ orphans = [r \in Runs |-> 0]
    /\ runMishaps = {}

(* wave submit: request and state are written, then a daemon is looked for.*)
Submit(r) ==
    /\ runs[r].status = "none"
    /\ \A q \in Runs : q < r => runs[q].status # "none"
    /\ runs' = [runs EXCEPT ![r].status = "pending"]
    /\ ensure' = ensure \cup {r}
    /\ UNCHANGED <<lockVars, statusFile, procVars, job, history>>

(* ensureSupervisorRunning: nothing to do under a live lock, else spawn a  *)
(* daemon (which is in no state to have --once).                           *)
EnsureSupervisorRunning(r) ==
    /\ r \in ensure
    /\ ensure' = ensure \ {r}
    /\ \/ LiveLock /\ UNCHANGED lockVars
       \/ ~LiveLock /\ \E d \in Daemons \ Once : Start(d)
    /\ UNCHANGED <<fileVars, procVars, job, history>>

(* An operator runs `wave supervise`.                                      *)
StartDaemon(d) ==
    /\ Start(d)
    /\ UNCHANGED supVars

-----------------------------------------------------------------------------
(* The daemon.  Acquiring the lock is SupervisorLock's.                    *)
Acquire(d) ==
    /\ \/ (Open(d) \/ Inspect(d) \/ Remove(d)) /\ UNCHANGED job
       \/ WriteLock(d) /\ SetJob(d, [NoJob EXCEPT !.at = "start"])
    /\ UNCHANGED <<runs, ensure, statusFile, procVars, history>>

(* pendingRunStates: all states are read before the first is reconciled.   *)
(* Of what it reads only the entries it will visit are kept.               *)
Snapshot(S) == [r \in Runs |-> IF r \in S THEN runs[r] ELSE NoRun]

ReadStates(d, next, adopting) ==
    LET todo == RunsWith(runs, "running")
    IN  SetJob(d, [NoJob EXCEPT !.at = next, !.todo = todo, !.adopt = adopting,
                                !.snap = Snapshot(todo)])

AdoptScan(d) ==
    /\ pc[d] = "held" /\ job[d].at = "start"
    /\ ReadStates(d, "adopt", TRUE)
    /\ UNCHANGED <<lockVars, fileVars, ensure, procVars, history>>

(* Each running run gets the daemon's id, and is then reconciled from the  *)
(* state as it was before that.                                            *)
AdoptRun(d) ==
    /\ job[d].at = "adopt"
    /\ \E r \in Runs :
          /\ Least(r, job[d].todo)
          /\ runs' = [runs EXCEPT ![r] = [job[d].snap[r] EXCEPT !.owner = d]]
    /\ SetJob(d, [job[d] EXCEPT !.at = "reconcile"])
    /\ UNCHANGED <<lockVars, statusFile, ensure, procVars, history>>

AdoptDone(d) ==
    /\ job[d].at = "adopt" /\ job[d].todo = {}
    /\ SetJob(d, [NoJob EXCEPT !.at = "beat"])
    /\ UNCHANGED <<lockVars, fileVars, ensure, procVars, history>>

Heartbeat(d) ==
    /\ job[d].at = "beat"
    /\ \/ BeatOpen(d) /\ UNCHANGED job
       \/ BeatWrite(d) /\ SetJob(d, [NoJob EXCEPT !.at = "scan"])
    /\ UNCHANGED <<runs, ensure, statusFile, procVars, history>>

Scan(d) ==
    /\ pc[d] = "held" /\ job[d].at = "scan"
    /\ ReadStates(d, "reconcile", FALSE)
    /\ UNCHANGED <<lockVars, fileVars, ensure, procVars, history>>

(* A reader finds the run and reads its state.                             *)
ReadState(o, r) ==
    /\ o \in Readers /\ job[o].at = "idle"
    /\ runs[r].status # "none"
    /\ SetJob(o, [NoJob EXCEPT !.at = "reconcile", !.todo = {r},
                               !.snap = Snapshot({r})])
    /\ UNCHANGED <<lockVars, fileVars, ensure, procVars, history>>

(* The evidence, one file after the other: launcher-status.json first, the *)
(* pid last.  A status file decides alone, what is read after it has no    *)
(* effect and is left out.                                                 *)
ReadStatus(o) ==
    /\ job[o].at = "reconcile"
    /\ \E r \in Runs :
          /\ Least(r, job[o].todo)
          /\ SetJob(o, [job[o] EXCEPT !.cur = r, !.status = statusFile[r],
                  !.at = IF statusFile[r] = "none" THEN "agents" ELSE "apply"])
    /\ UNCHANGED <<lockVars, fileVars, ensure, procVars, history>>

ReadAgents(o) ==
    /\ job[o].at = "agents"
    /\ SetJob(o, [job[o] EXCEPT !.agents = agents[job[o].cur], !.at = "progress"])
    /\ UNCHANGED <<lockVars, fileVars, ensure, procVars, history>>

ReadProgress(o) ==
    /\ job[o].at = "progress"
    /\ SetJob(o, [job[o] EXCEPT !.journal = progress[job[o].cur], !.at = "pid"])
    /\ UNCHANGED <<lockVars, fileVars, ensure, procVars, history>>

CheckPid(o) ==
    LET j == job[o]
    IN  /\ j.at = "pid"
        /\ SetJob(o, [j EXCEPT !.up = WrapperAlive(j.cur, j.snap[j.cur].pid),
                               !.at = "apply"])
        /\ UNCHANGED <<lockVars, fileVars, ensure, procVars, history>>

(* Back to the loop over the entries.                                      *)
NextEntry(j) ==
    [NoJob EXCEPT !.at = IF j.adopt THEN "adopt" ELSE "reconcile",
                  !.adopt = j.adopt,
                  !.todo = j.todo \ {j.cur},
                  !.snap = [j.snap EXCEPT ![j.cur] = NoRun]]

Apply(d) ==
    LET j == job[d]
        r == j.cur
        s == j.snap[r]
        v == Verdict(s, j)
    IN  /\ d \in Daemons /\ j.at = "apply"
        /\ IF v = "resume"
           THEN /\ SetJob(d, [j EXCEPT !.at = "spawn"])
                /\ UNCHANGED runs
           ELSE /\ SetJob(d, NextEntry(j))
                /\ runs' = IF v = "keep" /\ j.agents = "none" THEN runs
                           ELSE [runs EXCEPT ![r] = Reconciled(s, j, v)]
        /\ UNCHANGED <<lockVars, statusFile, ensure, procVars, history>>

(* What a state says of the launches of its run.                           *)
Same(s, t) == s.status = t.status /\ s.pid = t.pid /\ s.resumes = t.resumes

InHandOf(d, r) == job[d].snap[r] # NoRun

(* What is wrong with a reader's writing a state of r now.                 *)
WriteMishaps(o, r, written) ==
    {m \in RunMishapKinds :
        \/ /\ m = "clash"
           /\ ~Same(written, runs[r])
           /\ \/ ~Same(job[o].snap[r], runs[r])
              \/ \E d \in Daemons : InHandOf(d, r)
        \/ /\ m = "early"
           /\ written.status \in Terminal /\ runs[r].status \notin Terminal
           /\ \E l \in Launches : WrapperAlive(r, l)}

(* The reader's last step is a write, of the state it read at the start.   *)
(* With nothing to say it leaves the file alone if the wave number it      *)
(* resolves is the one in the state, which is not modelled: a run with no  *)
(* wave yet resolves to 0, not to null, and is written.                    *)
ReaderApply(o) ==
    LET j == job[o]
        r == j.cur
        v == ReadVerdict(j.snap[r], j)
        written == Reconciled(j.snap[r], j, v)
    IN  /\ o \in Readers /\ j.at = "apply"
        /\ SetJob(o, NoJob)
        /\ \/ /\ runs' = [runs EXCEPT ![r] = written]
              /\ runMishaps' = runMishaps \cup WriteMishaps(o, r, written)
           \/ v = "keep" /\ j.agents = "none" /\ UNCHANGED <<runs, runMishaps>>
        /\ UNCHANGED <<lockVars, statusFile, ensure, procVars, orphans>>

ReconcileDone(d) ==
    /\ d \in Daemons
    /\ job[d].at = "reconcile" /\ job[d].todo = {}
    /\ SetJob(d, [NoJob EXCEPT !.at = "pick"])
    /\ UNCHANGED <<lockVars, fileVars, ensure, procVars, history>>

(* Mutants: a running run does not hold the queue back; a waiting one does;*)
(* a failed one is claimed like a pending one.                             *)
BusyNever           == FALSE
BusyWhilePending    == RunsWith(runs, "running") \cup RunsWith(runs, "pending") # {}
ClaimableWithFailed == RunsWith(runs, "pending") \cup RunsWith(runs, "failed")

Busy      == RunsWith(runs, "running") # {}
Claimable == RunsWith(runs, "pending")

Claim(d) ==
    /\ \E r \in Runs :
          /\ Least(r, Claimable)
          /\ SetJob(d, [NoJob EXCEPT !.at = "spawn", !.cur = r,
                                     !.snap = Snapshot({r})])
    /\ UNCHANGED lockVars

Sleep(d) ==
    /\ SetJob(d, [NoJob EXCEPT !.at = "beat"])
    /\ UNCHANGED lockVars

(* Mutant: the daemon ends without its finally block.                      *)
LeaveLocked(d) ==
    /\ Goto(d, "exited")
    /\ SetJob(d, NoJob)
    /\ UNCHANGED <<pathVars, mishaps>>

Leave(d) ==
    /\ Release(d)
    /\ SetJob(d, NoJob)

(* The states are read again; with none running the oldest pending run is  *)
(* claimed.  --once ends when nothing is left, otherwise the daemon sleeps *)
(* pollMs and goes on to the next heartbeat.                               *)
Pick(d) ==
    /\ pc[d] = "held" /\ job[d].at = "pick"
    /\ \/ ~Busy /\ Claim(d)
       \/ ~Busy /\ Claimable = {} /\ d \in Once /\ Leave(d)
       \/ (Busy \/ (Claimable = {} /\ d \notin Once)) /\ Sleep(d)
    /\ UNCHANGED <<fileVars, ensure, procVars, history>>

(* startSupervisorRun: the status file is removed and the wrapper spawned, *)
(* and only then is the state written.                                     *)
Spawn(d) ==
    LET r == job[d].cur
    IN  /\ job[d].at = "spawn"
        /\ statusFile' = [statusFile EXCEPT ![r] = "none"]
        /\ \E l \in Launches :
              /\ Least(l, Launches \ Launched(r))
              /\ SetLaunch(r, l, [NoProcess EXCEPT !.node = "boot", !.wrap = "up"])
              /\ SetJob(d, [job[d] EXCEPT !.launch = l, !.at = "record"])
        /\ UNCHANGED <<lockVars, runs, ensure, progress, agents, laneLock, history>>

SpawnFails(d) ==
    /\ "spawnFails" \in Faults
    /\ job[d].at = "spawn"
    /\ statusFile' = [statusFile EXCEPT ![job[d].cur] = "none"]
    /\ SetJob(d, [job[d] EXCEPT !.launch = 0, !.at = "record"])
    /\ UNCHANGED <<lockVars, runs, ensure, procVars, history>>

(* Mutant: a resumption is not counted.                                    *)
StartedUncounted(d, s, launch) ==
    [s EXCEPT !.pid = launch, !.disp = "running", !.status = "running",
              !.owner = IF s.status = "running" THEN @ ELSE d]

(* A state that was running already is being resumed and keeps its owner.  *)
Started(d, s, launch) ==
    IF s.status = "running"
    THEN [s EXCEPT !.pid = launch, !.disp = "running", !.resumes = s.resumes + 1]
    ELSE [s EXCEPT !.pid = launch, !.disp = "running", !.status = "running",
                   !.owner = d]

Record(d) ==
    LET j == job[d]
        r == j.cur
    IN  /\ j.at = "record"
        /\ runs' = [runs EXCEPT ![r] = Started(d, j.snap[r], j.launch)]
        /\ IF j.launch = 0
           THEN Crash(d) /\ SetJob(d, NoJob)
           ELSE /\ SetJob(d, IF j.snap[r].status = "running" THEN NextEntry(j)
                             ELSE [NoJob EXCEPT !.at = "beat"])
                /\ UNCHANGED lockVars
        /\ UNCHANGED <<statusFile, ensure, procVars, history>>

(* A launch whose daemon dies before writeRunState is in no state.json.    *)
DaemonCrash(d) ==
    LET lost == job[d].at = "record" /\ job[d].launch # 0
    IN  /\ Crash(d)
        /\ IF lost THEN "crashInSpawn" \in Faults ELSE "daemonCrash" \in Faults
        /\ SetJob(d, NoJob)
        /\ orphans' = IF lost THEN [orphans EXCEPT ![job[d].cur] = @ + 1]
                      ELSE orphans
        /\ UNCHANGED <<fileVars, ensure, procVars, runMishaps>>

LeaseLapse == Lapse /\ UNCHANGED supVars

-----------------------------------------------------------------------------
(* The launcher a wrapper runs.  acquireLauncherLock: a lock whose pid is  *)
(* dead is taken over, a live one ends the launcher with exit code 32      *)
(* before it touches the journal.                                          *)
LaneBusy == laneLock # NoLaunch /\ NodeAlive(laneLock[1], laneLock[2])

LauncherStarts(r, l) ==
    /\ launches[r][l].node = "boot"
    /\ ~LaneBusy
    /\ laneLock' = <<r, l>>
    /\ progress' = [progress EXCEPT ![r] = "starting"]
    /\ SetLaunch(r, l, [launches[r][l] EXCEPT !.node = "work"])
    /\ UNCHANGED <<lockVars, fileVars, ensure, agents, job, history>>

LauncherRefused(r, l) ==
    /\ launches[r][l].node = "boot"
    /\ LaneBusy
    /\ SetLaunch(r, l, [launches[r][l] EXCEPT !.node = "dead", !.code = "refused"])
    /\ UNCHANGED <<lockVars, fileVars, ensure, progress, agents, laneLock, job,
                   history>>

(* It works on its waves and starts agents, which outlive it.              *)
LaunchAgents(r, l) ==
    /\ launches[r][l].node = "work"
    /\ progress' = [progress EXCEPT ![r] = "open"]
    /\ agents' = [agents EXCEPT ![r] = "live"]
    /\ UNCHANGED <<lockVars, fileVars, ensure, launches, laneLock, job, history>>

AgentsEnd(r) ==
    /\ agents[r] = "live"
    /\ agents' = [agents EXCEPT ![r] = "stale"]
    /\ UNCHANGED <<lockVars, fileVars, ensure, progress, launches, laneLock, job,
                   history>>

(* The journal is finalized, then the lock is released and the process     *)
(* ends.                                                                   *)
Finalize(r, l, code) ==
    /\ launches[r][l].node = "work"
    /\ progress' = [progress EXCEPT
                        ![r] = IF code = "ok" THEN "completed" ELSE "failed"]
    /\ SetLaunch(r, l, [launches[r][l] EXCEPT !.node = "final", !.code = code,
                                              !.won = (code = "ok")])
    /\ UNCHANGED <<lockVars, fileVars, ensure, agents, laneLock, job, history>>

LauncherExits(r, l) ==
    /\ launches[r][l].node = "final"
    /\ SetLaunch(r, l, [launches[r][l] EXCEPT !.node = "dead"])
    /\ laneLock' = NoLaunch
    /\ UNCHANGED <<lockVars, fileVars, ensure, progress, agents, job, history>>

(* The wrapper writes launcher-status.json after the launcher has ended.   *)
WrapperReports(r, l) ==
    /\ launches[r][l].node = "dead" /\ launches[r][l].wrap = "up"
    /\ statusFile' = [statusFile EXCEPT
                          ![r] = IF launches[r][l].code = "ok" THEN "ok" ELSE "err"]
    /\ SetLaunch(r, l, [launches[r][l] EXCEPT !.wrap = "down"])
    /\ UNCHANGED <<lockVars, runs, ensure, progress, agents, laneLock, job, history>>

(* Kills, by an operator or the memory manager.                            *)
NodeGone(p)    == IF p.node = "dead" THEN p
                  ELSE [p EXCEPT !.node = "dead", !.code = "err"]
WrapperGone(p) == [p EXCEPT !.wrap = "down"]

Kill(r, l) ==
    /\ WrapperAlive(r, l)
    /\ \/ /\ "nodeKilled" \in Faults /\ NodeAlive(r, l)
          /\ SetLaunch(r, l, NodeGone(launches[r][l]))
          /\ UNCHANGED runMishaps
       \/ /\ "groupKilled" \in Faults
          /\ SetLaunch(r, l, WrapperGone(NodeGone(launches[r][l])))
          /\ UNCHANGED runMishaps
       \/ /\ "wrapperKilled" \in Faults
          /\ SetLaunch(r, l, WrapperGone(launches[r][l]))
          /\ runMishaps' = IF NodeAlive(r, l) THEN runMishaps \cup {"alone"} ELSE runMishaps
    /\ UNCHANGED <<lockVars, fileVars, ensure, progress, agents, laneLock, job, orphans>>

-----------------------------------------------------------------------------
Observe(o) == ReadStatus(o) \/ ReadAgents(o) \/ ReadProgress(o) \/ CheckPid(o)

DaemonStep(d) ==
    \/ Acquire(d) \/ AdoptScan(d) \/ AdoptRun(d) \/ AdoptDone(d)
    \/ Heartbeat(d) \/ Scan(d) \/ Observe(d) \/ Apply(d) \/ ReconcileDone(d)
    \/ Pick(d) \/ Spawn(d) \/ Record(d)

ReaderStep(o) ==
    \/ \E r \in Runs : ReadState(o, r)
    \/ Observe(o) \/ ReaderApply(o)

LauncherAdvances(r, l) ==
    \/ LauncherStarts(r, l) \/ LauncherRefused(r, l)
    \/ \E code \in {"ok", "err"} : Finalize(r, l, code)
    \/ LauncherExits(r, l) \/ WrapperReports(r, l)

LauncherStep(r, l) == LaunchAgents(r, l) \/ LauncherAdvances(r, l)

Next ==
    \/ \E r \in Runs : Submit(r) \/ EnsureSupervisorRunning(r) \/ AgentsEnd(r)
    \/ \E d \in Daemons :
          StartDaemon(d) \/ DaemonStep(d) \/ SpawnFails(d) \/ DaemonCrash(d)
    \/ \E o \in Readers : ReaderStep(o)
    \/ \E r \in Runs, l \in Launches : LauncherStep(r, l) \/ Kill(r, l)
    \/ LeaseLapse

Spec == Init /\ [][Next]_vars

(* Processes that run keep running, a launcher ends in time (it gives its  *)
(* agents deadlines), and a submitter does not stop between its two steps. *)
(* Nothing is assumed of operators, readers, kills and crashes, nor of the *)
(* agents a dead launcher leaves: their deadlines died with it.            *)
Fairness ==
    /\ \A d \in Daemons : WF_vars(DaemonStep(d))
    /\ \A r \in Runs :
          /\ WF_vars(EnsureSupervisorRunning(r))
          /\ \A l \in Launches : WF_vars(LauncherAdvances(r, l))

FairSpec == Spec /\ Fairness

-----------------------------------------------------------------------------
(* Each variable has its type.                                             *)
SupervisorTypeOK ==
    /\ LockTypeOK
    /\ runs \in [Runs -> RunState]
    /\ ensure \in SUBSET Runs
    /\ statusFile \in [Runs -> Codes]
    /\ progress \in [Runs -> Journals]
    /\ agents \in [Runs -> Runtimes]
    /\ launches \in [Runs -> [Launches -> Processes]]
    /\ laneLock \in (Runs \X Launches) \cup {NoLaunch}
    /\ job \in [Observers -> Jobs]
    /\ orphans \in [Runs -> Nat]
    /\ runMishaps \in SUBSET RunMishapKinds

(* One daemon works, and no reader has written over what it does.          *)
Unmixed == mishaps = {} /\ "clash" \notin runMishaps

Won(r) == \E l \in Launches : launches[r][l].won

(* A run is reported completed only if one of its launchers finished all   *)
(* the selected waves, whichever file, journal or stale copy of the state  *)
(* the writer went by.                                                     *)
SuccessHasEvidence == \A r \in Runs : runs[r].status = "completed" => Won(r)

(* A lost launcher is replaced ResumeLimit times at most: beyond that, and *)
(* the first launch, only launches whose daemon died before recording them,*)
(* unless a reader has written over the count.                             *)
ResumeBudget ==
    Unmixed =>
        \A r \in Runs : Cardinality(Launched(r)) <= 1 + ResumeLimit + orphans[r]

(* A run never has two supervised launchers, unless a daemon died before   *)
(* recording one or a reader has written over its record.                  *)
OneLauncherPerRun ==
    Unmixed =>
        \A r \in Runs : \A k, l \in Launches :
            orphans[r] = 0 /\ WrapperAlive(r, k) /\ WrapperAlive(r, l) => k = l

(* The lane works on one submitted run at a time, with readers beside the  *)
(* daemon that settle runs too.                                            *)
OneRunAtATime == Unmixed => Cardinality(RunsWith(runs, "running")) <= 1

(* A run that is reported over has no launcher still working on it, unless *)
(* its end was reported early or its wrapper was killed alone.             *)
SettledIsQuiet ==
    mishaps = {} /\ runMishaps = {} =>
        \A r \in Runs : \A l \in Launches :
            runs[r].status \in Terminal /\ orphans[r] = 0 => ~NodeAlive(r, l)

(* No launcher of a queued run meets the launcher lock of an earlier one:  *)
(* that would fail the run (exit code 32) without any work done.  Again    *)
(* only an early report or a wrapper killed alone bring it about.          *)
QueueNotRefused ==
    mishaps = {} /\ runMishaps = {} /\ (\A r \in Runs : orphans[r] = 0) =>
        \A r \in Runs, l \in Launches : launches[r][l].code # "refused"

(* A run that has ended never runs again, and its end is revised only if   *)
(* there is an exit code to revise it by, which a reader finds when the    *)
(* run was settled by its journal.                                         *)
SettledStays ==
    [][\A r \in Runs :
          Unmixed' /\ runs[r].status \in Terminal =>
              /\ runs'[r].status \in Terminal
              /\ statusFile[r] = "none" => runs'[r].status = runs[r].status]_vars

(* The launcher is gone without an exit code and its agents go on.         *)
AgentsLeft(r) ==
    /\ runs[r].status = "running" /\ statusFile[r] = "none" /\ agents[r] = "live"
    /\ \A l \in Launches : ~WrapperAlive(r, l)

(* A submitted run comes to an end, completed or failed, or is kept        *)
(* waiting for ever by agents that a dead launcher left and that never end.*)
SubmittedRunsSettle ==
    \A r \in Runs :
        runs[r].status = "pending" ~> runs[r].status \in Terminal \/ []AgentsLeft(r)

(* The lock part of every behaviour is one of SupervisorLock.              *)
LockRefined == LockSpec
=============================================================================
