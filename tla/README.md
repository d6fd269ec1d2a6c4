# A TLA+ model of the Wave orchestrator

Wave (`chllming/agent-wave-orchestrator`) runs coding agents in *waves*: design
agents, then implementation owners, then closure stewards that judge the result.
All of its coordination goes through files that several processes write: daemons,
launchers, agent runners, operators' commands. This directory models the parts of
that protocol where the order of events decides the outcome, checks them with TLC
on small instances, and proves the main results with TLAPS for every instance.

Paths below are relative to the repository; `wo/` stands for
`scripts/wave-orchestrator/`.

## 1. The system

| component | state it keeps | operations | what must hold |
|---|---|---|---|
| supervisor lock (`wo/supervisor-cli.mjs`) | `daemon.lock`: pid, supervisorId, lease | acquire, heartbeat, release | one daemon drives the runs; its name is in the file while it lives; a dead daemon's lock is taken over |
| supervisor (`wo/supervisor-cli.mjs`, `wo/launcher-progress.mjs`) | `state.json`, `launcher-status.json`, `launcher-progress.json` and `agents/*.runtime.json` of each run | submit, ensure a daemon, adopt, reconcile (daemon and readers), resume, claim the next run | a run is completed only when its launcher finished; one launcher per run; runs one after the other; bounded resumption; every run settles |
| launcher lock (`wo/session-supervisor.mjs`) | `launcher.lock` of a lane | acquire, release, stale cleanup | one launcher per lane; a dead launcher's lane is taken over |
| wave attempt loop (`wo/launcher.mjs`, `wo/implementation-engine.mjs`) | attempt counter, `runsToLaunch`, failures, the `wave_run` event | select, launch, wait, gate, decide, retry, complete | completion rests on current evidence of every agent; attempts end |
| closure sweep (`wo/closure-engine.mjs`) | closure runs, forwarded failures, blocker records | one stage per steward, missing runs, proof gaps forwarded | stewards judge the final code, in order |
| gates (`wo/gate-engine.mjs`, `wo/wave-state-reducer.mjs`) | none: functions of evidence and coordination | implementation, barriers, design, stewards, clarification | nothing passes without evidence |
| retry planning (`wo/retry-engine.mjs`, `wo/retry-control.mjs`) | retry override, relaunch plan | choose who runs next | proven owners are left alone |
| agent processes (`wo/launcher-runtime.mjs`, `wo/agent-process-runner.mjs`) | runtime record, status file | launch, heartbeat, terminate, wait | one worker per agent; a verdict is about the executor it was waited for; waits end |
| coordination log, human input (`wo/coordination-store.mjs`, `wo/human-input-*.mjs`, `wo/feedback.mjs`) | append-only JSONL, feedback requests | append, triage, route, escalate, answer, reassign, resolve | one blocking question at a time; an answer reaches every record; nothing is closed without a cause |
| control plane (`wo/control-plane.mjs`, `wo/reducer-snapshot.mjs`) | append-only event log | append, reduce | projections equal the log |
| autonomous runner (`wo/autonomous.mjs`), run state (`wo/wave-files.mjs`) | `run-state.json` | reconcile, mark completed, submit the next wave, retry it | waves in order, none skipped, none twice; the loop ends |
| wave-control client and service (`wo/wave-control-client.mjs`, `services/wave-control`) | file queue, delivery state; database | queue, cap, send a batch, ingest | every event arrives, once; only the oldest are dropped; counts never claim too much |
| automatic closure, adjudication (`wo/closure-policy.mjs`, `wo/closure-adjudicator.mjs`) | none: functions of derived state and reports | classify, recover | a stage passes without its steward only when the policy says so |
| everything else | — | planner, install, executors, prompts, dashboards, traces, benchmarks, web interface | sequential or presentation |

How they meet. `wave submit` writes a request and a state and makes sure a daemon
runs. The daemon holds the supervisor lock, claims one run at a time and spawns
`bash` wrapping `wave-launcher.mjs`; the wrapper writes the exit code when the
launcher has ended. The launcher takes the launcher lock, journals its progress,
and goes through the attempts of each wave; agents are detached processes that
outlive it. `wave status`, `wave wait` and the dashboards reconcile a run as the
daemon does, and write what they conclude to the same `state.json`. Humans,
helpers and other lanes append coordination records at any time, and the launcher
reads them when it triages clarifications, reads its gates and plans a retry.
`wave autonomous` submits one wave after the other and reads `run-state.json`, which
launchers and reconciles replace without a lock. Every process queues telemetry
events as files; any of them may flush the queue to the service.

What is hard here: two processes between a read and a write of the same file;
evidence read file by file while the launcher it describes goes on; kills of the
daemon, the launcher and the wrapper separately; retries whose target depends on
records written by others; a counter and a cursor that must end a loop with many
exits. `PROJECT.json` lists every such hazard at its line with the property that
covers it, or the reason why none does.

## 2. Modules

    SupervisorLock  <--- Supervisor (EXTENDS; LockRefined: its lock part implements LockSpec)
      |  \                 |    \
      |   MCSupervisorLock |     MCSupervisor
    SupervisorLockProofs <-+- SupervisorProofs <- SupervisorRunsProofs

    LauncherLock <- AgentSessions <- MCAgentSessions          WaveAttempts <- MCWaveAttempts
                      |       ^----- AgentSessionsProofs            ^-------- WaveAttemptsProofs
                      `-> AgentRun (INSTANCE; AgentRunRefined)

    Telemetry <- MCTelemetry       Coordination <- MCCoordination    RunState <- Autonomous <- MCAutonomous
        ^------- TelemetryProofs         ^-------- CoordinationProofs                ^------ AutonomousProofs

**SupervisorLock.** `acquireSupervisorLock`, the heartbeat and the release, one
system call a step: `Open` (`wx`), `WriteLock`, `Inspect` (the `EEXIST` branch up
to its decision), `Remove`, `BeatOpen`/`BeatWrite` (`writeFileSync` truncates, then
writes), `Release`, `Crash`, `Lapse`. `content` is what the file holds, `fds` the
daemons whose open descriptor still is that file (a removed file takes the write
with it), `fresh` whether the lease in it has time left. Any number of daemons may be
acquiring at any moment, a contender may read the file in the middle of a write, and
leases run out under live holders. What defeats the lock is remembered in the history
variable `mishaps`, with `judged` (the contenders whose verdict is about the file at the
path) to tell it: `torn`, a contender took for stale a file that its owner had opened
and not yet written; `lapsed`, it took for stale the file of a live holder that did not
renew; `overtaken`, it removed another file than the one it had judged. The safety
properties hold until the first of them, and by saying so say that contention, crashes
and takeovers alone never defeat the lock.

**Supervisor.** A step is one read or write of one file, or one test of a pid.
`runs` is `state.json`; `statusFile`, `progress` and `agents` are the evidence;
`launches` holds each launcher process with its wrapper; `laneLock` the launcher
lock; `job[o]` the locals of a daemon or reader `o`: the states it has read, the
entry it is at, what it has read of its evidence so far. The daemon's loop is
`AdoptScan/AdoptRun/AdoptDone`, then `Heartbeat`, `Scan`, for each entry
`ReadStatus/ReadAgents/ReadProgress/CheckPid` and `Apply` (`Verdict` is the decision
of `reconcileSupervisorRun`), `Pick`, and `Spawn/Record` for a start or a resumption.
Readers run the same reads with `ReadVerdict` and `ReaderApply`, which writes the state
back. `runMishaps` remembers what readers and kills spoil: `clash`, a reader changed
what the state says of the launches of a run that a daemon had in hand, or wrote from
an outdated copy; `early`, a reader reported the end of a run whose wrapper was still
up; `alone`, a wrapper was killed and its launcher went on. The launcher is
seen from outside: `LauncherStarts`/`LauncherRefused` (exit code 32),
`LaunchAgents`, `Finalize` (journal), `LauncherExits`, `WrapperReports`. `Kill`,
`DaemonCrash` and `SpawnFails` are enabled by the constant `Faults`.
Abstracted: times, arguments of the resumed launch, the content of logs and events;
a status read as present ends the reads of an entry, because what is read after it
does not influence the verdict.

**WaveAttempts.** The loop of `runLauncherCli` over one wave. An agent's evidence is
`result[a]`: what the gates make of its status, envelope and report (`ok`, a crash or
timeout, a failing gate, an undecided adjudication, a proof gap, or no evidence). An
earlier launcher of the wave may have left some (`Earlier`), of owners and designs that
may be reused (`Reusable`) and of stewards, which the gates read. `BeginAttempt`
launches the selection or starts a closure-only sweep; `Finish`; then `AgentsFailed`,
`DesignReady`, `DesignBlocked` or `AfterRuns`; the sweep is `SkipStage`, `LaunchStage`,
`EndStage`, `EndSweep`; `ReadGates`; the end of an attempt is `CompleteAttempt`,
`GiveUp`, `Wait` or `Retry`, and `MarkWaveCompleted` is what follows the loop.
`Relaunch` is the precedence of `resolveRelaunchRunsFromWaveState`: human blockers, the
names of open clarification follow-ups (`asked`), helper requests, the names in blocker
records (`blockers`, the sweep's own and those anybody else raises), the phase of the
first failing gate, missing proof, the failures. `Human`, `Helper`, `Clarify`, `Block`
and `WriteOverride` are the other processes, between any two steps. `judged` is a
history variable: the stewards launched since the last launch of an implementation
agent.

**LauncherLock, AgentSessions, AgentRun.** `LauncherLock` is
`acquireLauncherLock`/`releaseLauncherLock`, one system call a step; unlike
`daemon.lock` it has no lease, and a second lost `wx` fails. Launchers contend at any
moment, with `laneMishaps` (`torn`, `overtaken`) as above. `AgentSessions` puts the
launch and the wait for one agent on top of it, over `runtime` (the record with
pids and disposition) and `status` (the exit code). The launcher is
`BeginSession` (read the old record), `StopSignal`/`StopKill`
(`terminateAgentProcessRuntime`, SIGTERM and SIGKILL with the grace between them),
`Clear`, `WriteInitialRecord`, `SpawnRunner`, `RewriteRecord`, then
`PollStatus`/`PollRecord`/`Deadline` and `Judge`. The runner is `RunnerStarts`,
`RunnerSpawns`, `RunnerMarks`, `Heartbeat`, and reports either status first
(`RunnerReports`, `RunnerEnds`) or, when `spawn` failed, record first (`RunnerFails`,
`RunnerReportsFailure`). Launchers may `Die` anywhere and runners be killed
(`RunnerKilled`). An executor may hang, end well or badly (`ExecutorEnds`), or lose the
shell around it (`ShellKilled`), which may leave a child at work (`StragglerEnds`).
`ReportedCode` is what the runner writes: the code of the shell, which keeps the
executor's in `$status` and does not exit with it, so that it is 0 for a failed
executor too. `mishaps` remembers the races that break what a launch promises:
`rewrite` (the runner records itself before the launcher's second write of the initial
record), `early` (a record is used, or the runner killed, before it names the
executor), `late` (the files are cleared before a runner whose executor has ended has
reported), `straggler` (a child outlives the shell that leads the group). `AgentRun` is
the contract `WaveAttempts` relies on: at most one executor at a time, and a verdict
that tells whether the executor of its own session came to its own end or was killed;
whether that end was a good one it does not tell, which is why the wave's gates read
more than exit codes. After a mishap (`void`) it promises nothing.

**Telemetry.** `queueWaveControlEvent` (`AppendEvent`, `WriteQueueFile`,
`ListOverflow`, `DropOverflow`, `WriteQueued`), `flushWaveControlQueue` (`ChooseBatch`,
`PostBatch`, the answer, `RenameSent`, `WriteFlushed`) and the service's transaction
(`Ingest`), for several processes without a lock. `pending`, `sent` and `dropped` are
directories; `torn` are queue files whose writer died within the write. A request
that the client gave up stays in `abandoned` and may be inserted at any later time
(`IngestAbandoned`); that covers lost answers, late requests and double delivery.

**Coordination.** One clarification through the coordination log. `log` is what
`materializeCoordinationState` makes of the log: the line with the latest
`updatedAt` of each id, where only the order of the times matters (`late`: later than the
time of creation, to which `updatedAt: undefined` falls back). The launcher and a
command each read, decide, and then append record by record (`todo`), so that others
append in between and either may end in between (`Restart`, `CliDies`). The
launcher: `Poll` (`monitorWaveHumanFeedback`), `Refresh` (`updateSeedRecords`),
`TriageCloses`, `TriageRoutes`, `TriageAsks`, `TriageWaits`, each followed by the
assignment records. Others: `AnswerTicket`/`ResolveDirect`/`ResolveClarification`/
`ResolveLinked`, `FollowUp` of the owner, `Command` (resolve, dismiss, reroute,
reassign, close, waive), `Learn` (an owner or a decision appears in the repository).

**RunState, Autonomous.** `RunState` is `run-state.json`: a reconcile reads the
evidence wave by wave (`Scan`), then the file, then replaces it (`WriteVerdicts`);
`Verdict` has the preservation of completed waves whose prompt drifted. `Autonomous`
runs the loop of `runAutonomousCli` (`Preflight`, `Choose`, `Submit`, `Observe`,
`Judge`) over it, with the launchers it submits (`Start` to `Exit` or `Fail`, of
which `MarkRead`/`MarkWrite` are `markWaveCompleted`) and reconciles by the loop, the
launcher and an operator. A launcher reaches `MarkRead` by `GatesPass` or by `HandOff`:
design agents that pass on the last attempt, after which the code marks the wave
without a gate (section 5). `proven` and `handed` are history variables: the waves whose
evidence was complete at some time, and the runs that left at a hand-off; together they
are `Vouched`.

Mutated forms of an operator (comment `Mutant:`) stand in the modules right before
it and are used by no specification: they document which bug each property catches,
and `PROJECT.json` pairs them with the run that must then fail.

## 3. Runs

| run | instance | shows |
|---|---|---|
| `lock_contended` | 3 daemons in contention, crashes anywhere, leases that run out | `MutualExclusion`, `HolderNamedInLock`, `StaleLockIsReclaimed`, `AcquisitionSettles` |
| `sup_resume` | 1 run, 1 daemon, 3 launches, launcher, wrapper or both killed | `ResumeBudget`, `SubmittedRunsSettle`, types |
| `sup_restart` | 1 run, 2 daemons in contention of which one `--once`, crashes anywhere; up to the first mishap | `OneLauncherPerRun`, `SettledIsQuiet`, `LockRefined` |
| `sup_queue` | 2 runs on a lane, 1 daemon | `OneRunAtATime`, `QueueNotRefused`, `SubmittedRunsSettle` |
| `sup_readers` | 1 run, a daemon and a reader, failing spawns; beyond one mishap of a run, to the second | `SuccessHasEvidence`, `SettledStays` |
| `wave_retry` | 1 design agent, 2 owners, stages E0 and A0 with proof gaps of E0, 2 attempts, evidence of an earlier launcher; human input, helper requests, clarification follow-ups, blocker records and operator overrides, each naming an owner, the design agent or stewards | `CompletedOnEvidence`, `ClosureJudgesFinalCode`, `ProvenOwnersReused`, `DesignBeforeImplementation`, `WaveSettles`, types |
| `agent_sessions` | 2 launchers in contention, 2 sessions of one agent; beyond one mishap of a session, to the second | `OneLauncherPerLane`, `SuccessIsFinished`, `AgentRunRefined`, `WaitsEnd`, types |
| `telemetry` | 2 processes, 3 events of which the last is refused, queue of 2, batches of 1 | `QueueConserves`, `SentIsStored`, `SentCountNotTooHigh`, `CapSparesNewest`, `QueuedEventsArrive`, types |
| `coordination` | 2 follow-up requests, 2 questions, 2 disturbances, commands that settle it or hand it over | `OneBlockingEscalation`, `AnsweredIsRecorded`, `ClosedForCause`, types |
| `autonomous` | 2 waves, 2 attempts each, 3 reconcilers, 1 disturbance, 1 design hand-off | `WavesInOrder`, `AutonomousEnds`, `CompletedNotRelaunched`, types |
| `coord_assigned` | the clarification has `artifactRefs` | **violation** of `ClosedForCause` |
| `wave_marked` | 1 design agent, 1 owner | **violation** of `MarkedOnGates` |

The largest instances: `coordination` has 3.3 million states, `sup_readers` 2.1,
`wave_retry` 1.1, `agent_sessions` 0.85, `autonomous` 0.72, `sup_restart` 0.71 million,
the others 10,000 to 150,000.

Bounds. Three lock daemons are a dead holder and two contenders, what the three
mishaps take. A run needs two launches to be resumed once and a third to catch a
resumption beyond the limit; two daemons are an owner and its successor; two runs give
a queue. Two attempts (`MaxRetries = 1`, the default of the launcher) give a first one
and one whose plan depends on it; the theorems about `WaveAttempts` cover any number.
Two owners let one be proven while the other fails; two stages let a gap of the first
reach the second. `MaxLaunches` is the only counter of `Supervisor` that is capped rather
than bounded by the code: `ResumeBudget` shows the cap is not what stops resumption,
except for launches whose daemon died before recording them (`orphans`). Two launchers
and two sessions (`MaxSessions`) are a launcher that dies and the one that finds its
agent at work. Three events over a queue of two make the cap drop one while two
processes flush; with batches of one the refused event blocks the queue. `MaxRequests`
and `MaxAsks` of 2 let a clarification be routed again and asked again, `Cycles = 2` is
`MAX_ROUTED_CLARIFICATION_CYCLES`, and `MaxEvents` bounds restarts, commands, requests
taken up and changes of the repository. In `autonomous` two waves of two attempts, one
event and one hand-off (`MaxHandOffs`) need at most 8 submissions, so with `MaxRuns = 8` a
loop that launched a wave for ever would run out of them and violate `AutonomousEnds`.
The hand-offs have to be bounded for that: a wave handed off again and again is
submitted again and again. In practice the design results of a hand-off are reusable,
and the next launch starts with the owners.

Four runs have state constraints, each named in its MC module. `NoMishap` of
`sup_restart` follows behaviours to their first mishap, past which its invariants say
nothing. `OneRunMishap` of `sup_readers` follows them beyond one mishap of a run, where
`SuccessHasEvidence` still has to hold, to the second; the lease of its only daemon does
not run out. `OneMishap` of `agent_sessions` follows them beyond one mishap of a session,
where `SuccessIsFinished` and `WaitsEnd` still have to hold, to the second. `Bounds` of
`wave_retry` keeps one kind of record open at a time and lets an earlier launcher leave
only what may be reused, with the verdicts of all stewards or of none; the theorems need
neither. The liveness properties of `agent_sessions` and `wave_retry` are checked within
these bounds. Deadlock is not checked in any run: every system here may really stop (all
daemons ended, the wave settled, the clarification closed).

Symmetry is not used: `Order` gives the stewards identity, runs, sessions and events
are numbered, and several runs check liveness, for which it is unsound.

Fairness. `FairLockSpec`: a process that can step steps. `FairSpec` of
`Supervisor`: daemons and wrappers keep running, a submitter does not stop between its
two steps, and a started launcher advances to its end (`LauncherAdvances`) because it
gives its agents deadlines. Nothing is assumed of operators, readers, kills and crashes,
nor of the agents of a dead launcher: their deadlines died with it, and while they run
`reconcileSupervisorRun` leaves the run as it is. `SubmittedRunsSettle` therefore says that
a run settles or stays with such agents for ever (`AgentsLeft`). `sup_resume` and
`sup_queue` check it without daemon crashes, for no code restarts a daemon when nobody
asks. `FairSpec` of `WaveAttempts`: the loop is one
process, and each agent it waits for ends or is given up at its deadline
(`waitForWaveCompletion`); `AgentSessions` checks that promise (`WaitsEnd`) from the
fairness of launchers and runners and a deadline that passes in the end
(`SF_vars(Deadline(l))`: each round of the wait disables and enables it); nothing
makes an executor end. `FairSpec` of `Telemetry`: each step of a flush that can be
taken again and again is taken, which says that neither network nor processes fail
at the same point for ever; nothing is assumed of a single request. `AutoFairSpec`:
processes run and a launcher's wave ends. `Coordination` has no liveness property:
nothing in the code makes a human answer.

## 4. Proofs

All results hold for any values of the constants that satisfy the named assumptions
(`LockAssumption`, `SupervisorAssumption`, `WaveAssumption`, `LauncherLockAssumption`,
`SessionAssumption`, `NoFileAssumption`, `TelemetryAssumption`, `RunStateAssumption`,
`AutonomousAssumption`, `CoordinationAssumption`), which say that identifiers are
distinct, sets are finite where the code counts them, and limits are what the code's
configuration guarantees; TLC evaluates them on every run. A theorem that needs more
names it below.

* `SupervisorLockProofs`: `LockTypeCorrect`; `DaemonsExcludeEachOther` and
  `LockNamesItsHolder`, for any number of daemons in contention. Exclusion is not
  inductive. `LockInv` adds that, until a mishap, the file at the path is the one its
  writer or holder opened (`OwnerHasFile`), and that a contender which called that file
  stale and has yet to remove it was right, as nobody lives by it (`JudgedRightly`). A
  file created after the verdict makes the verdict one about another file; to remove it
  all the same is `overtaken`.
* `SupervisorProofs`: `SupervisorTypeCorrect`; `SupervisorRefinesLock` (every step of
  the supervisor is a lock step or leaves the lock alone) and, from it,
  `OneDaemonDrivesRuns`. The type invariant is strengthened by what a process holds
  at each place of its loop: a reader is never where only a daemon can be, an entry
  in hand is one of the runs, a launch about to be recorded exists.
  `CompletedRunsWon`, under every fault, mishap and number of readers: a success
  travels from the launcher through the journal or the exit code, the status file,
  the locals of a process and the state file into stale copies that are written
  back. `EvidenceInv` says that each carrier holds a success only for a run one of
  whose launchers finished its waves; success is never undone, so writing back a
  stale copy cannot create a false one.
* `SupervisorRunsProofs`: what holds of the runs with any number of contending daemons
  and of readers, until the lock is mistaken or a reader clashes with a daemon
  (`Unmixed`). Both conditions are needed: with a second writer a stale copy reopens a
  settled run or uncounts a resumption. `BaseInv` holds while `Unmixed` does: only a
  holder of the lock is in the loop (`WorkersHold`), hence one daemon is (`OneWorker`);
  the copies it carries agree with the files in what they say of launches, the entries
  it has still to visit are running, and a run it claims was claimed when none was
  running (`CopyInv`); a reader whose copy says that a run is over is right, and an exit
  code it has read is still there (`ReaderInv`). Readers go on writing: `ReaderWrites`
  says that what they may change is the end of a run no daemon has in hand, by its exit
  code or journal. `LaneWorksOnOneRun` and `EndsOfRunsStay` follow. `ResumesAreBounded`
  rests on `BudgetInv`, which counts launches against starts: a run has at most one
  launch more than its state pays for, while a daemon is about to record it, and those
  its death leaves unrecorded (`orphans`). `RunsHaveOneLauncher` rests on `UpInv`: the
  wrapper that is up is the one in the state or the one about to be recorded, and a
  daemon that has seen an exit code or a dead pid, or that is about to start a launcher,
  is right that none is up, however long ago it looked. `SettledRunsAreQuiet` and
  `QueuedRunsStart` add `QuietInv` (a launcher works only under its wrapper, the lane's
  lock belongs to a started launcher, and none was refused), which a wrapper killed
  alone or an early report breaks.
* `WaveAttemptsProofs`: `WaveTypeCorrect`; `CompletedWavesHaveEvidence`;
  `RetriesSpareProvenOwners`; `DesignsComeFirst`; `StewardsJudgeFinalCode`. `ControlInv`
  ties the place in the loop to the attempt budget and to where agents may run.
  `EvidenceInv` carries the gates' verdict over the `await` to the record of the wave.
  `OwnersInv` says that forwarded failures name stewards only and that an owner is a
  failure only while its evidence does not pass, and with it that a retry selects a
  proven owner, or an owner before the designs, only for a request, a blocker record or
  an override that names it. `FreshInv` follows the required stewards through the sweep:
  each has run since the last implementation launch or is still queued; an attempt that
  reaches the gates without a sweep is a pass of design agents. That the first unproven
  steward exists uses the well-foundedness of `<` on the positions of `Order`.
* `AgentSessionsProofs`: `SessionTypeCorrect`; `SuccessesAreFinished` whatever mishaps
  happen (`FinishedInv`: a status with code 0 was written for an executor that came to
  its own end, and that is final); `OneLauncherAtATime` for launchers in contention
  (`LockHeld`, the analogue of `LockInv`); `SessionsImplementAgentRun`: until the first
  mishap every step of launchers and runners is a step of `AgentRun` or a stutter. Its
  invariant `RunInv` adds to types and `LockHeld`: at most one session has a live runner
  or executor (`OneActive`); the record at the path leads to whatever is alive
  (`RecordKnows`), so a successor can stop it; an executor runs only where its runner
  can have put it (`Stages`); a status file is about an executor that has ended, and
  says how (`Reported`); and `Duty(l)`, for each place of a launcher, what is over and
  which files are gone or are the session's own by then. Each mishap breaks one
  conjunct: those of the lane `LockHeld`, `rewrite` and `early` `RecordKnows`, `late`
  `Duty` (the file judged is another session's), `straggler` `Stages`.
* `TelemetryProofs`: `TelemetryTypeCorrect` (which has the absence of duplicates in
  the service); `QueueIsConserved`; `SentEventsAreStored`; `NewestEventsAreKept`;
  `SentCountIsALowerBound`. `QueueInv` follows an event in the hands of a process:
  before its file exists nobody else holds it, afterwards it is in one of the
  directories; a batch with a good answer is committed; what was listed as
  overflow has `MaxPending` newer events, and files only ever move out of `pending`, so
  an old listing stays right; a count that is held plus a read count never exceeds
  what was sent.
* `AutonomousProofs`: `AutonomousTypeCorrect`; `WavesRunInOrder`, for any number of
  waves, attempts, reconciles, hand-offs and edits, with and without automatic closure.
  `Grounded` says that whatever is taken for complete — in the file, in each stale copy
  of it, in what a reconcile has seen — has had complete evidence or a design hand-off,
  and that waves before the current one have. `CompletedWavesStayDone`, if automatic
  closure is not configured: while nothing interferes (`Calm`) only the last run is open
  and only while the loop observes it, so the reconcile that follows the last look at a
  run meets no other writer and records every wave completed on evidence before the
  loop chooses.
* `CoordinationProofs`: `CoordinationTypeCorrect`; `OneQuestionBlocks`;
  `SeenAnswersAreRecorded`; `ClosuresHaveCause` when the clarification has no
  `artifactRefs` (section 5 shows that it must not). Launcher and command append what
  they decided on earlier, so `CoordInv` speaks of the pending writes: an escalation
  opens only while none blocks, and the launcher holds at most one that does and
  never one of an answered question it knows of (`LauncherInv`); a command reopens
  nothing and gives all links one status (`CliInv`); numbers are used without gaps and
  what the launcher knows of a question is not undone (`LogInv`); each record of a
  seen answer is closed or about to be, by a write later than anything in the log
  (`SeenAnswers`). `CauseInv` says that the cause of a pending closure survives until
  it is appended: neither what the launcher has still to write nor anything a command
  may write takes it away.

`StewardsJudgeFinalCode` is about all completions but those of an attempt narrowed to
design agents, for which it is false of the code: after a full sweep, an owner that runs
again while a helper request blocks the wave settles at the barrier; if an override, a
request or a blocker record then selects only a design agent, the next pass goes straight
to the gates (the sweep follows passes with implementation agents only), and the wave
completes on verdicts about the older code, or on those an earlier launcher left.

Every invariant and action property of a passing run is proved, so only the liveness
properties are model-checked alone: `StaleLockIsReclaimed`, `AcquisitionSettles`,
`SubmittedRunsSettle`, `WaveSettles`, `WaitsEnd`, `QueuedEventsArrive` and
`AutonomousEnds`. They rest on fairness, hence on `ENABLED`, which the prover does not
handle. Two theorems have a premise beyond the assumptions on the constants:
`ClosuresHaveCause` (no `artifactRefs`) and `CompletedWavesStayDone` (no automatic closure).
Each is also the setting of the run that checks the property, and neither can be
dropped: with the constant set otherwise TLC finds the property violated. What else the
code does not exclude happens in the models, and the properties name it: the mishaps of
locks, readers and sessions, requests that name an owner, passes of design agents, and
hand-offs.

## 5. Where the code and its documents disagree

1. `wave_marked` — the design hand-off counts as an attempt. On the last one it leaves
   the loop, and the code after the loop marks the wave completed with no implementation
   agent launched and no gate read. (`recorded` stays `started`, so
   `CompletedOnEvidence` holds: it is about the `wave_run` event.) In the autonomous
   loop the run counts as completed. The reconcile that follows finds no status files
   and blocks the wave, which is submitted again; if that reconcile fails, which is
   ignored, the next wave is submitted without evidence of this one. `WavesInOrder` and
   `CompletedNotRelaunched` exempt it by name (`handed`).
2. `coord_assigned` — when a clarification has `artifactRefs`, its follow-up request
   inherits them, and so does the decision record by which the launcher mirrors the
   assignment of that request. The next triage takes that decision for a resolution
   and closes the clarification while the owner has not answered
   (`docs/plans/current-state.md:101` says it remains blocking). The run
   `coordination` therefore takes a clarification without `artifactRefs`.

Seen while modelling and not given a run of their own, because no text of the
repository excludes them or because a property already names them:

* "Only one supervisor daemon runs per lane" (`docs/architecture/README.md:1008`) is not
  guaranteed. The heartbeat truncates `daemon.lock` before writing it, and a daemon that
  starts in between takes it for stale (`torn`); so it does with a holder that is alive
  and late (`lapsed`). A contender judges a lock stale and then removes whatever is there
  (`overtaken`), as acquiring launchers do. `MutualExclusion` says that there is no other
  way.
* The shell that runs an executor stores its exit status and ends with 0
  (`wo/launcher-runtime.mjs:336`, `:381`), so the status file says 0 of a failed executor.
  The reason code `nonzero-status` (`docs/architecture/README.md:808`) is left to killed
  shells and failed spawns; a failed executor is told only by the gates, from what it did
  not report.
* Agents that a dead launcher leaves have no deadline, and their run is neither resumed
  nor settled while one of them lives (`wo/supervisor-cli.mjs:513`).
* The adopting daemon records itself as owner, then reconciles from the state it
  read before and writes the dead owner back. Status and journal are read before the
  pid, so a launcher that finishes in between is launched again; agents that start
  after their records were read are doubled by a resumed launcher. `wave status` and
  `wave wait` write what they conclude.
* A helper request, a clarification follow-up or a blocker record that names an owner
  launches it while a design packet is not ready and although its proof passes
  (`DesignBeforeImplementation` and `ProvenOwnersReused` exempt it). A retry of one
  steward starts a sweep with runs for that steward only, and a required steward before
  it fails as missing although its verdict passed.
* The runtime record of a supervised run lies in the directory of that run, so a
  launcher of another run on the lane does not see an agent that outlived its
  launcher.
* `reconcileStaleLauncherArtifacts` returns early when the lock is the caller's own,
  hence does nothing in a launch (`wo/session-supervisor.mjs:543-550`); run without the
  lock it can remove the lock file of a launcher that is just starting.
* `control task act reassign` stamps the clarification with the time of the command
  while the triage falls back to the time of its creation, so the later conclusion of
  the triage loses and the clarification is triaged again and again. A waiver of a
  feedback record is undone by the next refresh. A decision with an empty detail
  matches any clarification. Follow-up requests stay open when the launcher closes
  their clarification. When the routed cycles are used up and the owner is still
  known, each triage supersedes the escalation the one before opened.
* One torn or refused queue file holds up everything behind it until the cap drops
  it.
* A reconcile writes a verdict on every wave from a copy read earlier, and a wave
  completed meanwhile becomes blocked; one that fails while the loop waits counts as
  a failed attempt though the run goes on. With automatic closure the stewards that
  did not run have no status file, the next reconcile finds the wave incomplete, and
  the loop launches it again (`AutoClosure = TRUE` violates `CompletedNotRelaunched`).

## 6. Not modelled

Listed with reasons in `PROJECT.json`. In short: parsing of wave files and
configuration, executors, prompts, skills and fetched context are data; dashboards,
traces, board and inboxes are projections; planner, install, local executor and
benchmarks are sequential tools; the web interface has no protocol state. These make up
most of the lines of the repository. Of the modelled components the following is left
out: in `Supervisor`, attach and the choice of resumed arguments; in `WaveAttempts`,
several waves in one launcher, the resident orchestrator, hybrid design agents,
shared-component continuation, executor fallbacks, automatic closure, relaunch plans
persisted for a next launcher (`--resume-control-state`), an override's
`clearReusableAgentIds`, and a follow-up that a policy record resolves while it stays
open; in `AgentSessions`, several agents at once (each has files of its own), terminal
sessions and rate-limit detection; in `Telemetry`, artifact uploads and authentication;
in `Coordination`, several clarifications and the other kinds of records; in
`Autonomous`, the content of the evidence and of the barriers.

## 7. Plan

Done: the modules of section 2. What would add most now, in order:

1. `WaveAttempts`, extended: shared-component continuation (a `continue` that does not
   count the attempt, hence `WaveSettles` again), automatic closure stages, executor
   fallbacks, and a sequence of launchers with the persisted override and relaunch
   plan between them.
2. The stale-artifact cleaner beside `LauncherLock`.
3. The control-plane event log and its projections against the logs they are computed
   from; dependencies between lanes.
4. Signals with version and acknowledgement, and the resident orchestrator.

Abstract specifications worth stating: a supervised run (pending, running, one end)
implemented by `Supervisor` until a mishap, for which `SupervisorRunsProofs` has the
invariants; a wave (open, completed on evidence, given up) implemented by
`WaveAttempts`. Theorems to come: these two refinements. The runs are kept few: where a
new question shares an instance with an existing run it joins that run.
