--------------------------- MODULE SupervisorLock ---------------------------
(***************************************************************************)
(* The file lock that `wave supervise` daemons contend for:                *)
(* scripts/wave-orchestrator/supervisor-cli.mjs, acquireSupervisorLock,    *)
(* writeSupervisorLock, releaseSupervisorLock and the part of              *)
(* runSupervisorLoop that uses them.                                       *)
(*                                                                         *)
(* One step is one system call on daemon.lock (or one synchronous block of *)
(* Node between two of them), so that every interleaving of two daemons    *)
(* the operating system allows is a behaviour here.  A daemon is a process *)
(* and not a role: it starts once and never comes back after it ends, a    *)
(* restarted daemon is another member of Daemons.                          *)
(***************************************************************************)
EXTENDS Naturals, FiniteSets

CONSTANTS
    Daemons,     \* the daemon processes that are ever started
    Absent,      \* content of daemon.lock: there is no such file
    Empty        \* content of daemon.lock: created or truncated, not written

ASSUME LockAssumption ==
    /\ Absent \notin Daemons
    /\ Empty \notin Daemons
    /\ Absent # Empty

VARIABLES
    content,     \* what daemon.lock holds: Absent, Empty or the daemon named in it
    fresh,       \* leaseExpiresAt in the file is later than now
    fds,         \* daemons whose open descriptor is the file at daemon.lock
    pc,          \* where each daemon process is
    judged,      \* history: contenders whose "stale" is about the file at daemon.lock
    mishaps      \* history: how the file of a live daemon was mistaken, if it was

(***************************************************************************)
(* Nothing in the code keeps two daemons from acquiring at the same time,  *)
(* a contender from reading the file while its owner writes it, or a       *)
(* holder from living past its lease.  All of it happens here, and what    *)
(* defeats the lock is remembered in `mishaps`:                            *)
(* "torn"     : a contender took for stale a file that its owner had       *)
(*              opened and not yet written;                                *)
(* "lapsed"   : a contender took for stale the file of a live holder that  *)
(*              did not renew within its 15 s lease (a suspended process,  *)
(*              a --poll-ms above the lease);                              *)
(* "overtaken": a contender removed another file than the one it had       *)
(*              judged, because a second contender was faster.             *)
(***************************************************************************)
MishapKinds == {"torn", "lapsed", "overtaken"}

pathVars == <<content, fresh, fds, judged>>
lockVars == <<pathVars, pc, mishaps>>

Acquiring == {"open", "write", "inspect", "remove"}
Holding   == {"held", "beat"}
Ended     == {"refused", "exited", "crashed"}
Locations == {"new"} \cup Acquiring \cup Holding \cup Ended

Alive(d) == pc[d] \notin {"new"} \cup Ended

Goto(d, loc) == pc' = [pc EXCEPT ![d] = loc]

(* The file is there, names a process that is alive, and its lease is in   *)
(* the future: the test acquireSupervisorLock and ensureSupervisorRunning  *)
(* share.                                                                  *)
LiveLock == content \in Daemons /\ Alive(content) /\ fresh

-----------------------------------------------------------------------------
LockInit ==
    /\ content = Absent
    /\ fresh = FALSE
    /\ fds = {}
    /\ pc = [d \in Daemons |-> "new"]
    /\ judged = {}
    /\ mishaps = {}

(* A daemon process starts: an operator ran `wave supervise`, or           *)
(* ensureSupervisorRunning spawned it.                                     *)
Start(d) ==
    /\ pc[d] = "new"
    /\ Goto(d, "open")
    /\ UNCHANGED <<pathVars, mishaps>>

(* A new, empty file at the path: no verdict is about it yet.              *)
CreateFile(d) ==
    /\ content' = Empty
    /\ fresh' = FALSE
    /\ fds' = {d}
    /\ judged' = {}

(* Mutant: flag "w", the file is truncated even if there is one.           *)
OpenTruncates(d) ==
    /\ pc[d] = "open"
    /\ CreateFile(d)
    /\ Goto(d, "write")
    /\ UNCHANGED mishaps

(* fs.openSync(lockPath, "wx"): creates the file or fails with EEXIST.     *)
Open(d) ==
    /\ pc[d] = "open"
    /\ \/ content = Absent /\ CreateFile(d) /\ Goto(d, "write")
       \/ content # Absent /\ Goto(d, "inspect") /\ UNCHANGED pathVars
    /\ UNCHANGED mishaps

(* Writing through the descriptor reaches daemon.lock only while the       *)
(* descriptor still is the file at that path: a removed file takes the     *)
(* write with it.                                                          *)
WriteThrough(d) ==
    /\ IF d \in fds
       THEN content' = d /\ fresh' = TRUE
       ELSE UNCHANGED <<content, fresh>>
    /\ fds' = fds \ {d}
    /\ UNCHANGED <<judged, mishaps>>

WriteLock(d) ==
    /\ pc[d] = "write"
    /\ WriteThrough(d)
    /\ Goto(d, "held")

(* fs.rmSync(lockPath): whatever the file holds by now is removed.         *)
RemoveFile ==
    /\ content' = Absent
    /\ fresh' = FALSE
    /\ fds' = {}
    /\ judged' = {}

(* What is wrong with calling the file stale now.                          *)
Misread ==
    {m \in MishapKinds :
        \/ m = "torn" /\ content = Empty /\ fds # {}
        \/ m = "lapsed" /\ content \in Daemons /\ Alive(content) /\ ~fresh}

Judge(d, live) ==
    /\ Goto(d, IF live THEN "refused" ELSE "remove")
    /\ judged' = IF live THEN judged ELSE judged \cup {d}
    /\ mishaps' = IF live THEN mishaps ELSE mishaps \cup Misread
    /\ UNCHANGED <<content, fresh, fds>>

(* Mutant: the holder's pid is not tested.                                 *)
InspectIgnoresPid(d) ==
    /\ pc[d] = "inspect"
    /\ Judge(d, content \in Daemons /\ fresh)

(* Mutant: the lock is acquired inside the try whose finally removes it.   *)
InspectReleases(d) ==
    /\ pc[d] = "inspect"
    /\ IF LiveLock
       THEN RemoveFile /\ Goto(d, "refused") /\ UNCHANGED mishaps
       ELSE Judge(d, FALSE)

(* The EEXIST branch reads the file: a live and fresh holder sends the     *)
(* daemon home, anything else (a dead holder, an expired lease, a file     *)
(* that is empty or gone again) is stale.                                  *)
Inspect(d) ==
    /\ pc[d] = "inspect"
    /\ Judge(d, LiveLock)

(* Mutant: acquireSupervisorLock calls itself without removing the file.   *)
RemoveNothing(d) ==
    /\ pc[d] = "remove"
    /\ Goto(d, "open")
    /\ UNCHANGED <<pathVars, mishaps>>

(* A stale lock is removed and acquireSupervisorLock calls itself.         *)
Remove(d) ==
    /\ pc[d] = "remove"
    /\ RemoveFile
    /\ mishaps' = IF content # Absent /\ d \notin judged
                  THEN mishaps \cup {"overtaken"} ELSE mishaps
    /\ Goto(d, "open")

(* The heartbeat at the top of the loop, fs.writeFileSync: open with       *)
(* truncation (creating the file if it is gone), then write.  Nothing      *)
(* checks that the file still is this daemon's.                            *)
BeatOpen(d) ==
    /\ pc[d] = "held"
    /\ content' = Empty
    /\ fresh' = FALSE
    /\ fds' = fds \cup {d}
    /\ Goto(d, "beat")
    /\ UNCHANGED <<judged, mishaps>>

BeatWrite(d) ==
    /\ pc[d] = "beat"
    /\ WriteThrough(d)
    /\ Goto(d, "held")

(* The finally of runSupervisorLoop, after --once is done or an exception  *)
(* left the loop: removes daemon.lock, whoever wrote it.                   *)
Release(d) ==
    /\ pc[d] = "held"
    /\ RemoveFile
    /\ Goto(d, "exited")
    /\ UNCHANGED mishaps

(* The process is killed; its files stay.                                  *)
Crash(d) ==
    /\ Alive(d)
    /\ fds' = fds \ {d}
    /\ Goto(d, "crashed")
    /\ UNCHANGED <<content, fresh, judged, mishaps>>

(* The lease written in the file runs out, whether its daemon lives or not.*)
Lapse ==
    /\ fresh
    /\ fresh' = FALSE
    /\ UNCHANGED <<content, fds, pc, judged, mishaps>>

DaemonLockStep(d) ==
    \/ Open(d) \/ WriteLock(d) \/ Inspect(d) \/ Remove(d)
    \/ BeatOpen(d) \/ BeatWrite(d)

LockNext ==
    \/ \E d \in Daemons :
          Start(d) \/ DaemonLockStep(d) \/ Release(d) \/ Crash(d)
    \/ Lapse

LockSpec == LockInit /\ [][LockNext]_lockVars

(* A daemon that runs keeps running: nothing in the process can block it.  *)
LockFairness == \A d \in Daemons : WF_lockVars(DaemonLockStep(d))

FairLockSpec == LockSpec /\ LockFairness

-----------------------------------------------------------------------------
(* Each variable has its type.                                             *)
LockTypeOK ==
    /\ content \in Daemons \cup {Absent, Empty}
    /\ fresh \in BOOLEAN
    /\ fds \in SUBSET Daemons
    /\ pc \in [Daemons -> Locations]
    /\ judged \in SUBSET Daemons
    /\ mishaps \in SUBSET MishapKinds

(* "Only one supervisor daemon runs per lane", as the architecture says    *)
(* it.  Contention for a stale lock, a read inside a heartbeat's write and *)
(* a lapsed lease each let a second daemon into the loop.                  *)
OneDaemonPerLane ==
    \A d, e \in Daemons : pc[d] \in Holding /\ pc[e] \in Holding => d = e

(* What does hold: two daemons are past acquireSupervisorLock only after   *)
(* one of the three mishaps.  Simultaneous acquisition, crashes at any     *)
(* point and the takeover of a dead daemon's lock alone do not do it.      *)
MutualExclusion == mishaps = {} => OneDaemonPerLane

(* A daemon loses the lock it lives by only through one of the mishaps:    *)
(* until then, while it is in the loop, the file is the one it wrote or is *)
(* being rewritten by it, however many contenders come and go.             *)
HolderNamedInLock ==
    mishaps = {} =>
        \A d \in Daemons :
            /\ pc[d] = "held" => content = d
            /\ pc[d] = "beat" => content = Empty /\ d \in fds

(* The lock of a dead daemon does not keep the lane closed: a daemon that  *)
(* starts when every other one is gone ends up holding the lock, unless it *)
(* is killed itself.                                                       *)
StaleLockIsReclaimed ==
    \A d \in Daemons :
        (pc[d] = "open" /\ \A e \in Daemons \ {d} : pc[e] \in Ended)
            ~> pc[d] \in {"held", "crashed"}

(* Acquisition ends, with the lock or with `already running`, whoever else *)
(* contends and even if locks are overtaken: only one that keeps reading a *)
(* live file as stale may go round for ever.                               *)
AcquisitionSettles ==
    \A d \in Daemons :
        pc[d] \in Acquiring
            ~> pc[d] \in Holding \cup Ended \/ {"torn", "lapsed"} \cap mishaps # {}
=============================================================================
