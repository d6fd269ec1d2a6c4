---------------------------- MODULE LauncherLock ----------------------------
(***************************************************************************)
(* launcher.lock of a lane: acquireLauncherLock and releaseLauncherLock of *)
(* scripts/wave-orchestrator/session-supervisor.mjs, as runLauncherCli of  *)
(* launcher.mjs uses them.  Unlike daemon.lock there is no lease and no    *)
(* heartbeat: a lock is live while the pid written in it is, and a         *)
(* launcher that loses the second `wx` fails instead of trying again.      *)
(*                                                                         *)
(* One step is one system call on the file.  A launcher is a process: a    *)
(* restarted one is another member of Launchers.                           *)
(***************************************************************************)
EXTENDS Naturals, FiniteSets

CONSTANTS
    Launchers,   \* the launcher processes that are ever started on the lane
    Absent,      \* content of launcher.lock: there is no such file
    Empty        \* content of launcher.lock: created, not yet written

ASSUME LauncherLockAssumption ==
    /\ Absent \notin Launchers
    /\ Empty \notin Launchers
    /\ Absent # Empty

VARIABLES
    lockFile,    \* what launcher.lock holds: Absent, Empty or the launcher named in it
    lockFds,     \* launchers whose open descriptor is the file at launcher.lock
    lpc,         \* where each launcher process is
    laneJudged,  \* history: contenders whose "stale" is about the file at the path
    laneMishaps  \* history: how the file of a live launcher was mistaken, if it was

(***************************************************************************)
(* Any number of launchers may be acquiring.  What defeats the lock is     *)
(* remembered: "torn", a contender took for stale a file whose creator had *)
(* not yet written its pid; "overtaken", a contender removed another file  *)
(* than the one it had judged, because a second contender was faster.      *)
(***************************************************************************)
LaneMishapKinds == {"torn", "overtaken"}

laneFile == <<lockFile, lockFds, laneJudged>>
laneVars == <<laneFile, lpc, laneMishaps>>

Contending == {"open", "inspect", "remove", "retry", "write"}
Finished   == {"refused", "failed", "done", "dead"}
LockPlaces == {"new", "held"} \cup Contending \cup Finished

Running(l) == lpc[l] \notin {"new"} \cup Finished

At(l, place) == lpc' = [lpc EXCEPT ![l] = place]

-----------------------------------------------------------------------------
LaneInit ==
    /\ lockFile = Absent
    /\ lockFds = {}
    /\ lpc = [l \in Launchers |-> "new"]
    /\ laneJudged = {}
    /\ laneMishaps = {}

(* A launcher process starts: an operator, the autonomous runner or the    *)
(* supervisor's wrapper ran `wave launch`.                                 *)
StartLauncher(l) ==
    /\ lpc[l] = "new"
    /\ At(l, "open")
    /\ UNCHANGED <<laneFile, laneMishaps>>

(* fs.openSync(lockPath, "wx").                                            *)
Create(l, onExisting) ==
    /\ \/ /\ lockFile = Absent
          /\ lockFile' = Empty
          /\ lockFds' = {l}
          /\ laneJudged' = {}
          /\ At(l, "write")
       \/ /\ lockFile # Absent
          /\ At(l, onExisting)
          /\ UNCHANGED laneFile
    /\ UNCHANGED laneMishaps

OpenLock(l) == lpc[l] = "open" /\ Create(l, "inspect")

(* The second open, after a stale lock was removed: EEXIST is thrown to    *)
(* the caller, without the exit code 32 of a lane that is in use.          *)
RetryOpen(l) == lpc[l] = "retry" /\ Create(l, "failed")

WriteLock(l) ==
    /\ lpc[l] = "write"
    /\ lockFile' = IF l \in lockFds THEN l ELSE lockFile
    /\ lockFds' = lockFds \ {l}
    /\ At(l, "held")
    /\ UNCHANGED <<laneJudged, laneMishaps>>

JudgeLock(l, live) ==
    /\ At(l, IF live THEN "refused" ELSE "remove")
    /\ laneJudged' = IF live THEN laneJudged ELSE laneJudged \cup {l}
    /\ laneMishaps' = IF ~live /\ lockFile = Empty /\ lockFds # {}
                      THEN laneMishaps \cup {"torn"} ELSE laneMishaps
    /\ UNCHANGED <<lockFile, lockFds>>

(* Mutant: any existing lock is taken for stale.                           *)
InspectAlwaysStale(l) ==
    /\ lpc[l] = "inspect"
    /\ JudgeLock(l, FALSE)

(* EEXIST: a pid that is alive sends the launcher home with exit code 32;  *)
(* a dead one, an empty or a vanished file is stale.                       *)
InspectLock(l) ==
    /\ lpc[l] = "inspect"
    /\ JudgeLock(l, lockFile \in Launchers /\ Running(lockFile))

DropFile == lockFile' = Absent /\ lockFds' = {} /\ laneJudged' = {}

RemoveStale(l) ==
    /\ lpc[l] = "remove"
    /\ DropFile
    /\ laneMishaps' = IF lockFile # Absent /\ l \notin laneJudged
                      THEN laneMishaps \cup {"overtaken"} ELSE laneMishaps
    /\ At(l, "retry")

(* The finally of runLauncherCli: removes the file, whoever wrote it.      *)
ReleaseLock(l) ==
    /\ lpc[l] = "held"
    /\ DropFile
    /\ At(l, "done")
    /\ UNCHANGED laneMishaps

(* The process is killed; its files stay.                                  *)
Die(l) ==
    /\ Running(l)
    /\ lockFds' = lockFds \ {l}
    /\ At(l, "dead")
    /\ UNCHANGED <<lockFile, laneJudged, laneMishaps>>

AcquireStep(l) ==
    OpenLock(l) \/ WriteLock(l) \/ InspectLock(l) \/ RemoveStale(l) \/ RetryOpen(l)

LaneNext ==
    \E l \in Launchers : StartLauncher(l) \/ AcquireStep(l) \/ ReleaseLock(l) \/ Die(l)

LaneSpec == LaneInit /\ [][LaneNext]_laneVars

-----------------------------------------------------------------------------
(* Each variable has its type.                                             *)
LaneTypeOK ==
    /\ lockFile \in Launchers \cup {Absent, Empty}
    /\ lockFds \in SUBSET Launchers
    /\ lpc \in [Launchers -> LockPlaces]
    /\ laneJudged \in SUBSET Launchers
    /\ laneMishaps \in SUBSET LaneMishapKinds

(* One launcher drives the lane: acquireLauncherLock returns to a second   *)
(* one only when the first is gone, however many contend at once and       *)
(* wherever they die, unless a contender reads the lock before its creator *)
(* has written it or removes a file it never judged.                       *)
OneLauncherPerLane ==
    laneMishaps = {} =>
        \A l, k \in Launchers : lpc[l] = "held" /\ lpc[k] = "held" => l = k
=============================================================================
