---------------------------- MODULE MCSupervisor ----------------------------
(* Instances of Supervisor for TLC.                                        *)
EXTENDS Supervisor

CONSTANTS d1, d2, w1

OneRun      == {1}
TwoRuns     == {1, 2}
OneDaemon   == {d1}
TwoDaemons  == {d1, d2}
NoDaemons   == {}
NoReaders   == {}
OneReader   == {w1}
NoFaults       == {}
LauncherKills  == {"nodeKilled", "groupKilled", "wrapperKilled"}
DaemonFailures == {"daemonCrash", "crashInSpawn"}
SpawnFailures  == {"spawnFails"}

(* Behaviours are followed to their first mishap, past which what the run  *)
(* checks says nothing.                                                    *)
NoMishap == mishaps = {} /\ runMishaps = {}

(* Behaviours are followed beyond one mishap of a run, to the second.  The *)
(* lease, which matters to contenders only, does not run out.              *)
OneRunMishap ==
    Cardinality(runMishaps) <= 1 /\ (content \in Daemons => fresh)
=============================================================================
