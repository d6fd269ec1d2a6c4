------------------------ MODULE SupervisorLockProofs ------------------------
(***************************************************************************)
(* Proofs about SupervisorLock, for any set of daemon processes.           *)
(*                                                                         *)
(* Mutual exclusion is not inductive: it needs to know that the file at    *)
(* the path is the one its writer or holder opened, and that a contender   *)
(* which called that file stale, and is about to remove it, was right:     *)
(* nobody lives by it.  Any number of daemons may be acquiring.            *)
(***************************************************************************)
EXTENDS SupervisorLock, TLAPS

(* The daemons whose lock the file at the path is.                         *)
Owning == {"write"} \cup Holding

OneOwner == \A d, e \in Daemons : pc[d] \in Owning /\ pc[e] \in Owning => d = e

OwnerHasFile ==
    \A d \in Daemons :
        /\ pc[d] = "held" => content = d
        /\ pc[d] \in {"write", "beat"} => content = Empty /\ d \in fds

JudgedRightly == judged # {} => \A d \in Daemons : pc[d] \notin Owning

LockInv ==
    /\ LockTypeOK
    /\ mishaps = {} => OneOwner /\ OwnerHasFile /\ JudgedRightly

(* The variables of the lock keep their types, whatever happens.           *)
THEOREM LockTypeCorrect == LockSpec => []LockTypeOK
<1>1. LockInit => LockTypeOK
  BY DEF LockInit, LockTypeOK, Locations, MishapKinds
<1>2. LockTypeOK /\ [LockNext]_lockVars => LockTypeOK'
  <2> SUFFICES ASSUME LockTypeOK, [LockNext]_lockVars PROVE LockTypeOK'
    OBVIOUS
  <2> USE DEF LockTypeOK, Goto, Locations, Acquiring, Holding, Ended,
            MishapKinds
  <2>1. ASSUME NEW d \in Daemons, Start(d) PROVE LockTypeOK'
    BY <2>1 DEF Start, pathVars
  <2>2. ASSUME NEW d \in Daemons, Open(d) PROVE LockTypeOK'
    BY <2>2 DEF Open, CreateFile, pathVars
  <2>3. ASSUME NEW d \in Daemons, WriteLock(d) PROVE LockTypeOK'
    BY <2>3 DEF WriteLock, WriteThrough
  <2>4. ASSUME NEW d \in Daemons, Inspect(d) PROVE LockTypeOK'
    BY <2>4 DEF Inspect, Judge, Misread
  <2>5. ASSUME NEW d \in Daemons, Remove(d) PROVE LockTypeOK'
    BY <2>5 DEF Remove, RemoveFile
  <2>6. ASSUME NEW d \in Daemons, BeatOpen(d) PROVE LockTypeOK'
    BY <2>6 DEF BeatOpen
  <2>7. ASSUME NEW d \in Daemons, BeatWrite(d) PROVE LockTypeOK'
    BY <2>7 DEF BeatWrite, WriteThrough
  <2>8. ASSUME NEW d \in Daemons, Release(d) PROVE LockTypeOK'
    BY <2>8 DEF Release, RemoveFile
  <2>9. ASSUME NEW d \in Daemons, Crash(d) PROVE LockTypeOK'
    BY <2>9 DEF Crash
  <2>10. CASE Lapse
    BY <2>10 DEF Lapse
  <2>11. CASE UNCHANGED lockVars
    BY <2>11 DEF lockVars, pathVars
  <2>12. QED
    BY <2>1, <2>2, <2>3, <2>4, <2>5, <2>6, <2>7, <2>8, <2>9, <2>10, <2>11
       DEF LockNext, DaemonLockStep
<1>3. QED
  BY <1>1, <1>2, PTL DEF LockSpec

(* A step that leaves no mishap on record found none there.                *)
LEMMA MishapsStay ==
  ASSUME LockTypeOK, LockNext
  PROVE  mishaps \subseteq mishaps'
<1> USE DEF LockTypeOK
<1>1. ASSUME NEW d \in Daemons, Start(d) \/ DaemonLockStep(d) PROVE mishaps \subseteq mishaps'
  BY <1>1 DEF Start, DaemonLockStep, Open, WriteLock, WriteThrough, Inspect, Judge,
              Remove, BeatOpen, BeatWrite
<1>2. ASSUME NEW d \in Daemons, Release(d) \/ Crash(d) PROVE mishaps \subseteq mishaps'
  BY <1>2 DEF Release, Crash
<1>3. CASE Lapse
  BY <1>3 DEF Lapse
<1>4. QED
  BY <1>1, <1>2, <1>3 DEF LockNext

(* Every step keeps the invariant of the lock.                             *)
LEMMA LockInvStep ==
  ASSUME LockInv, LockNext, LockTypeOK'
  PROVE  LockInv'
<1> SUFFICES ASSUME mishaps' = {}
             PROVE  OneOwner' /\ OwnerHasFile' /\ JudgedRightly'
  BY DEF LockInv
<1> DEFINE Goal == OneOwner' /\ OwnerHasFile' /\ JudgedRightly'
<1>0. LockTypeOK /\ mishaps = {} /\ OneOwner /\ OwnerHasFile /\ JudgedRightly
  BY MishapsStay DEF LockInv
<1> USE <1>0, LockAssumption
        DEF LockTypeOK, OneOwner, OwnerHasFile, JudgedRightly,
        Goto, Owning, Holding, pathVars
<1>1. ASSUME NEW d \in Daemons, Start(d) PROVE Goal
  BY <1>1 DEF Start
<1>2. ASSUME NEW d \in Daemons, Open(d) PROVE Goal
  BY <1>2 DEF Open, CreateFile
<1>3. ASSUME NEW d \in Daemons, WriteLock(d) PROVE Goal
  BY <1>3 DEF WriteLock, WriteThrough
<1>4. ASSUME NEW d \in Daemons, Inspect(d) PROVE Goal
  <2>1. CASE LiveLock
    BY <1>4, <2>1 DEF Inspect, Judge
  <2>2. CASE ~LiveLock
    <3>1. Misread = {}
      BY <1>4, <2>2 DEF Inspect, Judge
    <3>2. /\ ~(content = Empty /\ fds # {})
          /\ ~(content \in Daemons /\ Alive(content) /\ ~fresh)
      BY <3>1 DEF Misread, MishapKinds
    <3>3. \A e \in Daemons : pc[e] \notin Owning
      BY <3>2, <2>2 DEF LiveLock, Alive, Ended
    <3>4. QED
      BY <1>4, <2>2, <3>3 DEF Inspect, Judge
  <2>3. QED
    BY <2>1, <2>2
<1>5. ASSUME NEW d \in Daemons, Remove(d) PROVE Goal
  BY <1>5 DEF Remove, RemoveFile
<1>6. ASSUME NEW d \in Daemons, BeatOpen(d) PROVE Goal
  BY <1>6 DEF BeatOpen
<1>7. ASSUME NEW d \in Daemons, BeatWrite(d) PROVE Goal
  BY <1>7 DEF BeatWrite, WriteThrough
<1>8. ASSUME NEW d \in Daemons, Release(d) PROVE Goal
  BY <1>8 DEF Release, RemoveFile
<1>9. ASSUME NEW d \in Daemons, Crash(d) PROVE Goal
  BY <1>9 DEF Crash, Alive, Ended
<1>10. CASE Lapse
  BY <1>10 DEF Lapse
<1>11. QED
  BY <1>1, <1>2, <1>3, <1>4, <1>5, <1>6, <1>7, <1>8, <1>9, <1>10
     DEF LockNext, DaemonLockStep

LEMMA LockInvHolds == LockSpec => []LockInv
<1>1. LockInit => LockInv
  BY LockAssumption
     DEF LockInit, LockInv, LockTypeOK, OneOwner, OwnerHasFile, JudgedRightly,
         Owning, Holding, Locations, MishapKinds
<1>2. LockInv /\ UNCHANGED lockVars => LockInv'
  BY DEF lockVars, pathVars, LockInv, LockTypeOK, OneOwner, OwnerHasFile,
         JudgedRightly
<1>3. LockInv /\ [LockNext]_lockVars /\ LockTypeOK' => LockInv'
  BY <1>2, LockInvStep
<1>4. QED
  BY <1>1, <1>3, LockTypeCorrect, PTL DEF LockSpec

(* However many daemons are started, at whatever moments, and wherever     *)
(* they are killed: two are past acquireSupervisorLock at once only after  *)
(* one was taken for dead in one of the three ways the model remembers.    *)
THEOREM DaemonsExcludeEachOther == LockSpec => []MutualExclusion
<1>1. LockInv => MutualExclusion
  BY DEF LockInv, MutualExclusion, OneDaemonPerLane, OneOwner, Owning
<1>2. QED
  BY <1>1, LockInvHolds, PTL

(* Until such a mishap daemon.lock names the daemon in the loop, or is     *)
(* being rewritten by it: no crash, no takeover and no other contender     *)
(* takes the file away from it.                                            *)
THEOREM LockNamesItsHolder == LockSpec => []HolderNamedInLock
<1>1. LockInv => HolderNamedInLock
  BY DEF LockInv, HolderNamedInLock, OwnerHasFile
<1>2. QED
  BY <1>1, LockInvHolds, PTL
=============================================================================
