-------------------------- MODULE TelemetryProofs --------------------------
(***************************************************************************)
(* Proofs about Telemetry, for any number of processes and events, any cap *)
(* and any batch size.                                                     *)
(*                                                                         *)
(* The properties speak of the files; what makes them inductive is what    *)
(* every process still carries in its locals when others have gone on:     *)
(* the events it holds have their files somewhere (Placed), those it is    *)
(* about to rename are stored (Committed), the excess it has listed is     *)
(* still old enough to drop (Excessive), and its count stays below the     *)
(* number of sent files (CountsBelow).                                     *)
(***************************************************************************)
EXTENDS Telemetry, FiniteSetTheorems, TLAPS

Tasks == [at : Places, events : SUBSET Events, seen : Nat, count : Nat]

Files == pending \cup sent \cup dropped

(* An event that is being enqueued has no file yet, and one writer.        *)
Unwritten ==
    /\ \A p \in Procs : task[p].at = "append" => task[p].events \cap Files = {}
    /\ \A p, q \in Procs :
          task[p].at = "append" /\ task[q].at = "append" /\ p # q
              => task[p].events \cap task[q].events = {}

Placed ==
    \A p \in Procs : /\ task[p].events \subseteq recorded
                     /\ task[p].at # "append" => task[p].events \subseteq Files

Committed ==
    \A p \in Procs : task[p].at \in {"stored", "rename"} =>
        \A e \in task[p].events : stored[e] = 1

Newer(e) == {f \in Files : f > e}

Excessive ==
    \A p \in Procs : task[p].at = "listed" =>
        \A e \in task[p].events : Cardinality(Newer(e)) >= MaxPending

CountsBelow ==
    \A p \in Procs : task[p].seen + task[p].count <= Cardinality(sent)

-----------------------------------------------------------------------------
(* A step of one process changes its own locals only.                      *)
LEMMA OwnLocals ==
  ASSUME task \in [Procs -> Tasks], NEW p \in Procs, NEW t \in Tasks,
         task' = [task EXCEPT ![p] = t]
  PROVE  /\ task' \in [Procs -> Tasks]
         /\ task'[p] = t
         /\ \A q \in Procs : q # p => task'[q] = task[q]
OBVIOUS

LEMMA EnterTyped ==
  ASSUME task \in [Procs -> Tasks], NEW p \in Procs, NEW place \in Places, Enter(p, place)
  PROVE  /\ task' \in [Procs -> Tasks]
         /\ task'[p].at = place /\ task'[p].events = task[p].events
         /\ task'[p].seen = task[p].seen /\ task'[p].count = task[p].count
         /\ \A q \in Procs : q # p => task'[q] = task[q]
BY DEF Enter, Tasks

LEMMA IdleTyped == Idle \in Tasks
BY DEF Idle, Tasks, Places

LEMMA AwaitTyped ==
  ASSUME NEW t \in Tasks
  PROVE  /\ [t EXCEPT !.at = "await", !.events = t.events \cap pending] \in Tasks
         /\ [t EXCEPT !.at = "await", !.events = t.events \cap pending].at = "await"
         /\ [t EXCEPT !.at = "await", !.events = t.events \cap pending].events
               = t.events \cap pending
         /\ [t EXCEPT !.at = "await", !.events = t.events \cap pending].seen = t.seen
         /\ [t EXCEPT !.at = "await", !.events = t.events \cap pending].count = t.count
BY DEF Tasks, Places

LEMMA OldestSubset ==
  ASSUME NEW S, NEW n
  PROVE  Oldest(S, n) \subseteq S
BY DEF Oldest

(* The events that fall out of a queue of n files leave MaxPending newer   *)
(* ones behind.                                                            *)
LEMMA OldestLeavesNewest ==
  ASSUME NEW S \in SUBSET Nat, IsFiniteSet(S), NEW m \in Nat, Cardinality(S) > m,
         NEW e \in Oldest(S, Cardinality(S) - m)
  PROVE  Cardinality({f \in S : f > e}) >= m
<1> DEFINE L == {f \in S : f < e}
           G == {f \in S : f > e}
<1>1. e \in S /\ Cardinality(L) < Cardinality(S) - m
  BY DEF Oldest
<1>2. IsFiniteSet(L) /\ IsFiniteSet(G)
  BY FS_Subset
<1>3. L \cup {e} \cup G = S /\ e \notin L /\ (L \cup {e}) \cap G = {}
  <2>1. \A f \in S : f < e \/ f = e \/ f > e
    BY <1>1
  <2>2. \A f : f \in L \cup {e} \cup G <=> f \in S
    BY <1>1, <2>1
  <2>3. e \notin L /\ e \notin G /\ \A f \in S : ~(f < e /\ f > e)
    BY <1>1
  <2>4. QED
    BY <2>2, <2>3
<1>4. IsFiniteSet(L \cup {e}) /\ Cardinality(L \cup {e}) = Cardinality(L) + 1
  BY <1>2, <1>3, FS_AddElement
<1>5. Cardinality(S) = Cardinality(L \cup {e}) + Cardinality(G) - Cardinality({})
  BY <1>2, <1>3, <1>4, FS_Union
<1>6. Cardinality(L) \in Nat /\ Cardinality(G) \in Nat /\ Cardinality(S) \in Nat
  BY <1>2, FS_CardinalityType
<1>7. QED
  BY <1>1, <1>4, <1>5, <1>6, FS_EmptySet

-----------------------------------------------------------------------------
LEMMA InitTyped == Init => TelemetryTypeOK
BY IdleTyped, TelemetryAssumption DEF Init, TelemetryTypeOK, Tasks

LEMMA TypeStep ==
  ASSUME TelemetryTypeOK, [Next]_vars
  PROVE  TelemetryTypeOK'
<1> USE TelemetryAssumption DEF TelemetryTypeOK
<1>0. task \in [Procs -> Tasks] /\ \A p \in Procs : task[p] \in Tasks
  BY DEF Tasks
<1>a. \A p \in Procs : task[p].events \subseteq Events /\ task[p].seen \in Nat /\ task[p].count \in Nat
  BY <1>0 DEF Tasks
<1>b. \A n : Oldest(pending, n) \in SUBSET Events
  BY OldestSubset
<1>c. \A t \in Tasks : \A p \in Procs : [task EXCEPT ![p] = t] \in [Procs -> Tasks]
  BY <1>0
<1>d. \A p \in Procs : [task EXCEPT ![p] = Idle] \in [Procs -> Tasks]
  BY <1>c, IdleTyped
<1>e. \A batch \in SUBSET Events : Inserted(batch) \in [Events -> {0, 1}]
  BY DEF Inserted
<1>f. \A p \in Procs : Abandon(p) => abandoned' \subseteq SUBSET Events
  <2> SUFFICES ASSUME NEW p \in Procs, Abandon(p) PROVE abandoned' \subseteq SUBSET Events
    OBVIOUS
  <2>1. abandoned' \subseteq abandoned \cup {task[p].events}
    BY DEF Abandon
  <2>2. QED
    BY <1>a, <2>1
<1>1. ASSUME NEW p \in Procs, NEW e \in Events, AppendEvent(p, e) PROVE TelemetryTypeOK'
  <2>1. [Idle EXCEPT !.at = "append", !.events = {e}] \in Tasks
    BY DEF Idle, Tasks, Places
  <2>2. task' \in [Procs -> Tasks]
    BY <1>1, <1>c, <2>1 DEF AppendEvent
  <2>3. QED
    BY <1>1, <2>2 DEF AppendEvent, Tasks
<1>2. ASSUME NEW p \in Procs, WriteQueueFile(p) PROVE TelemetryTypeOK'
  <2>1. task' \in [Procs -> Tasks]
    BY <1>0, <1>2, EnterTyped DEF WriteQueueFile, Places
  <2>2. QED
    BY <1>2, <1>a, <2>1 DEF WriteQueueFile, Tasks
<1>3. ASSUME NEW p \in Procs, TearQueueFile(p) PROVE TelemetryTypeOK'
  BY <1>3, <1>a, <1>d DEF TearQueueFile, Tasks
<1>4. ASSUME NEW p \in Procs, ListOverflow(p) PROVE TelemetryTypeOK'
  <2> DEFINE t == [at |-> "listed", seen |-> sentCount, count |-> 0,
                   events |-> IF Cardinality(pending) > MaxPending
                              THEN Oldest(pending, Cardinality(pending) - MaxPending) ELSE {}]
  <2>1. t \in Tasks
    BY <1>b DEF Tasks, Places
  <2>2. task' \in [Procs -> Tasks]
    BY <1>4, <1>c, <2>1 DEF ListOverflow
  <2>3. QED
    BY <1>4, <2>2 DEF ListOverflow, clientFiles, Tasks
<1>5. ASSUME NEW p \in Procs, DropOverflow(p) PROVE TelemetryTypeOK'
  <2>1. task' \in [Procs -> Tasks]
    BY <1>0, <1>5, <1>d, EnterTyped DEF DropOverflow, Places
  <2>2. QED
    BY <1>5, <1>a, <2>1 DEF DropOverflow, Tasks
<1>6. ASSUME NEW p \in Procs, WriteQueued(p) PROVE TelemetryTypeOK'
  BY <1>6, <1>a, <1>d DEF WriteQueued, Tasks
<1>7. ASSUME NEW p \in Procs, ChooseBatch(p) PROVE TelemetryTypeOK'
  <2> DEFINE t == [at |-> "chosen", seen |-> sentCount, count |-> 0, events |-> Oldest(pending, BatchSize)]
  <2>1. t \in Tasks
    BY <1>b DEF Tasks, Places
  <2>2. task' \in [Procs -> Tasks]
    BY <1>7, <1>c, <2>1 DEF ChooseBatch
  <2>3. QED
    BY <1>7, <2>2 DEF ChooseBatch, clientFiles, Tasks
<1>8. ASSUME NEW p \in Procs, PostBatch(p) PROVE TelemetryTypeOK'
  <2>1. [task[p] EXCEPT !.at = "await", !.events = task[p].events \cap pending] \in Tasks
    BY <1>0, AwaitTyped
  <2>2. task' \in [Procs -> Tasks]
    BY <1>8, <1>c, <1>d, <2>1 DEF PostBatch
  <2>3. QED
    BY <1>8, <2>2 DEF PostBatch, clientFiles, Tasks
<1>9. ASSUME NEW p \in Procs, Ingest(p) PROVE TelemetryTypeOK'
  <2>1. task' \in [Procs -> Tasks]
    BY <1>0, <1>9, EnterTyped DEF Ingest, Places
  <2>2. stored' \in [Events -> {0, 1}]
    BY <1>9, <1>a, <1>e DEF Ingest
  <2>3. QED
    BY <1>9, <2>1, <2>2 DEF Ingest, clientFiles, Tasks
<1>10. ASSUME NEW batch \in abandoned, IngestAbandoned(batch) PROVE TelemetryTypeOK'
  BY <1>10, <1>e DEF IngestAbandoned, clientFiles
<1>11. ASSUME NEW p \in Procs, Accepted(p) PROVE TelemetryTypeOK'
  <2>1. task' \in [Procs -> Tasks]
    BY <1>0, <1>11, EnterTyped DEF Accepted, Places
  <2>2. QED
    BY <1>11, <2>1 DEF Accepted, clientFiles, Tasks
<1>12. ASSUME NEW p \in Procs, GiveUp(p) PROVE TelemetryTypeOK'
  <2>1. task' \in [Procs -> Tasks]
    BY <1>0, <1>12, EnterTyped DEF GiveUp, Places
  <2>2. QED
    BY <1>12, <1>f, <2>1 DEF GiveUp, clientFiles, Tasks
<1>13. ASSUME NEW p \in Procs, RenameSent(p) PROVE TelemetryTypeOK'
  <2>1. ASSUME NEW e \in task[p].events,
               task' = [task EXCEPT ![p] =
                    [at |-> "rename", events |-> task[p].events \ {e}, seen |-> task[p].seen,
                     count |-> task[p].count + (IF e \in pending THEN 1 ELSE 0)]]
        PROVE  task' \in [Procs -> Tasks]
    <3> DEFINE n == task[p].count + (IF e \in pending THEN 1 ELSE 0)
    <3>1. n \in Nat
      BY <1>a
    <3> HIDE DEF n
    <3>2. [at |-> "rename", events |-> task[p].events \ {e}, seen |-> task[p].seen,
           count |-> n] \in Tasks
      BY <1>a, <3>1 DEF Tasks, Places
    <3>3. QED
      BY <1>c, <2>1, <3>2 DEF n
  <2>2. task' \in [Procs -> Tasks]
    <3>1. CASE Enter(p, "settle")
      BY <1>0, <3>1, EnterTyped DEF Places
    <3>2. QED
      BY <1>13, <2>1, <3>1 DEF RenameSent
  <2>3. QED
    BY <1>13, <1>a, <2>2 DEF RenameSent, Tasks
<1>14. ASSUME NEW p \in Procs, WriteFlushed(p) PROVE TelemetryTypeOK'
  BY <1>14, <1>a, <1>d DEF WriteFlushed, Tasks
<1>15. ASSUME NEW p \in Procs, Crash(p) PROVE TelemetryTypeOK'
  BY <1>15, <1>d, <1>f DEF Crash, clientFiles, Tasks
<1>16. CASE UNCHANGED vars
  BY <1>16 DEF vars
<1>17. QED
  BY <1>1, <1>2, <1>3, <1>4, <1>5, <1>6, <1>7, <1>8, <1>9, <1>10, <1>11, <1>12, <1>13,
     <1>14, <1>15, <1>16 DEF Next, ProcStep

(* Queue, delivery state and service table keep their types; no event is   *)
(* in the service's table twice.                                           *)
THEOREM TelemetryTypeCorrect == Spec => []TelemetryTypeOK
BY InitTyped, TypeStep, PTL DEF Spec

-----------------------------------------------------------------------------
QueueInv ==
    /\ TelemetryTypeOK
    /\ QueueConserves /\ Unwritten /\ Placed
    /\ SentIsStored /\ Committed
    /\ CapSparesNewest /\ Excessive
    /\ SentCountNotTooHigh /\ CountsBelow

LEMMA InitInv == Init => QueueInv
<1> SUFFICES ASSUME Init PROVE QueueInv
  OBVIOUS
<1>1. TelemetryTypeOK
  BY InitTyped
<1>2. Files = {} /\ sent = {} /\ Cardinality(sent) = 0
  BY FS_EmptySet DEF Init, Files
<1>3. \A p \in Procs : task[p].at = "idle" /\ task[p].events = {} /\ task[p].seen = 0 /\ task[p].count = 0
  BY DEF Init, Idle
<1>4. QED
  BY <1>1, <1>2, <1>3 DEF Init, QueueInv, QueueConserves, Unwritten, Placed, SentIsStored, Committed,
     CapSparesNewest, Excessive, SentCountNotTooHigh, CountsBelow

LEMMA Finite ==
  ASSUME TelemetryTypeOK
  PROVE  /\ IsFiniteSet(Files) /\ IsFiniteSet(sent) /\ IsFiniteSet(pending)
         /\ Cardinality(sent) \in Nat
         /\ \A e : IsFiniteSet(Newer(e)) /\ Cardinality(Newer(e)) \in Nat
<1>1. IsFiniteSet(Events) /\ Files \subseteq Events /\ sent \subseteq Events /\ pending \subseteq Events
  BY TelemetryAssumption DEF TelemetryTypeOK, Files
<1>2. IsFiniteSet(Files) /\ IsFiniteSet(sent) /\ IsFiniteSet(pending)
  BY <1>1, FS_Subset
<1>3. \A e : IsFiniteSet(Newer(e))
  BY <1>2, FS_Subset DEF Newer
<1>4. QED
  BY <1>2, <1>3, FS_CardinalityType

LEMMA FinitePrimed ==
  ASSUME TelemetryTypeOK'
  PROVE  \A e : IsFiniteSet(Newer(e)') /\ Cardinality(Newer(e)') \in Nat
<1>1. IsFiniteSet(Files')
  BY TelemetryAssumption, FS_Subset DEF TelemetryTypeOK, Files
<1>2. \A e : IsFiniteSet(Newer(e)')
  BY <1>1, FS_Subset DEF Newer
<1>3. QED
  BY <1>2, FS_CardinalityType

(* Files are moved, never removed: what is newer than an event stays.      *)
LEMMA NewerGrows ==
  ASSUME TelemetryTypeOK', Files \subseteq Files', NEW e
  PROVE  Cardinality(Newer(e)) <= Cardinality(Newer(e)')
<1>1. Newer(e) \subseteq Newer(e)'
  BY DEF Newer
<1>2. IsFiniteSet(Newer(e)')
  BY FinitePrimed
<1>3. QED
  BY <1>1, <1>2, FS_Subset

(* A step that moves no file, and leaves its process with events whose     *)
(* files it may speak of.                                                  *)
LEMMA LocalStep ==
  ASSUME QueueInv, TelemetryTypeOK', NEW p \in Procs,
         \A q \in Procs : q # p => task'[q] = task[q],
         UNCHANGED <<recorded, pending, sent, dropped>>,
         \A e \in Events : stored[e] = 1 => stored'[e] = 1,
         task'[p].at # "append",
         task'[p].events \subseteq Files,
         task'[p].at \in {"stored", "rename"} => \A e \in task'[p].events : stored'[e] = 1,
         task'[p].at = "listed" => \A e \in task'[p].events : Cardinality(Newer(e)) >= MaxPending,
         task'[p].seen + task'[p].count <= Cardinality(sent),
         sentCount' <= Cardinality(sent)
  PROVE  QueueInv'
<1> USE DEF QueueInv
<1>1. Files' = Files /\ \A e : Newer(e)' = Newer(e)
  BY DEF Files, Newer
<1>2. Files \subseteq recorded /\ Files \subseteq Events
  BY DEF Files, QueueConserves, TelemetryTypeOK
<1>3. Unwritten' /\ Placed'
  BY <1>1, <1>2 DEF Unwritten, Placed
<1>4. QueueConserves'
  BY <1>3 DEF QueueConserves, Placed, Files
<1>5. SentIsStored' /\ Committed'
  <2>1. \A e \in sent : stored'[e] = 1
    BY DEF SentIsStored, TelemetryTypeOK
  <2>2. \A q \in Procs : task[q].events \subseteq Events
    BY DEF TelemetryTypeOK
  <2>3. QED
    BY <2>1, <2>2 DEF SentIsStored, Committed
<1>6. CapSparesNewest' /\ Excessive'
  <2>1. CapSparesNewest'
    BY DEF CapSparesNewest
  <2>2. Excessive'
    BY <1>1 DEF Excessive
  <2>3. QED
    BY <2>1, <2>2
<1>7. SentCountNotTooHigh' /\ CountsBelow'
  BY DEF SentCountNotTooHigh, CountsBelow
<1>8. QED
  BY <1>3, <1>4, <1>5, <1>6, <1>7

LEMMA InvStep ==
  ASSUME QueueInv, [Next]_vars
  PROVE  QueueInv'
<1>0. TelemetryTypeOK /\ TelemetryTypeOK' /\ task \in [Procs -> Tasks]
  BY TypeStep DEF QueueInv, TelemetryTypeOK, Tasks
<1>a. pending \subseteq Files /\ Files \subseteq recorded
  BY <1>0 DEF QueueInv, Files, QueueConserves
<1>b. \A p \in Procs : /\ task[p].events \subseteq recorded
                       /\ task[p].at # "append" => task[p].events \subseteq Files
  BY DEF QueueInv, Placed
<1>n. /\ Cardinality(sent) \in Nat /\ sentCount \in Nat
      /\ sentCount <= Cardinality(sent) /\ sentCount + 0 <= Cardinality(sent)
      /\ 0 + 0 <= Cardinality(sent)
  BY <1>0, Finite DEF QueueInv, SentCountNotTooHigh, TelemetryTypeOK
<1>m. \A p \in Procs : /\ task[p].seen \in Nat /\ task[p].count \in Nat
                       /\ task[p].seen + task[p].count <= Cardinality(sent)
                       /\ task[p].seen <= Cardinality(sent)
  <2>1. \A p \in Procs : task[p].seen \in Nat /\ task[p].count \in Nat
    BY <1>0 DEF Tasks
  <2>2. \A p \in Procs : task[p].seen + task[p].count <= Cardinality(sent)
    BY DEF QueueInv, CountsBelow
  <2>3. QED
    BY <1>n, <2>1, <2>2
<1>c. Idle.at = "idle" /\ Idle.events = {} /\ Idle.seen = 0 /\ Idle.count = 0
  BY DEF Idle
<1>d. pending \cap sent = {} /\ pending \cap dropped = {} /\ sent \cap dropped = {}
  BY DEF QueueInv, QueueConserves
<1>e. \A e \in Events : stored[e] = 1 => stored[e] # 0
  OBVIOUS
<1>f. \A batch, e : e \in Events /\ stored[e] = 1 => Inserted(batch)[e] = 1
  BY DEF Inserted
<1>1. ASSUME NEW p \in Procs, NEW e \in Events, AppendEvent(p, e) PROVE QueueInv'
  <2>1. /\ task'[p].at = "append" /\ task'[p].events = {e}
        /\ task'[p].seen = 0 /\ task'[p].count = 0
        /\ \A q \in Procs : q # p => task'[q] = task[q]
    BY <1>0, <1>1 DEF AppendEvent, Idle
  <2>2. /\ e \notin recorded /\ recorded' = recorded \cup {e} /\ Files' = Files
        /\ \A f : Newer(f)' = Newer(f)
        /\ UNCHANGED <<pending, torn, sent, dropped, sentCount, abandoned, stored>>
    BY <1>1 DEF AppendEvent, Files, Newer
  <2>3. Unwritten'
    <3>1. {e} \cap Files' = {} /\ \A q \in Procs : {e} \cap task[q].events = {}
      <4>1. e \notin recorded /\ Files' = Files
        BY <2>2
      <4>2. e \notin Files'
        BY <1>a, <4>1
      <4>3. \A q \in Procs : e \notin task[q].events
        BY <1>b, <4>1
      <4>4. QED
        BY <4>2, <4>3
    <3>2. \A q \in Procs : task'[q].at = "append" => task'[q].events \cap Files' = {}
      BY <2>1, <2>2, <3>1 DEF QueueInv, Unwritten
    <3>3. ASSUME NEW q \in Procs, NEW r \in Procs, q # r,
                 task'[q].at = "append", task'[r].at = "append"
          PROVE  task'[q].events \cap task'[r].events = {}
      <4>1. CASE q = p
        BY <2>1, <3>1, <3>3, <4>1
      <4>2. CASE r = p
        BY <2>1, <3>1, <3>3, <4>2
      <4>3. CASE q # p /\ r # p
        BY <2>1, <3>3, <4>3 DEF QueueInv, Unwritten
      <4>4. QED
        BY <4>1, <4>2, <4>3
    <3>4. QED
      BY <3>2, <3>3 DEF Unwritten
  <2>4. Placed'
    BY <1>a, <1>b, <2>1, <2>2 DEF QueueInv, Placed
  <2>5. QueueConserves'
    BY <1>d, <1>a, <2>1, <2>2, <2>4 DEF QueueConserves, Placed, Files
  <2>6. SentIsStored' /\ Committed' /\ CapSparesNewest' /\ Excessive'
    BY <2>1, <2>2 DEF QueueInv, SentIsStored, Committed, CapSparesNewest, Excessive
  <2>7. SentCountNotTooHigh' /\ CountsBelow'
    BY <1>n, <1>m, <2>1, <2>2 DEF SentCountNotTooHigh, CountsBelow
  <2>8. QED
    BY <1>0, <2>3, <2>4, <2>5, <2>6, <2>7 DEF QueueInv
<1>2. ASSUME NEW p \in Procs, WriteQueueFile(p) \/ TearQueueFile(p) PROVE QueueInv'
  <2>1. /\ task'[p].at \in {"queued", "idle"} /\ task'[p].events \subseteq task[p].events
        /\ task'[p].seen + task'[p].count <= Cardinality(sent)
        /\ \A q \in Procs : q # p => task'[q] = task[q]
    BY <1>0, <1>a, <1>b, <1>n, <1>m, <1>c, <1>2, EnterTyped, OwnLocals, IdleTyped
       DEF WriteQueueFile, TearQueueFile, Places
  <2>2. /\ task[p].at = "append" /\ pending' = pending \cup task[p].events
        /\ UNCHANGED <<recorded, sent, dropped, sentCount, abandoned, stored>>
    BY <1>2 DEF WriteQueueFile, TearQueueFile
  <2>3. Files' = Files \cup task[p].events /\ task[p].events \cap Files = {}
    BY <2>2 DEF Files, QueueInv, Unwritten
  <2>4. Unwritten'
    BY <2>1, <2>2, <2>3 DEF QueueInv, Unwritten
  <2> HIDE DEF Files
  <2>5. \A q \in Procs : /\ task'[q].events \subseteq recorded'
                         /\ task'[q].at # "append" => task'[q].events \subseteq Files'
    <3>1. task'[p].events \subseteq recorded' /\ task'[p].events \subseteq Files'
      <4>1. task[p].events \subseteq recorded
        BY <1>b
      <4>2. recorded' = recorded /\ task'[p].events \subseteq task[p].events
        BY <2>1, <2>2
      <4>3. task[p].events \subseteq Files'
        BY <2>3
      <4>4. QED
        BY <4>1, <4>2, <4>3
    <3>2. ASSUME NEW q \in Procs, q # p
          PROVE  /\ task'[q].events \subseteq recorded'
                 /\ task'[q].at # "append" => task'[q].events \subseteq Files'
      <4>1. /\ task[q].events \subseteq recorded
            /\ task[q].at # "append" => task[q].events \subseteq Files
        BY <1>b
      <4>2. task'[q] = task[q] /\ recorded' = recorded /\ Files \subseteq Files'
        BY <2>1, <2>2, <2>3, <3>2
      <4>3. QED
        BY <4>1, <4>2
    <3>3. QED
      BY <3>1, <3>2
  <2>6. QueueConserves'
    <3>1. Files' \subseteq recorded'
      <4>1. task[p].events \subseteq recorded
        BY <1>b
      <4>2. recorded' = recorded /\ Files' = Files \cup task[p].events
        BY <2>2, <2>3
      <4>3. QED
        BY <1>a, <4>1, <4>2
    <3>2. pending' \cap sent' = {} /\ pending' \cap dropped' = {} /\ sent' \cap dropped' = {}
      <4>1. task[p].events \cap sent = {} /\ task[p].events \cap dropped = {}
        BY <2>3 DEF Files
      <4>2. QED
        BY <1>d, <2>2, <4>1
    <3>3. \A e \in recorded' \ Files' : \A q \in Procs : e \in task'[q].events => task'[q].at = "append"
      BY <2>5
    <3>4. QED
      BY <3>1, <3>2, <3>3 DEF QueueConserves, Files
  <2>7. SentIsStored' /\ Committed'
    BY <2>1, <2>2 DEF QueueInv, SentIsStored, Committed
  <2>8. CapSparesNewest' /\ Excessive'
    <3>1. \A e : Cardinality(Newer(e)) >= MaxPending => Cardinality(Newer(e)') >= MaxPending
      <4> SUFFICES ASSUME NEW e, Cardinality(Newer(e)) >= MaxPending
                   PROVE  Cardinality(Newer(e)') >= MaxPending
        OBVIOUS
      <4>1. Cardinality(Newer(e)) <= Cardinality(Newer(e)')
        BY <1>0, <2>3, NewerGrows
      <4>2. Cardinality(Newer(e)) \in Nat
        BY <1>0, Finite
      <4>3. Cardinality(Newer(e)') \in Nat
        BY <1>0, FinitePrimed
      <4>4. QED
        BY <4>1, <4>2, <4>3, TelemetryAssumption
    <3>2. CapSparesNewest'
      BY <2>2, <3>1 DEF QueueInv, CapSparesNewest, Newer, Files
    <3>3. Excessive'
      BY <2>1, <3>1 DEF QueueInv, Excessive
    <3>4. QED
      BY <3>2, <3>3
  <2>9. SentCountNotTooHigh' /\ CountsBelow'
    BY <1>n, <1>m, <2>1, <2>2 DEF SentCountNotTooHigh, CountsBelow
  <2>10. QED
    BY <1>0, <2>4, <2>5, <2>6, <2>7, <2>8, <2>9 DEF QueueInv, Placed
<1>3. ASSUME NEW p \in Procs, ListOverflow(p) PROVE QueueInv'
  <2> DEFINE n == Cardinality(pending)
             excess == IF n > MaxPending THEN Oldest(pending, n - MaxPending) ELSE {}
  <2>1. /\ task'[p].at = "listed" /\ task'[p].events = excess
        /\ task'[p].seen = sentCount /\ task'[p].count = 0
        /\ \A q \in Procs : q # p => task'[q] = task[q]
    BY <1>0, <1>3 DEF ListOverflow
  <2>2. UNCHANGED <<recorded, pending, torn, sent, dropped, sentCount, abandoned, stored>>
    BY <1>3 DEF ListOverflow, clientFiles
  <2>3. excess \subseteq pending
    BY OldestSubset
  <2>4. ASSUME NEW e \in excess PROVE Cardinality(Newer(e)) >= MaxPending
    <3>1. pending \subseteq Nat /\ IsFiniteSet(pending)
      BY <1>0, Finite, TelemetryAssumption DEF TelemetryTypeOK
    <3>2. Cardinality({f \in pending : f > e}) >= MaxPending
      BY <3>1, OldestLeavesNewest, TelemetryAssumption
    <3>3. {f \in pending : f > e} \subseteq Newer(e)
      BY <1>a DEF Newer
    <3>4. Cardinality({f \in pending : f > e}) <= Cardinality(Newer(e))
      BY <1>0, <3>3, Finite, FS_Subset
    <3>5. Cardinality({f \in pending : f > e}) \in Nat /\ Cardinality(Newer(e)) \in Nat
      BY <1>0, <3>1, Finite, FS_Subset, FS_CardinalityType
    <3>6. QED
      BY <3>2, <3>4, <3>5, TelemetryAssumption
  <2> HIDE DEF excess
  <2>5. QED
    BY <1>0, <1>a, <1>n, <2>1, <2>2, <2>3, <2>4, LocalStep
<1>4. ASSUME NEW p \in Procs, DropOverflow(p) PROVE QueueInv'
  <2> DEFINE excess == task[p].events
             moved  == {e \in excess : \A f \in excess : f <= e => f \in pending}
  <2>0. /\ task[p].at = "listed" /\ pending' = pending \ moved /\ dropped' = dropped \cup moved
        /\ UNCHANGED <<recorded, torn, sent, sentCount, abandoned, stored>>
    BY <1>4 DEF DropOverflow
  <2>1. /\ task'[p].at \in {"capped", "idle"} /\ task'[p].events \subseteq excess
        /\ task'[p].seen + task'[p].count <= Cardinality(sent)
        /\ \A q \in Procs : q # p => task'[q] = task[q]
    <3>1. CASE Enter(p, "capped")
      BY <1>0, <1>m, <3>1, EnterTyped DEF Places
    <3>2. CASE task' = [task EXCEPT ![p] = Idle]
      BY <1>0, <1>a, <1>n, <1>c, <3>2
    <3>3. QED
      BY <1>4, <3>1, <3>2 DEF DropOverflow
  <2>2. moved \subseteq pending
    <3>1. excess \subseteq Nat
      BY <1>0, TelemetryAssumption DEF Tasks
    <3>2. \A e \in excess : e <= e
      BY <3>1
    <3>3. QED
      BY <3>2
  <2>3. Files' = Files /\ \A e : Newer(e)' = Newer(e)
    BY <2>0, <2>2 DEF Files, Newer
  <2>4. moved \subseteq excess
    OBVIOUS
  <2> HIDE DEF moved
  <2>5. Unwritten' /\ Placed'
    BY <1>a, <1>b, <2>0, <2>1, <2>3 DEF QueueInv, Unwritten, Placed
  <2>6. QueueConserves'
    BY <1>a, <1>d, <2>0, <2>2, <2>3, <2>5 DEF QueueConserves, Placed, Files
  <2>7. SentIsStored' /\ Committed'
    BY <2>0, <2>1 DEF QueueInv, SentIsStored, Committed
  <2>8. CapSparesNewest'
    <3>1. \A e \in dropped : Cardinality(Newer(e)) >= MaxPending
      BY DEF QueueInv, CapSparesNewest, Newer, Files
    <3>2. \A e \in excess : Cardinality(Newer(e)) >= MaxPending
      BY <2>0 DEF QueueInv, Excessive
    <3>3. \A e \in dropped' : Cardinality(Newer(e)') >= MaxPending
      BY <2>0, <2>3, <2>4, <3>1, <3>2
    <3>4. QED
      BY <3>3 DEF CapSparesNewest, Newer, Files
  <2>9. Excessive'
    BY <2>1, <2>3 DEF QueueInv, Excessive
  <2>10. SentCountNotTooHigh' /\ CountsBelow'
    BY <1>n, <1>m, <2>0, <2>1 DEF SentCountNotTooHigh, CountsBelow
  <2>11. QED
    BY <1>0, <2>5, <2>6, <2>7, <2>8, <2>9, <2>10 DEF QueueInv
<1>5. ASSUME NEW p \in Procs, WriteQueued(p) PROVE QueueInv'
  <2>1. task'[p] = Idle /\ \A q \in Procs : q # p => task'[q] = task[q]
    BY <1>0, <1>5 DEF WriteQueued
  <2>2. sentCount' = task[p].seen
        /\ UNCHANGED <<recorded, pending, torn, sent, dropped, abandoned, stored>>
    BY <1>5 DEF WriteQueued
  <2>3. QED
    BY <1>0, <1>a, <1>b, <1>n, <1>m, <1>c, <2>1, <2>2, LocalStep
<1>6. ASSUME NEW p \in Procs, ChooseBatch(p) PROVE QueueInv'
  <2>1. /\ task'[p].at = "chosen" /\ task'[p].events = Oldest(pending, BatchSize)
        /\ task'[p].seen = sentCount /\ task'[p].count = 0
        /\ \A q \in Procs : q # p => task'[q] = task[q]
    BY <1>0, <1>6 DEF ChooseBatch
  <2>2. UNCHANGED <<recorded, pending, torn, sent, dropped, sentCount, abandoned, stored>>
    BY <1>6 DEF ChooseBatch, clientFiles
  <2>3. task'[p].events \subseteq Files
    BY <1>a, <2>1, OldestSubset
  <2>4. QED
    BY <1>0, <1>a, <1>n, <2>1, <2>2, <2>3, LocalStep
<1>7. ASSUME NEW p \in Procs, PostBatch(p) PROVE QueueInv'
  <2>1. /\ task'[p].at \in {"idle", "await"} /\ task'[p].events \subseteq pending
        /\ task'[p].seen + task'[p].count <= Cardinality(sent)
        /\ \A q \in Procs : q # p => task'[q] = task[q]
    <3>1. CASE task' = [task EXCEPT ![p] = Idle]
      BY <1>0, <1>a, <1>n, <1>c, <3>1
    <3>2. CASE task' = [task EXCEPT ![p] = [@ EXCEPT !.at = "await", !.events = task[p].events \cap pending]]
      <4>1. /\ task'[p] = [task[p] EXCEPT !.at = "await", !.events = task[p].events \cap pending]
            /\ \A q \in Procs : q # p => task'[q] = task[q]
        BY <1>0, <3>2
      <4>2. task'[p].at = "await" /\ task'[p].events = task[p].events \cap pending
            /\ task'[p].seen = task[p].seen /\ task'[p].count = task[p].count
        BY <1>0, <4>1, AwaitTyped
      <4>3. QED
        BY <1>m, <4>1, <4>2
    <3>3. QED
      BY <1>7, <3>1, <3>2 DEF PostBatch
  <2>2. UNCHANGED <<recorded, pending, torn, sent, dropped, sentCount, abandoned, stored>>
    BY <1>7 DEF PostBatch, clientFiles
  <2>3. QED
    BY <1>0, <1>a, <1>n, <2>1, <2>2, LocalStep
<1>8. ASSUME NEW p \in Procs, Ingest(p) PROVE QueueInv'
  <2>1. /\ task'[p].at \in {"stored", "refused"} /\ task'[p].events = task[p].events
        /\ task'[p].seen = task[p].seen /\ task'[p].count = task[p].count
        /\ \A q \in Procs : q # p => task'[q] = task[q]
        /\ task[p].at = "await"
    BY <1>0, <1>8, EnterTyped DEF Ingest, Places
  <2>2. UNCHANGED <<recorded, pending, torn, sent, dropped, sentCount, abandoned>>
    BY <1>8 DEF Ingest, clientFiles
  <2>3. \A e \in Events : stored[e] = 1 => stored'[e] = 1
    BY <1>8, <1>f DEF Ingest
  <2>4. task'[p].at = "stored" => \A e \in task[p].events : stored'[e] = 1
    <3>1. task[p].events \subseteq Events
      BY <1>0 DEF Tasks
    <3>2. ASSUME task'[p].at = "stored" PROVE stored' = Inserted(task[p].events)
      <4>1. CASE Enter(p, "refused")
        BY <1>0, <3>2, <4>1, EnterTyped DEF Places
      <4>2. QED
        BY <1>8, <4>1 DEF Ingest
    <3>3. \A e \in task[p].events : Inserted(task[p].events)[e] = 1
      BY <1>0, <3>1 DEF Inserted, TelemetryTypeOK
    <3>4. QED
      BY <3>2, <3>3
  <2>5. QED
    BY <1>0, <1>a, <1>b, <1>n, <1>m, <2>1, <2>2, <2>3, <2>4, LocalStep
<1>9. ASSUME NEW batch \in abandoned, IngestAbandoned(batch) PROVE QueueInv'
  <2>1. UNCHANGED <<recorded, pending, torn, sent, dropped, sentCount, task>>
        /\ \A e \in Events : stored[e] = 1 => stored'[e] = 1
    BY <1>9, <1>f DEF IngestAbandoned, clientFiles
  <2>2. Files' = Files /\ \A e : Newer(e)' = Newer(e)
    BY <2>1 DEF Files, Newer
  <2>3. SentIsStored' /\ Committed'
    BY <1>0, <2>1 DEF QueueInv, SentIsStored, Committed, TelemetryTypeOK
  <2>4. QED
    BY <1>0, <2>1, <2>2, <2>3 DEF QueueInv, QueueConserves, Unwritten, Placed, CapSparesNewest,
       Excessive, SentCountNotTooHigh, CountsBelow
<1>10. ASSUME NEW p \in Procs, Accepted(p) PROVE QueueInv'
  <2>1. /\ task'[p].at = "rename" /\ task'[p].events = task[p].events
        /\ task'[p].seen = task[p].seen /\ task'[p].count = task[p].count
        /\ \A q \in Procs : q # p => task'[q] = task[q]
        /\ task[p].at = "stored"
    BY <1>0, <1>10, EnterTyped DEF Accepted, Places
  <2>2. UNCHANGED <<recorded, pending, torn, sent, dropped, sentCount, abandoned, stored>>
    BY <1>10 DEF Accepted, clientFiles
  <2>3. \A e \in task[p].events : stored[e] = 1
    BY <2>1 DEF QueueInv, Committed
  <2>4. QED
    BY <1>0, <1>a, <1>b, <1>n, <1>m, <2>1, <2>2, <2>3, LocalStep
<1>11. ASSUME NEW p \in Procs, GiveUp(p) PROVE QueueInv'
  <2>1. /\ task'[p].at = "settle" /\ task'[p].events = task[p].events
        /\ task'[p].seen = task[p].seen /\ task'[p].count = task[p].count
        /\ \A q \in Procs : q # p => task'[q] = task[q]
        /\ task[p].at # "append"
    BY <1>0, <1>11, EnterTyped DEF GiveUp, Places
  <2>2. UNCHANGED <<recorded, pending, torn, sent, dropped, sentCount, stored>>
    BY <1>11 DEF GiveUp, clientFiles
  <2>3. QED
    BY <1>0, <1>a, <1>b, <1>n, <1>m, <2>1, <2>2, LocalStep
<1>12. ASSUME NEW p \in Procs, RenameSent(p) PROVE QueueInv'
  <2>0. task[p].at = "rename" /\ UNCHANGED <<recorded, torn, dropped, sentCount, abandoned, stored>>
    BY <1>12 DEF RenameSent
  <2>1. CASE Enter(p, "settle") /\ UNCHANGED <<pending, sent>>
    <3>1. /\ task'[p].at = "settle" /\ task'[p].events = task[p].events
          /\ task'[p].seen = task[p].seen /\ task'[p].count = task[p].count
          /\ \A q \in Procs : q # p => task'[q] = task[q]
      BY <1>0, <2>1, EnterTyped DEF Places
    <3>2. QED
      BY <1>0, <1>a, <1>b, <1>n, <1>m, <2>0, <2>1, <3>1, LocalStep
  <2>2. ASSUME NEW e \in task[p].events,
               pending' = pending \ {e},
               sent' = IF e \in pending THEN sent \cup {e} ELSE sent,
               task' = [task EXCEPT ![p] =
                    [at |-> "rename", events |-> task[p].events \ {e}, seen |-> task[p].seen,
                     count |-> task[p].count + (IF e \in pending THEN 1 ELSE 0)]]
        PROVE  QueueInv'
    <3>1. /\ task'[p].at = "rename" /\ task'[p].events = task[p].events \ {e}
          /\ task'[p].seen = task[p].seen
          /\ task'[p].count = task[p].count + (IF e \in pending THEN 1 ELSE 0)
          /\ \A q \in Procs : q # p => task'[q] = task[q]
      BY <1>0, <2>2
    <3>2. Files' = Files /\ \A f : Newer(f)' = Newer(f)
      BY <2>0, <2>2 DEF Files, Newer
    <3>3. Cardinality(sent') = Cardinality(sent) + (IF e \in pending THEN 1 ELSE 0)
      <4>1. CASE e \in pending
        BY <1>0, <1>d, <2>2, <4>1, Finite, FS_AddElement
      <4>2. CASE e \notin pending
        BY <1>0, <2>2, <4>2, Finite
      <4>3. QED
        BY <4>1, <4>2
    <3>4. Unwritten' /\ Placed'
      BY <1>a, <1>b, <2>0, <3>1, <3>2 DEF QueueInv, Unwritten, Placed
    <3>5. QueueConserves'
      BY <1>a, <1>d, <2>0, <2>2, <3>2, <3>4 DEF QueueConserves, Placed, Files
    <3>6. stored[e] = 1
      BY <2>0, <2>2 DEF QueueInv, Committed
    <3>7. SentIsStored' /\ Committed'
      BY <2>0, <2>2, <3>1, <3>6 DEF QueueInv, SentIsStored, Committed
    <3>8. CapSparesNewest' /\ Excessive'
      <4>1. \A f \in dropped' : Cardinality(Newer(f)') >= MaxPending
        BY <2>0, <3>2 DEF QueueInv, CapSparesNewest, Newer, Files
      <4>2. CapSparesNewest'
        BY <4>1 DEF CapSparesNewest, Newer, Files
      <4>3. Excessive'
        BY <3>1, <3>2 DEF QueueInv, Excessive
      <4>4. QED
        BY <4>2, <4>3
    <3>9. SentCountNotTooHigh' /\ CountsBelow'
      <4>1. Cardinality(sent) \in Nat
        BY <1>0, Finite
      <4>2. \A q \in Procs : task'[q].seen + task'[q].count <= Cardinality(sent')
        BY <1>m, <3>1, <3>3, <4>1
      <4>3. sentCount' <= Cardinality(sent')
        BY <1>n, <2>0, <3>3
      <4>4. QED
        BY <4>2, <4>3 DEF SentCountNotTooHigh, CountsBelow
    <3>10. QED
      BY <1>0, <3>4, <3>5, <3>7, <3>8, <3>9 DEF QueueInv
  <2>3. QED
    BY <1>12, <2>1, <2>2 DEF RenameSent
<1>13. ASSUME NEW p \in Procs, WriteFlushed(p) PROVE QueueInv'
  <2>1. task'[p] = Idle /\ \A q \in Procs : q # p => task'[q] = task[q]
    BY <1>0, <1>13 DEF WriteFlushed
  <2>2. sentCount' = task[p].seen + task[p].count
        /\ UNCHANGED <<recorded, pending, torn, sent, dropped, abandoned, stored>>
    BY <1>13 DEF WriteFlushed
  <2>3. QED
    BY <1>0, <1>a, <1>b, <1>n, <1>m, <1>c, <2>1, <2>2, LocalStep
<1>14. ASSUME NEW p \in Procs, Crash(p) PROVE QueueInv'
  <2>1. task'[p] = Idle /\ \A q \in Procs : q # p => task'[q] = task[q]
    BY <1>0, <1>14 DEF Crash
  <2>2. UNCHANGED <<recorded, pending, torn, sent, dropped, sentCount, stored>>
    BY <1>14 DEF Crash, clientFiles
  <2>3. QED
    BY <1>0, <1>a, <1>n, <1>c, <2>1, <2>2, LocalStep
<1>15. CASE UNCHANGED vars
  <2>1. Files' = Files /\ \A e : Newer(e)' = Newer(e)
    BY <1>15 DEF vars, Files, Newer
  <2>2. QED
    BY <1>0, <1>15, <2>1 DEF vars, QueueInv, QueueConserves, Unwritten, Placed, SentIsStored,
       Committed, CapSparesNewest, Excessive, SentCountNotTooHigh, CountsBelow
<1>16. QED
  BY <1>1, <1>2, <1>3, <1>4, <1>5, <1>6, <1>7, <1>8, <1>9, <1>10, <1>11, <1>12, <1>13,
     <1>14, <1>15 DEF Next, ProcStep

LEMMA AlwaysQueueInv == Spec => []QueueInv
BY InitInv, InvStep, PTL DEF Spec

(* No queue file is lost or in two places, for any number of processes.    *)
THEOREM QueueIsConserved == Spec => []QueueConserves
<1>1. QueueInv => QueueConserves
  BY DEF QueueInv
<1>2. QED
  BY AlwaysQueueInv, <1>1, PTL

(* What is in sent/ has been committed by the service.                     *)
THEOREM SentEventsAreStored == Spec => []SentIsStored
<1>1. QueueInv => SentIsStored
  BY DEF QueueInv
<1>2. QED
  BY AlwaysQueueInv, <1>1, PTL

(* The cap drops none of the MaxPending newest events, whatever the cap,   *)
(* the batch and the number of processes.                                  *)
THEOREM NewestEventsAreKept == Spec => []CapSparesNewest
<1>1. QueueInv => CapSparesNewest
  BY DEF QueueInv
<1>2. QED
  BY AlwaysQueueInv, <1>1, PTL

(* The delivery state never claims more than was sent.                     *)
THEOREM SentCountIsALowerBound == Spec => []SentCountNotTooHigh
<1>1. QueueInv => SentCountNotTooHigh
  BY DEF QueueInv
<1>2. QED
  BY AlwaysQueueInv, <1>1, PTL
=============================================================================
