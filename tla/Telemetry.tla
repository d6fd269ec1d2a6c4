------------------------------ MODULE Telemetry ------------------------------
(***************************************************************************)
(* Delivery of telemetry to the Wave Control service: the file queue of    *)
(* scripts/wave-orchestrator/wave-control-client.mjs, the HTTP request and *)
(* the ingest transaction of services/wave-control.                        *)
(*                                                                         *)
(* Several processes of a lane (launcher, operator commands, feedback)     *)
(* enqueue and flush at the same time, without a lock.  Within a process   *)
(* enqueueing is synchronous and a flush awaits only the answer; between   *)
(* processes every order of file operations is possible.  An event stands  *)
(* for its id; its number is the order of the names of the queue files.    *)
(***************************************************************************)
EXTENDS Naturals, FiniteSets

CONSTANTS
    Procs,       \* processes of the lane that use the queue
    Events,      \* the events ever recorded: positive numbers
    MaxPending,  \* waveControl.maxPendingEvents
    BatchSize,   \* waveControl.flushBatchSize
    Poison       \* events the service cannot insert

ASSUME TelemetryAssumption ==
    /\ Events \subseteq Nat
    /\ IsFiniteSet(Events)
    /\ MaxPending \in Nat \ {0}
    /\ BatchSize \in Nat \ {0}
    /\ Poison \subseteq Events

VARIABLES
    recorded,    \* events.jsonl
    pending,     \* pending/: the queue files
    torn,        \* those of them whose writer ended while it wrote
    sent,        \* sent/: queue files renamed after a good answer
    dropped,     \* failed/overflow-*: queue files moved away by the cap
    sentCount,   \* of delivery-state.json
    abandoned,   \* batches whose client has given up and the service may still insert
    stored,      \* how often each event is in the service's table
    task         \* what each process is doing with the queue

vars == <<recorded, pending, torn, sent, dropped, sentCount, abandoned, stored, task>>

clientFiles == <<recorded, pending, torn, sent, dropped, sentCount>>

Idle == [at |-> "idle", events |-> {}, seen |-> 0, count |-> 0]

Places == {"idle", "append", "queued", "listed", "capped",
           "chosen", "await", "stored", "refused", "rename", "settle"}

Enter(p, place) == task' = [task EXCEPT ![p].at = place]

(* The n smallest events of S: listPendingQueueFiles(...).slice(0, n).     *)
Oldest(S, n) == {e \in S : Cardinality({f \in S : f < e}) < n}

-----------------------------------------------------------------------------
Init ==
    /\ recorded = {} /\ pending = {} /\ torn = {} /\ sent = {} /\ dropped = {}
    /\ sentCount = 0
    /\ abandoned = {}
    /\ stored = [e \in Events |-> 0]
    /\ task = [p \in Procs |-> Idle]

(***************************************************************************)
(* queueWaveControlEvent                                                   *)
(***************************************************************************)
(* The local stream first.                                                 *)
AppendEvent(p, e) ==
    /\ task[p].at = "idle"
    /\ e \notin recorded
    /\ recorded' = recorded \cup {e}
    /\ task' = [task EXCEPT ![p] = [Idle EXCEPT !.at = "append", !.events = {e}]]
    /\ UNCHANGED <<pending, torn, sent, dropped, sentCount, abandoned, stored>>

WriteQueueFile(p) ==
    /\ task[p].at = "append"
    /\ pending' = pending \cup task[p].events
    /\ Enter(p, "queued")
    /\ UNCHANGED <<recorded, torn, sent, dropped, sentCount, abandoned, stored>>

(* The process ends within writeFileSync: the queue file is no JSON.       *)
TearQueueFile(p) ==
    /\ task[p].at = "append"
    /\ pending' = pending \cup task[p].events
    /\ torn' = torn \cup task[p].events
    /\ task' = [task EXCEPT ![p] = Idle]
    /\ UNCHANGED <<recorded, sent, dropped, sentCount, abandoned, stored>>

(* Mutant: one file too many is taken for overflow.                        *)
ListOneMore(p) ==
    /\ task[p].at = "queued"
    /\ LET n == Cardinality(pending) IN
        task' = [task EXCEPT ![p] =
            [at |-> "listed", seen |-> sentCount, count |-> 0,
             events |-> IF n >= MaxPending THEN Oldest(pending, n - MaxPending + 1) ELSE {}]]
    /\ UNCHANGED <<clientFiles, abandoned, stored>>

(* The delivery state and the names of the queue files are read.           *)
ListOverflow(p) ==
    /\ task[p].at = "queued"
    /\ LET n == Cardinality(pending) IN
        task' = [task EXCEPT ![p] =
            [at |-> "listed", seen |-> sentCount, count |-> 0,
             events |-> IF n > MaxPending THEN Oldest(pending, n - MaxPending) ELSE {}]]
    /\ UNCHANGED <<clientFiles, abandoned, stored>>

(* Mutant: the overflow is deleted instead of moved to failed/.            *)
DropOverflowDeletes(p) ==
    /\ task[p].at = "listed"
    /\ pending' = pending \ task[p].events
    /\ Enter(p, "capped")
    /\ UNCHANGED <<recorded, torn, sent, dropped, sentCount, abandoned, stored>>

(* enforcePendingQueueCap renames file by file; a file that a flush took   *)
(* away meanwhile throws, and safeQueueWaveControlEvent swallows that: the *)
(* files after it stay and the delivery state is not written.              *)
DropOverflow(p) ==
    /\ task[p].at = "listed"
    /\ LET excess == task[p].events
           moved  == {e \in excess : \A f \in excess : f <= e => f \in pending}
       IN
        /\ pending' = pending \ moved
        /\ dropped' = dropped \cup moved
        /\ IF moved = excess THEN Enter(p, "capped") ELSE task' = [task EXCEPT ![p] = Idle]
    /\ UNCHANGED <<recorded, torn, sent, sentCount, abandoned, stored>>

(* The state read before is written back.                                  *)
WriteQueued(p) ==
    /\ task[p].at = "capped"
    /\ sentCount' = task[p].seen
    /\ task' = [task EXCEPT ![p] = Idle]
    /\ UNCHANGED <<recorded, pending, torn, sent, dropped, abandoned, stored>>

(***************************************************************************)
(* flushWaveControlQueue                                                   *)
(***************************************************************************)
(* Mutant: the newest files are taken first.                               *)
NewestFirst(p) ==
    /\ task[p].at = "idle" /\ pending # {}
    /\ task' = [task EXCEPT ![p] =
            [at |-> "chosen", seen |-> sentCount, count |-> 0,
             events |-> {e \in pending : Cardinality({f \in pending : f > e}) < BatchSize}]]
    /\ UNCHANGED <<clientFiles, abandoned, stored>>

ChooseBatch(p) ==
    /\ task[p].at = "idle" /\ pending # {}
    /\ task' = [task EXCEPT ![p] =
            [at |-> "chosen", seen |-> sentCount, count |-> 0, events |-> Oldest(pending, BatchSize)]]
    /\ UNCHANGED <<clientFiles, abandoned, stored>>

(* The queue files are read, those gone meanwhile are left out, and the    *)
(* request is sent.  A torn file makes JSON.parse throw, out of the flush. *)
PostBatch(p) ==
    /\ task[p].at = "chosen"
    /\ LET batch == task[p].events \cap pending IN
        task' = [task EXCEPT ![p] =
            IF batch = {} \/ batch \cap torn # {} THEN Idle
            ELSE [@ EXCEPT !.at = "await", !.events = batch]]
    /\ UNCHANGED <<clientFiles, abandoned, stored>>

(* Mutant: INSERT without ON CONFLICT (id) DO NOTHING.                     *)
InsertedAgain(batch) == [e \in Events |-> stored[e] + IF e \in batch THEN 1 ELSE 0]

(* INSERT ... ON CONFLICT (id) DO NOTHING, for each event of the batch.    *)
Inserted(batch) == [e \in Events |-> IF e \in batch /\ stored[e] = 0 THEN 1 ELSE stored[e]]

(* ingestBatch: one transaction for the batch; an event that cannot be     *)
(* inserted rolls all of it back.                                          *)
Insertable(batch) == batch \cap Poison = {}

Ingest(p) ==
    /\ task[p].at = "await"
    /\ IF Insertable(task[p].events)
       THEN stored' = Inserted(task[p].events) /\ Enter(p, "stored")
       ELSE Enter(p, "refused") /\ UNCHANGED stored
    /\ UNCHANGED <<clientFiles, abandoned>>

(* The service works on although the client has given up, or is lost: a    *)
(* batch that is never inserted is a request that did not arrive.          *)
IngestAbandoned(batch) ==
    /\ Insertable(batch)
    /\ abandoned' = abandoned \ {batch}
    /\ stored' = Inserted(batch)
    /\ UNCHANGED <<clientFiles, task>>

Abandon(p) ==
    abandoned' = IF task[p].at = "await" THEN abandoned \cup {task[p].events} ELSE abandoned

(* A good answer.                                                          *)
Accepted(p) ==
    /\ task[p].at = "stored"
    /\ Enter(p, "rename")
    /\ UNCHANGED <<clientFiles, abandoned, stored>>

(* Mutant: the failure of a request is not told from its success.          *)
GiveUpAsSent(p) ==
    /\ task[p].at \in {"await", "stored", "refused"}
    /\ Abandon(p)
    /\ Enter(p, "rename")
    /\ UNCHANGED <<clientFiles, stored>>

(* An error status, an answer lost on its way, a failed connection, or the *)
(* timer of postBatch.  The files are copied to failed/, which nothing     *)
(* reads, and stay queued for the next flush.                              *)
GiveUp(p) ==
    /\ task[p].at \in {"await", "stored", "refused"}
    /\ Abandon(p)
    /\ Enter(p, "settle")
    /\ UNCHANGED <<clientFiles, stored>>

(* Mutant: every file of the batch is counted, renamed or not.             *)
RenameCountsAll(p) ==
    /\ task[p].at = "rename"
    /\ \/ \E e \in task[p].events :
            /\ pending' = pending \ {e}
            /\ sent' = IF e \in pending THEN sent \cup {e} ELSE sent
            /\ task' = [task EXCEPT ![p].events = @ \ {e}, ![p].count = @ + 1]
       \/ /\ task[p].events = {}
          /\ Enter(p, "settle")
          /\ UNCHANGED <<pending, sent>>
    /\ UNCHANGED <<recorded, torn, dropped, sentCount, abandoned, stored>>

(* renameIfExists, file by file: another flush, or the cap, may have taken *)
(* the file.                                                               *)
RenameSent(p) ==
    /\ task[p].at = "rename"
    /\ \/ \E e \in task[p].events :
            /\ pending' = pending \ {e}
            /\ sent' = IF e \in pending THEN sent \cup {e} ELSE sent
            /\ task' = [task EXCEPT ![p] =
                    [at |-> "rename", events |-> task[p].events \ {e}, seen |-> task[p].seen,
                     count |-> task[p].count + (IF e \in pending THEN 1 ELSE 0)]]
       \/ /\ task[p].events = {}
          /\ Enter(p, "settle")
          /\ UNCHANGED <<pending, sent>>
    /\ UNCHANGED <<recorded, torn, dropped, sentCount, abandoned, stored>>

(* The state read before the request, with this flush's count on top: what *)
(* other processes wrote meanwhile is undone.                              *)
WriteFlushed(p) ==
    /\ task[p].at = "settle"
    /\ sentCount' = task[p].seen + task[p].count
    /\ task' = [task EXCEPT ![p] = Idle]
    /\ UNCHANGED <<recorded, pending, torn, sent, dropped, abandoned, stored>>

(* The process ends anywhere; another one takes its name.                  *)
Crash(p) ==
    /\ task[p].at # "idle"
    /\ Abandon(p)
    /\ task' = [task EXCEPT ![p] = Idle]
    /\ UNCHANGED <<clientFiles, stored>>

-----------------------------------------------------------------------------
ProcStep(p) ==
    \/ WriteQueueFile(p) \/ ListOverflow(p) \/ DropOverflow(p) \/ WriteQueued(p)
    \/ PostBatch(p) \/ Accepted(p) \/ RenameSent(p) \/ WriteFlushed(p)

Next ==
    \/ \E p \in Procs :
        \/ \E e \in Events : AppendEvent(p, e)
        \/ ChooseBatch(p) \/ ProcStep(p) \/ Ingest(p) \/ GiveUp(p)
        \/ Crash(p) \/ TearQueueFile(p)
    \/ \E batch \in abandoned : IngestAbandoned(batch)

Spec == Init /\ [][Next]_vars

(* Every attempt of the launcher flushes, and neither the network nor the  *)
(* processes fail at the same point for ever: each step of a flush that    *)
(* can be taken again and again is taken.  GiveUp is the request timer.    *)
Fairness ==
    /\ SF_vars(\E p \in Procs : ChooseBatch(p)) /\ SF_vars(\E p \in Procs : PostBatch(p))
    /\ SF_vars(\E p \in Procs : Ingest(p)) /\ SF_vars(\E p \in Procs : Accepted(p))
    /\ SF_vars(\E p \in Procs : RenameSent(p))
    /\ \A p \in Procs : WF_vars(ProcStep(p) \/ GiveUp(p))

FairSpec == Spec /\ Fairness

-----------------------------------------------------------------------------
(* Each variable has its type; in particular the service has no event      *)
(* twice, although it may receive it many times.                           *)
TelemetryTypeOK ==
    /\ recorded \subseteq Events /\ pending \subseteq Events /\ torn \subseteq Events
    /\ sent \subseteq Events
    /\ dropped \subseteq Events
    /\ sentCount \in Nat
    /\ abandoned \subseteq SUBSET Events
    /\ stored \in [Events -> {0, 1}]
    /\ task \in [Procs -> [at : Places, events : SUBSET Events, seen : Nat, count : Nat]]

(* No queue file is lost or in two places: every event whose file was      *)
(* written is waiting, sent or dropped by the cap, however flushes of      *)
(* several processes, the cap and crashes interleave.  (An event whose     *)
(* process ends before the file is written stays in the local stream only.)*)
QueueConserves ==
    /\ pending \cap sent = {} /\ pending \cap dropped = {} /\ sent \cap dropped = {}
    /\ pending \cup sent \cup dropped \subseteq recorded
    /\ \A e \in recorded \ (pending \cup sent \cup dropped) :
          \A p \in Procs : e \in task[p].events => task[p].at = "append"

(* A file is in sent/ only when the service has committed its event,       *)
(* whatever was lost, answered late or sent again.                         *)
SentIsStored == \A e \in sent : stored[e] = 1

(* delivery-state.json never claims more than was sent, although every     *)
(* writer puts back a state it read before an await.                       *)
SentCountNotTooHigh == sentCount <= Cardinality(sent)

(* The cap never drops one of the MaxPending newest events, although it    *)
(* works from a listing that flushes and other enqueuers have overtaken.   *)
CapSparesNewest ==
    \A e \in dropped :
        Cardinality({f \in pending \cup sent \cup dropped : f > e}) >= MaxPending

(* Every queued event reaches the service, unless the cap drops it or a    *)
(* file that cannot be delivered is part of every batch.                   *)
Blocked == Oldest(pending, BatchSize) \cap (Poison \cup torn) # {}

QueuedEventsArrive ==
    \A e \in Events : e \in pending ~> stored[e] = 1 \/ e \in dropped \/ Blocked
=============================================================================
