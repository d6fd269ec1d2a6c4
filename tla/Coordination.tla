---------------------------- MODULE Coordination ----------------------------
(***************************************************************************)
(* One clarification of a wave in the coordination log, from the triage by *)
(* the launcher to its closure:                                            *)
(* scripts/wave-orchestrator/clarification-triage.mjs, coordination-store, *)
(* feedback, human-input-resolution, monitorWaveHumanFeedback of           *)
(* session-supervisor and the task surface of control-cli and coord-cli.   *)
(*                                                                         *)
(* The log is an append-only file without a lock.  Every process first     *)
(* reads it, decides what to append and appends record by record; other    *)
(* processes append in between, and a process may end in between.  The     *)
(* state of a record is its line with the latest updatedAt, the last one   *)
(* among equals.  Only the order of the times of one record matters: is    *)
(* its time later than its creation, and has a later line come since it    *)
(* was read.                                                               *)
(***************************************************************************)
EXTENDS Naturals, FiniteSets, Sequences

CONSTANTS
    MaxRequests,  \* bound: linked follow-up requests
    MaxAsks,      \* bound: human feedback requests
    MaxEvents,    \* bound: restarts, commands, requests taken up, repeated answers,
                  \* changes of the repository
    Commands,     \* those commands
    Cycles,       \* MAX_ROUTED_CLARIFICATION_CYCLES
    WithRefs      \* the clarification has artifactRefs

Requests == 1..MaxRequests
Asks     == 1..MaxAsks

ASSUME CoordinationAssumption ==
    /\ MaxRequests \in Nat /\ MaxAsks \in Nat /\ MaxEvents \in Nat /\ Cycles \in Nat
    /\ Commands \subseteq {"resolve", "dismiss", "reroute", "reassign", "waive", "close"}
    /\ WithRefs \in BOOLEAN

Clar   == <<"clarification-request", 0>>
Req(i) == <<"request", i>>
Esc(i) == <<"human-escalation", i>>
Hf(i)  == <<"human-feedback", i>>
Ticket(i) == <<"ticket", i>>       \* no record: the file of a feedback request
Assignment(i) == <<"decision", i>> \* the decision that mirrors an assignment

Ids == {Clar} \cup {Req(i) : i \in Requests}
              \cup {Esc(i) : i \in Asks} \cup {Hf(i) : i \in Asks}

VARIABLES
    log,       \* the state of each record
    tickets,   \* feedback/requests/*.json
    assigned,  \* follow-up requests with an assignment decision in the log
    finding,   \* what buildPolicyResolution finds besides those decisions
    launcher,  \* the launcher of the wave
    cli,       \* the operator's or agent's command that is running
    events     \* restarts, commands and changes of the finding so far

vars == <<log, tickets, assigned, finding, launcher, cli, events>>
files == <<log, tickets, assigned>>

(* OPEN_COORDINATION_STATUSES; "waived" is an open status with             *)
(* blocking: false, "gone" is superseded or cancelled.                     *)
Open(id)    == log[id].status \in {"open", "working", "waived"}
Blocks(id)  == log[id].status \in {"open", "working"}
Settled(id) == log[id].status = "resolved"
Exists(id)  == log[id].status # "none"

(* clarificationLinkedRequests, and the escalations with the closure       *)
(* condition of the clarification.                                         *)
LinkedRequests    == {i \in Requests : Exists(Req(i))}
LinkedEscalations == {i \in Asks : Exists(Esc(i)) /\ log[Esc(i)].linked}

Absent    == [status |-> "none", late |-> FALSE, linked |-> FALSE]
NoTickets == [i \in Asks |-> "none"]
Fresh  == [at |-> "idle", todo |-> <<>>, known |-> NoTickets, decided |-> FALSE]
Quiet  == [at |-> "idle", todo |-> <<>>, ask |-> 0, hit |-> FALSE]

Init ==
    /\ log = [id \in Ids |-> IF id = Clar THEN [Absent EXCEPT !.status = "open"] ELSE Absent]
    /\ tickets = NoTickets /\ assigned = {}
    /\ finding \in {"nothing", "owner"}
    /\ launcher = Fresh
    /\ cli = Quiet
    /\ events = 0

-----------------------------------------------------------------------------
(***************************************************************************)
(* Appending.  The stamp of a write is the updatedAt it gets: "created"    *)
(* for updatedAt: undefined, "kept" for the one that was read, "now".      *)
(***************************************************************************)
Write(id, status, stamp) ==
    [id |-> id, status |-> status, stamp |-> stamp, late |-> log[id].late,
     linked |-> log[id].linked]

Linked(w)   == [w EXCEPT !.linked = TRUE]
NewFile(id) == [Write(Clar, "open", "now") EXCEPT !.id = id]

(* The numbers of S in their order, and one write for each of them.        *)
Sorted(S) ==
    [n \in 1 .. Cardinality(S) |->
        CHOOSE i \in S : Cardinality({j \in S : j < i}) = n - 1]

Each(S, W(_)) == [n \in 1 .. Cardinality(S) |-> W(Sorted(S)[n])]

(* appendCoordinationRecord, then materializeCoordinationState: a write    *)
(* whose time is earlier than that of the record does not change it.       *)
Late(w) ==
    \/ w.stamp = "now" /\ Exists(w.id)
    \/ w.stamp = "kept" /\ w.late

Appended(w) ==
    IF w.stamp = "outdated" \/ (log[w.id].late /\ ~Late(w)) THEN log
    ELSE [log EXCEPT ![w.id] = [status |-> w.status, late |-> Late(w), linked |-> w.linked]]

Perform(w) ==
    \/ /\ w.id \in Ids
       /\ log' = Appended(w)
       /\ UNCHANGED <<tickets, assigned>>
    \/ /\ w.id[1] = "ticket"
       /\ tickets' = [tickets EXCEPT ![w.id[2]] = "pending"]
       /\ UNCHANGED <<log, assigned>>
    \/ /\ w.id[1] = "decision"
       /\ assigned' = assigned \cup {w.id[2]}
       /\ UNCHANGED <<log, tickets>>

-----------------------------------------------------------------------------
(***************************************************************************)
(* The launcher                                                            *)
(***************************************************************************)
(* It ends, possibly between two appends, and another one is started.      *)
Restart ==
    /\ events < MaxEvents
    /\ events' = events + 1
    /\ launcher' = Fresh
    /\ UNCHANGED <<files, finding, cli>>

(* A write that keeps the time a command has read is overtaken.            *)
Overtaken(w, todo) ==
    [n \in DOMAIN todo |->
        IF todo[n].id = w.id /\ todo[n].stamp = "kept" /\ w.stamp = "now"
        THEN [todo[n] EXCEPT !.stamp = "outdated"] ELSE todo[n]]

LauncherWrites ==
    /\ launcher.todo # <<>>
    /\ LET w == Head(launcher.todo) IN
        /\ Perform(w)
        /\ cli' = [cli EXCEPT !.todo = Overtaken(w, @)]
    /\ launcher' = [launcher EXCEPT !.todo = Tail(@), !.decided = @ /\ Len(launcher.todo) > 1]
    /\ UNCHANGED <<finding, events>>

At(place) == launcher.at = place /\ launcher.todo = <<>>

(* Mutant: the status of the request is copied into the record.            *)
PollCopiesStatus(i) == <<Write(Hf(i), tickets[i], "now")>>

(* Mutant: the records keep the time of their creation.                    *)
PollBackdates(i) ==
    IF tickets[i] = "pending"
    THEN <<Write(Hf(i), "open", "now")>>
    ELSE <<Write(Esc(i), "resolved", "created"), Write(Hf(i), "resolved", "created")>>

(* monitorWaveHumanFeedback: each request whose signature is new.          *)
PollWrites(i) ==
    IF tickets[i] = "pending"
    THEN <<Write(Hf(i), "open", "now")>>
    ELSE <<Write(Esc(i), "resolved", "now"), Write(Hf(i), "resolved", "now")>>

Poll ==
    /\ At("idle")
    /\ \E i \in Asks :
        /\ tickets[i] # launcher.known[i]
        /\ launcher' = [launcher EXCEPT !.known[i] = tickets[i], !.todo = PollWrites(i)]
    /\ UNCHANGED <<files, finding, cli, events>>

(* refreshDerivedState: updateSeedRecords writes the feedback records      *)
(* whose status differs from their request ...                             *)
Refresh ==
    /\ At("idle")
    /\ LET status(i) == IF tickets[i] = "answered" THEN "resolved" ELSE "open"
           stale == {i \in Asks : tickets[i] # "none" /\ log[Hf(i)].status # status(i)}
       IN launcher' = [launcher EXCEPT !.at = "triage",
              !.todo = Each(stale, LAMBDA i : Write(Hf(i), status(i), "now"))]
    /\ UNCHANGED <<files, finding, cli, events>>

(* ... and triageClarificationRequests follows.  buildPolicyResolution     *)
(* begins with findDecisionResolution, which takes any decision that       *)
(* shares an artifactRef with the clarification; the launcher mirrors its  *)
(* own assignments of follow-up requests as decisions that do.             *)
Resolution ==
    CASE finding = "decision" \/ (WithRefs /\ assigned # {}) -> "policy"
      [] finding = "owner" /\ ~(WithRefs /\ assigned # {})   -> "route"
      [] finding = "nothing" /\ ~(WithRefs /\ assigned # {}) -> "none"

(* Mutant: an escalation that was superseded counts as answered.           *)
AnsweredOrGone ==
    \/ \E i \in LinkedRequests : Settled(Req(i))
    \/ \E i \in LinkedEscalations : ~Open(Esc(i))

Answered ==
    \/ \E i \in LinkedRequests : Settled(Req(i))
    \/ \E i \in LinkedEscalations : Settled(Esc(i))

Unacknowledged == {i \in LinkedRequests : log[Req(i)].status = "open"}
Active         == {i \in LinkedRequests : log[Req(i)].status = "working"}
OpenEscalations == {i \in LinkedEscalations : Open(Esc(i))}

SupersedeEscalations ==
    Each({i \in OpenEscalations : Blocks(Esc(i))}, LAMBDA i : Write(Esc(i), "gone", "created"))

(* syncAssignmentRecords follows every triage.                             *)
Mirror(requests) == Each(requests \ assigned, LAMBDA i : NewFile(Assignment(i)))

Triages(writes) ==
    /\ launcher' = [launcher EXCEPT !.at = "idle", !.todo = writes,
                                    !.decided = finding = "decision" /\ writes # <<>>]
    /\ UNCHANGED <<files, finding, cli, events>>

ClarificationBlocks == At("triage") /\ Blocks(Clar)
Undecided == ClarificationBlocks /\ ~Answered /\ Resolution # "policy"

TriageCloses ==
    /\ ClarificationBlocks
    /\ Answered \/ Resolution = "policy"
    /\ Triages(SupersedeEscalations \o <<Write(Clar, "resolved", "created")>>
           \o Mirror(LinkedRequests))

(* createClarificationRoute, after supersedeOpenRequests for the follow-up *)
(* requests nobody acknowledged in time.                                   *)
TriageRoutes ==
    /\ Undecided /\ Resolution = "route"
    /\ LET n == Cardinality(LinkedRequests) + 1 IN
        /\ n \in Requests
        /\ \E expired \in SUBSET Unacknowledged :
            /\ \/ Unacknowledged \cup Active = {}
               \/ Active = {} /\ expired # {} /\ n <= Cycles
            /\ Triages(SupersedeEscalations
                   \o Each(expired, LAMBDA i : Write(Req(i), "gone", "created"))
                   \o <<Write(Clar, "working", "created"),
                        Linked(Write(Req(n), "open", "created"))>>
                   \o Mirror(LinkedRequests \cup {n}))

(* Mutant: an escalation that is open does not keep the next one back.     *)
AsksAgain ==
    /\ Undecided /\ Resolution = "none"
    /\ LET n == Cardinality({i \in Asks : tickets[i] # "none"}) + 1 IN
        /\ n \in Asks
        /\ Triages(<<NewFile(Ticket(n)), Linked(Write(Esc(n), "open", "created"))>>)

(* escalateClarificationToHuman: without an owner, or when the routed      *)
(* cycles are used up.                                                     *)
TriageAsks ==
    /\ Undecided /\ OpenEscalations = {}
    /\ \/ Resolution = "none"
       \/ Active = {} /\ Unacknowledged # {} /\ Cardinality(LinkedRequests) >= Cycles
    /\ LET n == Cardinality({i \in Asks : tickets[i] # "none"}) + 1 IN
        /\ n \in Asks
        /\ Triages(<<NewFile(Ticket(n)), Linked(Write(Esc(n), "open", "created")),
                     Write(Clar, "working", "created")>> \o Mirror(LinkedRequests))

(* Nothing to decide, or what was decided is under way.                    *)
TriageWaits ==
    \/ At("triage") /\ ~Blocks(Clar) /\ Triages(Mirror(LinkedRequests))
    \/ Undecided /\ Resolution = "none" /\ OpenEscalations # {} /\ Triages(Mirror(LinkedRequests))
    \/ /\ Undecided /\ Resolution = "route"
       /\ Unacknowledged \cup Active # {}
       /\ Triages(SupersedeEscalations \o Mirror(LinkedRequests))

-----------------------------------------------------------------------------
(***************************************************************************)
(* Commands: one process at a time                                         *)
(***************************************************************************)
CliWrites ==
    /\ cli.todo # <<>>
    /\ Perform(Head(cli.todo))
    /\ cli' = [cli EXCEPT !.todo = Tail(@)]
    /\ UNCHANGED <<finding, launcher, events>>

Stage(place) == cli.at = place /\ cli.todo = <<>>

(* answerFeedbackRequest, under requests.lock; with force, which the       *)
(* commands pass, an answered request is answered again ...                *)
AnswerTicket(i) ==
    /\ Stage("idle")
    /\ \/ tickets[i] = "pending" /\ UNCHANGED events
       \/ tickets[i] = "answered" /\ events < MaxEvents /\ events' = events + 1
    /\ tickets' = [tickets EXCEPT ![i] = "answered"]
    /\ cli' = [Quiet EXCEPT !.at = "direct", !.ask = i]
    /\ UNCHANGED <<log, assigned, finding, launcher>>

Closing(id) == IF Open(id) THEN <<Write(id, "resolved", "kept")>> ELSE <<>>

(* ... then resolveFeedbackLinkedCoordination, which reads the log anew    *)
(* for the records of the request, the clarification and its links, and    *)
(* mirrors the assignments as the launcher does.                           *)
ResolveDirect ==
    /\ Stage("direct")
    /\ cli' = [cli EXCEPT !.at = "clarification",
                          !.todo = Closing(Esc(cli.ask)) \o Closing(Hf(cli.ask)),
                          !.hit = Open(Esc(cli.ask)) /\ log[Esc(cli.ask)].linked]
    /\ UNCHANGED <<files, finding, launcher, events>>

ResolveClarification ==
    /\ Stage("clarification")
    /\ cli' = [cli EXCEPT !.at = "linked",
                          !.todo = IF cli.hit THEN Closing(Clar) ELSE <<>>]
    /\ UNCHANGED <<files, finding, launcher, events>>

CloseLinks(status, stamp, escalations) ==
    Each({i \in LinkedRequests : Open(Req(i))}, LAMBDA i : Write(Req(i), status, stamp))
    \o Each(escalations, LAMBDA i : Write(Esc(i), status, stamp))

ResolveLinked ==
    /\ Stage("linked")
    /\ LET links == IF cli.hit THEN CloseLinks("resolved", "kept", OpenEscalations) ELSE <<>>
       IN cli' = [Quiet EXCEPT !.todo = links \o Mirror(LinkedRequests)]
    /\ UNCHANGED <<files, finding, launcher, events>>

Begin(writes) ==
    /\ cli' = [Quiet EXCEPT !.todo = writes]
    /\ UNCHANGED <<files, finding, launcher>>

(* The owner of a follow-up request takes it up (control task act start)   *)
(* or resolves it (coord act resolve).                                     *)
FollowUp(i) ==
    /\ Stage("idle")
    /\ i \in LinkedRequests /\ Open(Req(i))
    /\ \/ Begin(<<Write(Req(i), "resolved", "kept")>>) /\ UNCHANGED events
       \/ /\ i \in Unacknowledged
          /\ Begin(<<Write(Req(i), "working", "now")>>)
          /\ events < MaxEvents /\ events' = events + 1

(* The clarification is handed to another agent: superseded, a new         *)
(* request, in_progress.                                                   *)
HandOver(stamp) ==
    LET n == Cardinality(LinkedRequests) + 1 IN
        IF n \notin Requests THEN {}
        ELSE {<<Write(Clar, "gone", stamp), Linked(Write(Req(n), "open", "created")),
                Write(Clar, "working", stamp)>>}

(* What the operations append: resolve, dismiss and reroute of coord act;  *)
(* reassign, resolve (here "close"), defer, mark-advisory and mark-stale   *)
(* (here "waive") of control task act.                                     *)
CommandWrites(c) ==
    CASE c = "resolve"  -> {<<Write(Clar, "resolved", "kept")>>
                              \o CloseLinks("resolved", "kept", OpenEscalations)}
      [] c = "dismiss"  -> {<<Write(Clar, "gone", "kept")>>
                              \o CloseLinks("gone", "kept", OpenEscalations)}
      [] c = "reroute"  -> HandOver("kept")
      [] c = "reassign" -> HandOver("now")
      [] c = "close"    -> {<<Write(Clar, "resolved", "now")>> \o CloseLinks("resolved", "now", {})}
      [] c = "waive"    -> {<<Write(id, "waived", "now")>> : id \in {x \in Ids : Blocks(x)}}

Command ==
    /\ Stage("idle") /\ Blocks(Clar)
    /\ events < MaxEvents
    /\ \E c \in Commands : \E writes \in CommandWrites(c) : Begin(writes)
    /\ events' = events + 1

(* The process of the command ends before it has appended everything.      *)
CliDies ==
    /\ ~Stage("idle")
    /\ events < MaxEvents
    /\ events' = events + 1
    /\ cli' = Quiet
    /\ UNCHANGED <<files, finding, launcher>>

(* A decision is posted, an owner is named or is there no more.            *)
Learn ==
    /\ events < MaxEvents
    /\ \E f \in {"nothing", "owner", "decision"} \ {finding} : finding' = f
    /\ events' = events + 1
    /\ UNCHANGED <<files, launcher, cli>>

-----------------------------------------------------------------------------
Triage == TriageCloses \/ TriageRoutes \/ TriageAsks \/ TriageWaits

LauncherStep ==
    LauncherWrites \/ Refresh \/ Triage

CliStep ==
    CliWrites \/ ResolveDirect \/ ResolveClarification \/ ResolveLinked

Next ==
    \/ Restart \/ Poll \/ LauncherStep
    \/ \E i \in Asks : AnswerTicket(i)
    \/ \E i \in Requests : FollowUp(i)
    \/ CliStep \/ Command \/ CliDies \/ Learn

Spec == Init /\ [][Next]_vars

-----------------------------------------------------------------------------
Statuses == {"none", "open", "working", "waived", "resolved", "gone"}

(* Type invariant.                                                         *)
CoordinationTypeOK ==
    /\ \A id \in Ids : /\ log[id].status \in Statuses
                       /\ log[id].late \in BOOLEAN
                       /\ log[id].linked \in BOOLEAN
    /\ tickets \in [Asks -> {"none", "pending", "answered"}]
    /\ assigned \subseteq Requests
    /\ finding \in {"nothing", "owner", "decision"}
    /\ launcher.at \in {"idle", "triage"}
    /\ cli.at \in {"idle", "direct", "clarification", "linked"}

(* The wave waits for one question of the clarification at a time: at no   *)
(* time two of its escalations block, whatever happens between appends.    *)
OneBlockingEscalation == Cardinality({i \in LinkedEscalations : Blocks(Esc(i))}) <= 1

(* The launcher closes a routed or escalated clarification only when a     *)
(* follow-up request or an escalation of it is resolved, a question of it  *)
(* is answered, or a decision on its subject exists (current-state.md:     *)
(* routed clarifications remain blocking until the linked follow-up        *)
(* request or escalation is fully resolved).                               *)
ClosedForCause ==
    [][(Blocks(Clar) /\ Settled(Clar)' /\ LauncherWrites)
         => \/ \E i \in Requests : Settled(Req(i))
            \/ \E i \in Asks : Settled(Esc(i)) \/ tickets[i] = "answered"
            \/ launcher.decided]_vars

(* An answer the launcher has seen leaves nothing of its question open,    *)
(* whichever of launcher and command came first to each of its records.    *)
AnsweredIsRecorded ==
    \A i \in Asks : launcher.known[i] = "answered" /\ launcher.todo = <<>>
                     => ~Blocks(Hf(i)) /\ ~Blocks(Esc(i))
=============================================================================
