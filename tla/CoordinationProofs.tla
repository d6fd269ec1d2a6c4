------------------------- MODULE CoordinationProofs -------------------------
(***************************************************************************)
(* Proofs about Coordination, for any numbers of requests, questions and   *)
(* events, and any commands.                                               *)
(*                                                                         *)
(* The launcher and a command hold writes they decided on earlier, so the  *)
(* invariants speak of those: which writes may be pending in which state   *)
(* of the log.                                                             *)
(***************************************************************************)
EXTENDS Coordination, FiniteSetTheorems, SequenceTheorems, TLAPS

-----------------------------------------------------------------------------
(* Numbers and sequences.                                                  *)
LEMMA SetsOfNumbers ==
  ASSUME NEW M \in Nat, NEW S \in SUBSET (1 .. M)
  PROVE  /\ IsFiniteSet(S) /\ Cardinality(S) \in 0 .. M
         /\ \A n \in Nat : S \subseteq 1 .. n => Cardinality(S) <= n
         /\ \A n \in Nat : 1 .. n \subseteq S => n <= Cardinality(S)
<1>1. \A n \in Nat : IsFiniteSet(1 .. n) /\ Cardinality(1 .. n) = n
  BY FS_Interval
<1>2. \A n \in Nat : S \subseteq 1 .. n => IsFiniteSet(S) /\ Cardinality(S) <= n
  <2> TAKE n \in Nat
  <2> HAVE S \subseteq 1 .. n
  <2>1. IsFiniteSet(1 .. n) /\ Cardinality(1 .. n) = n
    BY <1>1
  <2>2. QED
    BY <2>1, FS_Subset
<1>3. IsFiniteSet(S) /\ Cardinality(S) <= M
  BY <1>2
<1>4. Cardinality(S) \in Nat
  BY <1>3, FS_CardinalityType
<1>5. \A n \in Nat : 1 .. n \subseteq S => n <= Cardinality(S)
  <2> TAKE n \in Nat
  <2> HAVE 1 .. n \subseteq S
  <2>1. Cardinality(1 .. n) <= Cardinality(S)
    BY <1>3, FS_Subset
  <2>2. QED
    BY <1>1, <2>1
<1>6. QED
  BY <1>2, <1>3, <1>4, <1>5

(* The number after a set of numbers without gaps is the first not in it.  *)
LEMMA NextNumber ==
  ASSUME NEW M \in Nat, NEW S \in SUBSET (1 .. M),
         \A i, j \in 1 .. M : i < j /\ j \in S => i \in S,
         Cardinality(S) + 1 \in 1 .. M
  PROVE  /\ Cardinality(S) + 1 \notin S
         /\ \A i \in 1 .. M : i < Cardinality(S) + 1 => i \in S
<1> DEFINE c == Cardinality(S)
<1>0. c \in Nat
  BY SetsOfNumbers
<1>1. c + 1 \notin S
  <2> SUFFICES ASSUME c + 1 \in S PROVE FALSE
    OBVIOUS
  <2>1. 1 .. (c + 1) \subseteq S
    BY <1>0
  <2>2. c + 1 <= c
    BY <1>0, <2>1, SetsOfNumbers
  <2>3. QED
    BY <1>0, <2>2
<1>2. ASSUME NEW i \in 1 .. M, i < c + 1 PROVE i \in S
  <2> SUFFICES ASSUME i \notin S PROVE FALSE
    OBVIOUS
  <2>1. S \subseteq 1 .. (i - 1)
    OBVIOUS
  <2>2. i - 1 \in Nat /\ c <= i - 1
    BY <2>1, SetsOfNumbers
  <2>3. QED
    BY <1>0, <1>2, <2>2
<1>3. QED
  BY <1>1, <1>2

(* Sorted lists members of its set: every rank is taken.                   *)
LEMMA SortedIn ==
  ASSUME NEW M \in Nat, NEW S \in SUBSET (1 .. M)
  PROVE  /\ Cardinality(S) \in Nat
         /\ \A n \in 1 .. Cardinality(S) : Sorted(S)[n] \in S
<1> DEFINE c == Cardinality(S)
           Below(i) == {j \in S : j < i}
           rank == [i \in S |-> Cardinality(Below(i)) + 1]
<1>1. IsFiniteSet(S) /\ c \in Nat
  BY SetsOfNumbers
<1>2. ASSUME NEW i \in S
      PROVE  /\ Cardinality(Below(i)) \in Nat
             /\ Cardinality(Below(i)) + 1 <= c
  <2>1. IsFiniteSet(Below(i)) /\ Below(i) \subseteq S \ {i}
    BY <1>1, FS_Subset
  <2>2. IsFiniteSet(S \ {i}) /\ Cardinality(S \ {i}) = c - 1
    BY <1>1, FS_RemoveElement
  <2>3. Cardinality(Below(i)) <= c - 1
    BY <2>1, <2>2, FS_Subset
  <2>4. Cardinality(Below(i)) \in Nat
    BY <2>1, FS_CardinalityType
  <2>5. QED
    BY <1>1, <2>3, <2>4
<1>3. ASSUME NEW i \in S, NEW k \in S, i < k
      PROVE  Cardinality(Below(i)) < Cardinality(Below(k))
  <2>1. IsFiniteSet(Below(i)) /\ IsFiniteSet(Below(k))
    BY <1>1, FS_Subset
  <2>2. Below(i) \cup {i} \subseteq Below(k) /\ i \notin Below(i)
    <3>1. S \subseteq Int
      OBVIOUS
    <3>2. \A j \in S : j < i => j < k
      BY <1>3, <3>1
    <3>3. ~(i < i)
      BY <3>1
    <3>4. QED
      BY <1>3, <3>2, <3>3
  <2>3. /\ IsFiniteSet(Below(i) \cup {i})
        /\ Cardinality(Below(i) \cup {i}) = Cardinality(Below(i)) + 1
    BY <2>1, <2>2, FS_AddElement
  <2>4. Cardinality(Below(i) \cup {i}) <= Cardinality(Below(k))
    BY <2>1, <2>2, FS_Subset
  <2>5. QED
    BY <1>2, <2>3, <2>4
<1>4. rank \in [S -> 1 .. c]
  BY <1>1, <1>2
<1>5. \A i, k \in S : rank[i] = rank[k] => i = k
  <2> SUFFICES ASSUME NEW i \in S, NEW k \in S, i # k PROVE rank[i] # rank[k]
    OBVIOUS
  <2>1. i < k \/ k < i
    OBVIOUS
  <2>2. QED
    BY <1>2, <1>3, <2>1
<1>6. rank \in Injection(S, 1 .. c)
  BY <1>4, <1>5 DEF Injection, IsInjective
<1>7. IsFiniteSet(1 .. c) /\ Cardinality(1 .. c) = c
  BY <1>1, FS_Interval
<1>8. rank \in Surjection(S, 1 .. c)
  BY <1>6, <1>7, FS_Injection
<1>9. \A n \in 1 .. c : \E i \in S : Cardinality(Below(i)) = n - 1
  <2>1. \A n \in 1 .. c : \E i \in S : rank[i] = n
    BY <1>8 DEF Surjection
  <2> TAKE n \in 1 .. c
  <2>2. PICK i \in S : rank[i] = n
    BY <2>1
  <2>3. Cardinality(Below(i)) + 1 = n
    BY <2>2
  <2>4. Cardinality(Below(i)) = n - 1
    BY <1>2, <2>3
  <2>5. QED
    BY <2>4
<1>10. QED
  BY <1>1, <1>9 DEF Sorted

(* The head and the tail of a queue of writes, by position.                *)
LEMMA Shift ==
  ASSUME NEW S, NEW s \in Seq(S), s # <<>>
  PROVE  /\ 1 \in DOMAIN s /\ Head(s) = s[1] /\ Head(s) \in S
         /\ Tail(s) \in Seq(S)
         /\ \A n \in DOMAIN Tail(s) :
               n + 1 \in DOMAIN s /\ Tail(s)[n] = s[n + 1] /\ n + 1 # 1
         /\ \A n \in DOMAIN s :
               n # 1 => n - 1 \in DOMAIN Tail(s) /\ Tail(s)[n - 1] = s[n]
         /\ \A n \in DOMAIN Tail(s), m \in DOMAIN Tail(s) : n + 1 = m + 1 => n = m
<1>1. /\ Len(s) \in Nat \ {0} /\ DOMAIN s = 1 .. Len(s)
      /\ Tail(s) \in Seq(S) /\ Len(Tail(s)) = Len(s) - 1
      /\ Head(s) \in S
      /\ \A i \in 1 .. Len(Tail(s)) : Tail(s)[i] = s[i + 1]
  BY HeadTailProperties, LenProperties, EmptySeq
<1>2. DOMAIN Tail(s) = 1 .. (Len(s) - 1)
  BY <1>1, LenProperties
<1>3. Head(s) = s[1]
  BY <1>1
<1>4. \A n \in DOMAIN s : n # 1 => n - 1 \in DOMAIN Tail(s) /\ Tail(s)[n - 1] = s[n]
  <2> SUFFICES ASSUME NEW n \in DOMAIN s, n # 1
               PROVE  n - 1 \in DOMAIN Tail(s) /\ Tail(s)[n - 1] = s[n]
    OBVIOUS
  <2>1. n - 1 \in 1 .. Len(Tail(s)) /\ (n - 1) + 1 = n
    BY <1>1
  <2>2. QED
    BY <1>1, <1>2, <2>1
<1>5. \A n \in DOMAIN Tail(s) :
         n + 1 \in DOMAIN s /\ Tail(s)[n] = s[n + 1] /\ n + 1 # 1
  BY <1>1, <1>2
<1>6. \A n \in DOMAIN Tail(s), m \in DOMAIN Tail(s) : n + 1 = m + 1 => n = m
  BY <1>1, <1>2
<1>7. QED
  BY <1>1, <1>3, <1>4, <1>5, <1>6

LEMMA Members ==
  ASSUME NEW S, NEW s \in Seq(S)
  PROVE  \A n \in DOMAIN s : s[n] \in S
BY LenProperties

LEMMA Listed ==
  ASSUME NEW S, NEW c \in Nat, NEW f \in [1 .. c -> S]
  PROVE  f \in Seq(S)
OBVIOUS

LEMMA Joined ==
  ASSUME NEW S, NEW s \in Seq(S), NEW t \in Seq(S)
  PROVE  s \o t \in Seq(S)
BY ConcatProperties

-----------------------------------------------------------------------------
(* Identifiers.                                                            *)
AllIds == Ids \cup {Ticket(i) : i \in Asks} \cup {Assignment(i) : i \in Requests}

LEMMA Names ==
  /\ Clar \in Ids /\ \A i \in Requests : Req(i) \in Ids
  /\ \A i \in Asks : Esc(i) \in Ids /\ Hf(i) \in Ids
  /\ \A i \in Asks : Ticket(i) \in AllIds
  /\ \A i \in Requests : Assignment(i) \in AllIds
  /\ \A x \in Ids : x \in AllIds
BY DEF Ids, AllIds, Clar

LEMMA NamesDiffer ==
  /\ \A i, j : Req(i) = Req(j) => i = j
  /\ \A i, j : Esc(i) = Esc(j) => i = j
  /\ \A i, j : Hf(i) = Hf(j) => i = j
  /\ \A i, j : Ticket(i) = Ticket(j) => i = j
  /\ \A i : Clar # Req(i) /\ Clar # Esc(i) /\ Clar # Hf(i)
  /\ \A i, j : Req(i) # Esc(j) /\ Req(i) # Hf(j) /\ Esc(i) # Hf(j)
BY DEF Clar, Req, Esc, Hf, Ticket

LEMMA NoRecords ==
  /\ \A i : Ticket(i) \notin Ids /\ Assignment(i) \notin Ids
  /\ \A i, j : Ticket(i) # Assignment(j)
  /\ \A x \in Ids : x[1] # "ticket" /\ x[1] # "decision"
BY DEF Ids, Clar, Req, Esc, Hf, Ticket, Assignment

-----------------------------------------------------------------------------
(* Types.                                                                  *)
Stamps  == {"created", "kept", "now", "outdated"}
Writes  == [id : AllIds, status : Statuses \ {"none"}, stamp : Stamps,
            late : BOOLEAN, linked : BOOLEAN]
States  == [status : Statuses, late : BOOLEAN, linked : BOOLEAN]
TicketStates == {"none", "pending", "answered"}

FilesTyped ==
    /\ log \in [Ids -> States]
    /\ tickets \in [Asks -> TicketStates]
    /\ assigned \in SUBSET Requests

LauncherTyped ==
    launcher \in [at : {"idle", "triage"}, todo : Seq(Writes),
                  known : [Asks -> TicketStates], decided : BOOLEAN]

CliTyped ==
    /\ cli \in [at : {"idle", "direct", "clarification", "linked"}, todo : Seq(Writes),
                ask : Asks \cup {0}, hit : BOOLEAN]
    /\ cli.at # "idle" => cli.ask \in Asks

TypeInv ==
    /\ FilesTyped /\ LauncherTyped /\ CliTyped
    /\ finding \in {"nothing", "owner", "decision"}

LEMMA WriteTyped ==
  ASSUME FilesTyped, NEW id \in Ids, NEW status \in Statuses \ {"none"},
         NEW stamp \in Stamps
  PROVE  /\ Write(id, status, stamp) \in Writes
         /\ Write(id, status, stamp).id = id
         /\ Write(id, status, stamp).status = status
         /\ Write(id, status, stamp).stamp = stamp
         /\ Linked(Write(id, status, stamp)) \in Writes
         /\ Linked(Write(id, status, stamp)).id = id
         /\ Linked(Write(id, status, stamp)).status = status
<1>1. log[id] \in States /\ id \in AllIds
  BY Names DEF FilesTyped
<1>2. QED
  BY <1>1 DEF Write, Linked, Writes, States

LEMMA NewFileTyped ==
  ASSUME FilesTyped, NEW id \in AllIds
  PROVE  NewFile(id) \in Writes /\ NewFile(id).id = id /\ NewFile(id).status = "open"
<1>1. Write(Clar, "open", "now") \in Writes
  BY WriteTyped, Names DEF Statuses, Stamps
<1>2. Write(Clar, "open", "now").status = "open"
  BY DEF Write
<1>3. QED
  BY <1>1, <1>2 DEF NewFile, Writes

(* What an append does to the three kinds of files.                        *)
LEMMA Performed ==
  ASSUME FilesTyped, NEW w \in Writes, Perform(w)
  PROVE  /\ FilesTyped'
         /\ \A x \in Ids : x # w.id => log'[x] = log[x]
         /\ w.id \in Ids =>
               \/ log'[w.id] = log[w.id]
               \/ log'[w.id].status = w.status /\ log'[w.id].linked = w.linked
         /\ w.id \in Ids /\ w.stamp = "now" /\ Exists(w.id) => log'[w.id].status = w.status
         /\ \A i \in Asks : tickets'[i] = IF w.id = Ticket(i) THEN "pending" ELSE tickets[i]
<1>0. /\ w.id \in AllIds /\ w.status \in Statuses /\ w.late \in BOOLEAN
      /\ w.linked \in BOOLEAN /\ Late(w) \in BOOLEAN
  BY DEF Writes, Late, Exists
<1>1. CASE w.id \in Ids
  <2>1. log' = Appended(w) /\ UNCHANGED <<tickets, assigned>>
    BY <1>1, NoRecords DEF Perform
  <2>2. \A i \in Asks : w.id # Ticket(i)
    BY <1>1, NoRecords
  <2>3. CASE w.stamp = "outdated" \/ (log[w.id].late /\ ~Late(w))
    <3>1. log' = log
      BY <2>1, <2>3 DEF Appended
    <3>2. ~(w.stamp = "now" /\ Exists(w.id))
      BY <2>3 DEF Late
    <3>3. FilesTyped'
      BY <2>1, <3>1 DEF FilesTyped
    <3>4. QED
      BY <2>1, <2>2, <3>1, <3>2, <3>3
  <2>4. CASE ~(w.stamp = "outdated" \/ (log[w.id].late /\ ~Late(w)))
    <3> DEFINE new == [status |-> w.status, late |-> Late(w), linked |-> w.linked]
    <3>1. log' = [log EXCEPT ![w.id] = new]
      BY <2>1, <2>4 DEF Appended
    <3>2. new \in States /\ new.status = w.status /\ new.linked = w.linked
      BY <1>0 DEF States
    <3> HIDE DEF new
    <3>3. FilesTyped'
      BY <1>1, <2>1, <3>1, <3>2 DEF FilesTyped
    <3>4. log'[w.id] = new /\ \A x \in Ids : x # w.id => log'[x] = log[x]
      BY <1>1, <3>1 DEF FilesTyped
    <3>5. QED
      BY <2>1, <2>2, <3>2, <3>3, <3>4
  <2>5. QED
    BY <2>3, <2>4
<1>2. ASSUME NEW i \in Asks, w.id = Ticket(i)
      PROVE  /\ FilesTyped' /\ log' = log
             /\ \A j \in Asks : tickets'[j] = IF w.id = Ticket(j) THEN "pending" ELSE tickets[j]
  <2>1. w.id[1] = "ticket" /\ w.id[2] = i
    BY <1>2 DEF Ticket
  <2>2. tickets' = [tickets EXCEPT ![i] = "pending"] /\ UNCHANGED <<log, assigned>>
    BY <1>2, <2>1, NoRecords DEF Perform
  <2>3. \A j \in Asks : w.id = Ticket(j) <=> j = i
    BY <1>2, NamesDiffer
  <2>4. QED
    BY <2>2, <2>3 DEF FilesTyped, TicketStates
<1>3. ASSUME NEW i \in Requests, w.id = Assignment(i)
      PROVE  FilesTyped' /\ log' = log /\ tickets' = tickets
  <2>1. w.id[1] = "decision" /\ w.id[2] = i
    BY <1>3 DEF Assignment
  <2>2. assigned' = assigned \cup {i} /\ UNCHANGED <<log, tickets>>
    BY <1>3, <2>1, NoRecords DEF Perform
  <2>3. QED
    BY <2>2 DEF FilesTyped
<1>4. \/ w.id \in Ids \/ \E i \in Asks : w.id = Ticket(i)
      \/ \E i \in Requests : w.id = Assignment(i)
  BY <1>0 DEF AllIds
<1>5. QED
  BY <1>1, <1>2, <1>3, <1>4, NoRecords

-----------------------------------------------------------------------------
(***************************************************************************)
(* The invariant                                                           *)
(***************************************************************************)
Blocking == {"open", "working"}

EscBlocks(i) == log[Esc(i)].linked /\ Blocks(Esc(i))
OpensEsc(w)  == \E i \in Asks : w.id = Esc(i) /\ w.status \in Blocking
IsTicket(w)  == \E i \in Asks : w.id = Ticket(i)
IsLink(id)   == (\E i \in Requests : id = Req(i)) \/ \E i \in Asks : id = Esc(i)

(* Questions and requests are numbered without gaps.                       *)
Numbered ==
    /\ \A i, j \in Asks : i < j /\ tickets[j] # "none" => tickets[i] # "none"
    /\ \A i, j \in Requests : i < j /\ Exists(Req(j)) => Exists(Req(i))

(* What the launcher knows of a question is not undone.                    *)
KnownIsTrue ==
    \A i \in Asks : /\ launcher.known[i] # "none" => tickets[i] # "none"
                    /\ launcher.known[i] = "answered" => tickets[i] = "answered"

(* What may be pending in the launcher.                                    *)
LauncherMay(w) ==
    /\ \A i \in Asks :
        /\ w.id = Esc(i) /\ w.status = "resolved" => tickets[i] = "answered"
        /\ w.id \in {Esc(i), Hf(i)} /\ w.status \in Blocking => launcher.known[i] # "answered"
        /\ w.id = Esc(i) /\ w.status \in Blocking => \A j \in Asks : ~EscBlocks(j)
        /\ w.id = Ticket(i) =>
               tickets[i] = "none" /\ \A j \in Asks : j < i => tickets[j] # "none"
    /\ \A i \in Requests :
        w.id = Req(i) => w.status # "resolved" /\ \A j \in Requests : j < i => Exists(Req(j))

LauncherTodoOK == \A n \in DOMAIN launcher.todo : LauncherMay(launcher.todo[n])

(* It asks one question at a time.                                         *)
Alike(v, w) == (OpensEsc(v) /\ OpensEsc(w)) \/ (IsTicket(v) /\ IsTicket(w))

OneOfAKind ==
    \A m, n \in DOMAIN launcher.todo : Alike(launcher.todo[m], launcher.todo[n]) => m = n

(* What may be pending in a command.                                       *)
CliMay(w) ==
    /\ \A i \in Asks :
        /\ w.id # Ticket(i)
        /\ w.id \in {Esc(i), Hf(i)} => w.status \notin Blocking
        /\ w.id = Esc(i) /\ w.status # "resolved" /\ Settled(Esc(i)) => tickets[i] = "answered"
    /\ \A i \in Requests :
        w.id = Req(i) => /\ \A j \in Requests : j < i => Exists(Req(j))
                         /\ w.status # "resolved" => ~Settled(Req(i))

CliTodoOK == \A n \in DOMAIN cli.todo : CliMay(cli.todo[n])

(* A command gives the links of the clarification one status.              *)
CliUniform ==
    \A m, n \in DOMAIN cli.todo :
        IsLink(cli.todo[m].id) /\ IsLink(cli.todo[n].id)
            => cli.todo[m].status = cli.todo[n].status

OneEscBlocks == \A i, j \in Asks : EscBlocks(i) /\ EscBlocks(j) => i = j

(* The records of an answer the launcher has seen are closed or about to   *)
(* be, by a write that is later than whatever is there.                    *)
Closes(w, x) == w.id = x /\ w.status = "resolved" /\ w.stamp = "now"

SeenAnswers ==
    \A i \in Asks : launcher.known[i] = "answered" =>
        \A x \in {Esc(i), Hf(i)} :
            ~Blocks(x) \/ \E n \in DOMAIN launcher.todo : Closes(launcher.todo[n], x)

(* Whether the launcher is about to close the clarification.               *)
ClosesClar(w) == w.id = Clar /\ w.status = "resolved"
KeepsOpen == \A n \in DOMAIN launcher.todo : ~ClosesClar(launcher.todo[n])

LauncherInv == LauncherTodoOK /\ OneOfAKind
CliInv == CliTodoOK /\ CliUniform
LogInv == Numbered /\ KnownIsTrue /\ OneEscBlocks

CoordInv == TypeInv /\ LogInv /\ LauncherInv /\ CliInv /\ SeenAnswers

LEMMA InitInv == Init => CoordInv
<1> SUFFICES ASSUME Init PROVE CoordInv
  OBVIOUS
<1>1. TypeInv
  <2>1. Absent \in States /\ [Absent EXCEPT !.status = "open"] \in States
    BY DEF Absent, States, Statuses
  <2>2. NoTickets \in [Asks -> TicketStates]
    BY DEF NoTickets, TicketStates
  <2>3. FilesTyped
    BY <2>1, <2>2 DEF Init, FilesTyped
  <2>4. LauncherTyped
    BY <2>2 DEF Init, LauncherTyped, Fresh
  <2>5. CliTyped
    BY DEF Init, CliTyped, Quiet
  <2>6. QED
    BY <2>3, <2>4, <2>5 DEF Init, TypeInv
<1>2. \A x \in Ids : x # Clar => log[x].status = "none"
  BY DEF Init, Absent
<1>3. LogInv
  BY <1>2, Names, NamesDiffer
     DEF Init, LogInv, Numbered, KnownIsTrue, OneEscBlocks, EscBlocks, Blocks, Exists, NoTickets,
         Fresh
<1>4. LauncherInv /\ CliInv /\ SeenAnswers
  BY DEF Init, LauncherInv, LauncherTodoOK, OneOfAKind, CliInv, CliTodoOK, CliUniform,
         SeenAnswers, Fresh, Quiet, NoTickets
<1>5. QED
  BY <1>1, <1>3, <1>4 DEF CoordInv

-----------------------------------------------------------------------------
(***************************************************************************)
(* Appends                                                                 *)
(***************************************************************************)
LEMMA Effects ==
  ASSUME FilesTyped, NEW w \in Writes, Perform(w)
  PROVE  /\ FilesTyped'
         /\ \A x \in Ids : Exists(x) => Exists(x)'
         /\ \A x \in Ids : Exists(x)' => Exists(x) \/ x = w.id
         /\ \A x \in Ids : Settled(x)' => Settled(x) \/ (x = w.id /\ w.status = "resolved")
         /\ \A x \in Ids : Settled(x) => Settled(x)' \/ (x = w.id /\ w.status # "resolved")
         /\ \A x \in Ids : Blocks(x)' => Blocks(x) \/ (x = w.id /\ w.status \in Blocking)
         /\ \A i \in Asks : EscBlocks(i)' => EscBlocks(i) \/ (w.id = Esc(i) /\ w.status \in Blocking)
         /\ \A x \in Ids : Closes(w, x) => ~Blocks(x)'
         /\ \A i \in Asks : tickets'[i] = IF w.id = Ticket(i) THEN "pending" ELSE tickets[i]
<1>0. w.status \in Statuses \ {"none"}
  BY DEF Writes
<1>1. FilesTyped'
  BY Performed
<1>2. \A i \in Asks : tickets'[i] = IF w.id = Ticket(i) THEN "pending" ELSE tickets[i]
  BY Performed
<1>3. \A x \in Ids : \/ log'[x] = log[x]
                     \/ x = w.id /\ log'[x].status = w.status /\ log'[x].linked = w.linked
  BY Performed
<1>4. \A x \in Ids : Exists(x) => Exists(x)'
  BY <1>0, <1>3 DEF Exists
<1>5. \A x \in Ids : Exists(x)' => Exists(x) \/ x = w.id
  BY <1>3 DEF Exists
<1>6. \A x \in Ids : Settled(x)' => Settled(x) \/ (x = w.id /\ w.status = "resolved")
  BY <1>3 DEF Settled
<1>7. \A x \in Ids : Settled(x) => Settled(x)' \/ (x = w.id /\ w.status # "resolved")
  BY <1>3 DEF Settled
<1>8. \A x \in Ids : Blocks(x)' => Blocks(x) \/ (x = w.id /\ w.status \in Blocking)
  BY <1>3 DEF Blocks, Blocking
<1>9. \A i \in Asks : EscBlocks(i)' => EscBlocks(i) \/ (w.id = Esc(i) /\ w.status \in Blocking)
  <2> SUFFICES ASSUME NEW i \in Asks, EscBlocks(i)'
               PROVE  EscBlocks(i) \/ (w.id = Esc(i) /\ w.status \in Blocking)
    OBVIOUS
  <2>1. Esc(i) \in Ids /\ log'[Esc(i)].status \in Blocking /\ log'[Esc(i)].linked
    BY Names DEF EscBlocks, Blocks, Blocking
  <2>2. QED
    BY <1>3, <2>1 DEF EscBlocks, Blocks, Blocking
<1>10. \A x \in Ids : Closes(w, x) => ~Blocks(x)'
  <2> SUFFICES ASSUME NEW x \in Ids, Closes(w, x) PROVE log'[x].status \notin Blocking
    BY DEF Blocks, Blocking
  <2>1. CASE Exists(x)
    BY <2>1, Performed DEF Closes, Blocking
  <2>2. CASE ~Exists(x)
    BY <2>2, <1>3 DEF Exists, Closes, Blocking
  <2>3. QED
    BY <2>1, <2>2
<1>11. QED
  BY <1>1, <1>2, <1>4, <1>5, <1>6, <1>7, <1>8, <1>9, <1>10

(* A write of the launcher leaves the other pending writes permitted.      *)
LEMMA LauncherAppends ==
  ASSUME FilesTyped, LogInv, NEW w \in Writes, Perform(w), LauncherMay(w),
         launcher'.known = launcher.known
  PROVE  /\ LogInv'
         /\ \A v \in Writes : LauncherMay(v) /\ ~Alike(v, w) => LauncherMay(v)'
         /\ \A v \in Writes : CliMay(v) => CliMay(v)'
<1>1. LogInv'
  <2>1. Numbered'
    <3>1. \A i, j \in Asks : i < j /\ tickets'[j] # "none" => tickets'[i] # "none"
      <4> SUFFICES ASSUME NEW i \in Asks, NEW j \in Asks, i < j, tickets'[j] # "none",
                          tickets'[i] = "none"
                   PROVE  FALSE
        OBVIOUS
      <4>1. w.id # Ticket(i) /\ tickets[i] = "none"
        BY Effects
      <4>2. w.id = Ticket(j)
        BY <4>1, Effects DEF LogInv, Numbered
      <4>3. QED
        BY <4>1, <4>2 DEF LauncherMay
    <3>2. \A i, j \in Requests : i < j /\ Exists(Req(j))' => Exists(Req(i))'
      <4> SUFFICES ASSUME NEW i \in Requests, NEW j \in Requests, i < j, Exists(Req(j))'
                   PROVE  Exists(Req(i))'
        OBVIOUS
      <4>1. Exists(Req(j)) \/ Req(j) = w.id
        BY Effects, Names
      <4>2. Exists(Req(i))
        BY <4>1 DEF LogInv, Numbered, LauncherMay
      <4>3. QED
        BY <4>2, Effects, Names
    <3>3. QED
      BY <3>1, <3>2 DEF Numbered
  <2>2. KnownIsTrue'
    <3> SUFFICES ASSUME NEW i \in Asks
                 PROVE  /\ launcher'.known[i] # "none" => tickets'[i] # "none"
                        /\ launcher'.known[i] = "answered" => tickets'[i] = "answered"
      BY DEF KnownIsTrue
    <3>1. w.id = Ticket(i) => tickets[i] = "none"
      BY DEF LauncherMay
    <3>2. tickets'[i] = IF w.id = Ticket(i) THEN "pending" ELSE tickets[i]
      BY Effects
    <3>3. /\ launcher.known[i] # "none" => tickets[i] # "none"
          /\ launcher.known[i] = "answered" => tickets[i] = "answered"
      BY DEF LogInv, KnownIsTrue
    <3>4. QED
      BY <3>1, <3>2, <3>3
  <2>3. OneEscBlocks'
    <3> SUFFICES ASSUME NEW i \in Asks, NEW j \in Asks, EscBlocks(i)', EscBlocks(j)'
                 PROVE  i = j
      BY DEF OneEscBlocks
    <3>1. /\ EscBlocks(i) \/ (w.id = Esc(i) /\ w.status \in Blocking)
          /\ EscBlocks(j) \/ (w.id = Esc(j) /\ w.status \in Blocking)
      BY Effects
    <3>2. QED
      BY <3>1, NamesDiffer DEF LogInv, OneEscBlocks, LauncherMay
  <2>4. QED
    BY <2>1, <2>2, <2>3 DEF LogInv
<1>2. ASSUME NEW v \in Writes, LauncherMay(v), ~Alike(v, w)
      PROVE  LauncherMay(v)'
  <2>1. ASSUME NEW i \in Asks
        PROVE  /\ v.id = Esc(i) /\ v.status = "resolved" => tickets'[i] = "answered"
               /\ v.id \in {Esc(i), Hf(i)} /\ v.status \in Blocking
                      => launcher'.known[i] # "answered"
    <3>1. w.id = Ticket(i) => tickets[i] = "none"
      BY DEF LauncherMay
    <3>2. tickets'[i] = IF w.id = Ticket(i) THEN "pending" ELSE tickets[i]
      BY Effects
    <3>3. QED
      BY <1>2, <3>1, <3>2 DEF LauncherMay
  <2>2. ASSUME NEW i \in Asks, v.id = Esc(i), v.status \in Blocking, NEW j \in Asks,
               EscBlocks(j)'
        PROVE  FALSE
    <3>1. EscBlocks(j) \/ (w.id = Esc(j) /\ w.status \in Blocking)
      BY <2>2, Effects
    <3>2. ~EscBlocks(j)
      BY <1>2, <2>2 DEF LauncherMay
    <3>3. OpensEsc(v) /\ OpensEsc(w)
      BY <2>2, <3>1, <3>2 DEF OpensEsc
    <3>4. QED
      BY <1>2, <3>3 DEF Alike
  <2>3. ASSUME NEW i \in Asks, v.id = Ticket(i)
        PROVE  tickets'[i] = "none" /\ \A j \in Asks : j < i => tickets'[j] # "none"
    <3>1. w.id # Ticket(i)
      BY <1>2, <2>3 DEF Alike, IsTicket
    <3>2. tickets[i] = "none" /\ \A j \in Asks : j < i => tickets[j] # "none"
      BY <1>2, <2>3 DEF LauncherMay
    <3>3. QED
      BY <3>1, <3>2, Effects
  <2>4. ASSUME NEW i \in Requests, v.id = Req(i)
        PROVE  v.status # "resolved" /\ \A j \in Requests : j < i => Exists(Req(j))'
    BY <1>2, <2>4, Effects, Names DEF LauncherMay
  <2>5. QED
    BY <2>1, <2>2, <2>3, <2>4 DEF LauncherMay
<1>3. ASSUME NEW v \in Writes, CliMay(v)
      PROVE  CliMay(v)'
  <2>1. ASSUME NEW i \in Asks, v.id = Esc(i), v.status # "resolved", Settled(Esc(i))'
        PROVE  tickets'[i] = "answered"
    <3>1. Settled(Esc(i)) \/ (Esc(i) = w.id /\ w.status = "resolved")
      BY <2>1, Effects, Names
    <3>2. tickets[i] = "answered"
      BY <1>3, <2>1, <3>1 DEF CliMay, LauncherMay
    <3>3. w.id # Ticket(i)
      BY <3>2 DEF LauncherMay
    <3>4. QED
      BY <3>2, <3>3, Effects
  <2>2. ASSUME NEW i \in Requests, v.id = Req(i)
        PROVE  /\ \A j \in Requests : j < i => Exists(Req(j))'
               /\ v.status # "resolved" => ~Settled(Req(i))'
    <3>1. /\ \A j \in Requests : j < i => Exists(Req(j))
          /\ v.status # "resolved" => ~Settled(Req(i))
      BY <1>3, <2>2 DEF CliMay
    <3>2. w.id = Req(i) => w.status # "resolved"
      BY DEF LauncherMay
    <3>3. Settled(Req(i))' => Settled(Req(i)) \/ (Req(i) = w.id /\ w.status = "resolved")
      BY Effects, Names
    <3>4. \A j \in Requests : j < i => Exists(Req(j))'
      BY <3>1, Effects, Names
    <3>5. QED
      BY <3>1, <3>2, <3>3, <3>4
  <2>3. \A i \in Asks : v.id # Ticket(i) /\ (v.id \in {Esc(i), Hf(i)} => v.status \notin Blocking)
    BY <1>3 DEF CliMay
  <2>4. QED
    BY <2>1, <2>2, <2>3 DEF CliMay
<1>4. QED
  BY <1>1, <1>2, <1>3

(* A write of a command does, too.                                         *)
LEMMA CliAppends ==
  ASSUME FilesTyped, LogInv, NEW w \in Writes, Perform(w), CliMay(w),
         launcher'.known = launcher.known
  PROVE  /\ LogInv'
         /\ \A v \in Writes : LauncherMay(v) => LauncherMay(v)'
         /\ \A v \in Writes :
               CliMay(v) /\ (IsLink(v.id) /\ IsLink(w.id) => v.status = w.status) => CliMay(v)'
         /\ \A i \in Asks, x \in Ids : x \in {Esc(i), Hf(i)} /\ Blocks(x)' => Blocks(x)
<1>1. \A i \in Asks : tickets'[i] = tickets[i]
  BY Effects DEF CliMay
<1>2. \A i \in Asks : EscBlocks(i)' => EscBlocks(i)
  BY Effects DEF CliMay
<1>3. \A i \in Asks, x \in Ids : x \in {Esc(i), Hf(i)} /\ Blocks(x)' => Blocks(x)
  BY Effects DEF CliMay
<1>4. LogInv'
  <2>1. \A i, j \in Requests : i < j /\ Exists(Req(j))' => Exists(Req(i))'
    <3> SUFFICES ASSUME NEW i \in Requests, NEW j \in Requests, i < j, Exists(Req(j))'
                 PROVE  Exists(Req(i))'
      OBVIOUS
    <3>1. Exists(Req(j)) \/ Req(j) = w.id
      BY Effects, Names
    <3>2. Exists(Req(i))
      BY <3>1 DEF LogInv, Numbered, CliMay
    <3>3. QED
      BY <3>2, Effects, Names
  <2>2. Numbered'
    BY <1>1, <2>1 DEF LogInv, Numbered
  <2>3. KnownIsTrue'
    BY <1>1 DEF LogInv, KnownIsTrue
  <2>4. OneEscBlocks'
    BY <1>2 DEF LogInv, OneEscBlocks
  <2>5. QED
    BY <2>2, <2>3, <2>4 DEF LogInv
<1>5. ASSUME NEW v \in Writes, LauncherMay(v)
      PROVE  LauncherMay(v)'
  <2>1. ASSUME NEW i \in Asks
        PROVE  /\ v.id = Esc(i) /\ v.status = "resolved" => tickets'[i] = "answered"
               /\ v.id \in {Esc(i), Hf(i)} /\ v.status \in Blocking
                      => launcher'.known[i] # "answered"
               /\ v.id = Esc(i) /\ v.status \in Blocking => \A j \in Asks : ~EscBlocks(j)'
               /\ v.id = Ticket(i) =>
                      tickets'[i] = "none" /\ \A j \in Asks : j < i => tickets'[j] # "none"
    BY <1>1, <1>2, <1>5 DEF LauncherMay
  <2>2. ASSUME NEW i \in Requests, v.id = Req(i)
        PROVE  v.status # "resolved" /\ \A j \in Requests : j < i => Exists(Req(j))'
    BY <1>5, <2>2, Effects, Names DEF LauncherMay
  <2>3. QED
    BY <2>1, <2>2 DEF LauncherMay
<1>6. ASSUME NEW v \in Writes, CliMay(v), IsLink(v.id) /\ IsLink(w.id) => v.status = w.status
      PROVE  CliMay(v)'
  <2>1. ASSUME NEW i \in Asks, v.id = Esc(i), v.status # "resolved", Settled(Esc(i))'
        PROVE  tickets'[i] = "answered"
    <3>1. Settled(Esc(i)) \/ (Esc(i) = w.id /\ w.status = "resolved")
      BY <2>1, Effects, Names
    <3>2. Settled(Esc(i))
      BY <1>6, <2>1, <3>1 DEF IsLink
    <3>3. QED
      BY <1>1, <1>6, <2>1, <3>2 DEF CliMay
  <2>2. ASSUME NEW i \in Requests, v.id = Req(i)
        PROVE  /\ \A j \in Requests : j < i => Exists(Req(j))'
               /\ v.status # "resolved" => ~Settled(Req(i))'
    <3>1. /\ \A j \in Requests : j < i => Exists(Req(j))
          /\ v.status # "resolved" => ~Settled(Req(i))
      BY <1>6, <2>2 DEF CliMay
    <3>2. Settled(Req(i))' => Settled(Req(i)) \/ (Req(i) = w.id /\ w.status = "resolved")
      BY Effects, Names
    <3>3. w.id = Req(i) => v.status = w.status
      BY <1>6, <2>2 DEF IsLink
    <3>4. \A j \in Requests : j < i => Exists(Req(j))'
      BY <3>1, Effects, Names
    <3>5. QED
      BY <3>1, <3>2, <3>3, <3>4
  <2>3. \A i \in Asks : v.id # Ticket(i) /\ (v.id \in {Esc(i), Hf(i)} => v.status \notin Blocking)
    BY <1>6 DEF CliMay
  <2>4. QED
    BY <2>1, <2>2, <2>3 DEF CliMay
<1>7. QED
  BY <1>3, <1>4, <1>5, <1>6

(* Overtaken changes stamps only.                                          *)
LEMMA OvertakenTyped ==
  ASSUME NEW w \in Writes, NEW todo \in Seq(Writes)
  PROVE  /\ Overtaken(w, todo) \in Seq(Writes)
         /\ DOMAIN Overtaken(w, todo) = DOMAIN todo
         /\ \A n \in DOMAIN todo : /\ Overtaken(w, todo)[n].id = todo[n].id
                                   /\ Overtaken(w, todo)[n].status = todo[n].status
<1> DEFINE new(n) == IF todo[n].id = w.id /\ todo[n].stamp = "kept" /\ w.stamp = "now"
                     THEN [todo[n] EXCEPT !.stamp = "outdated"] ELSE todo[n]
<1>1. Len(todo) \in Nat /\ DOMAIN todo = 1 .. Len(todo)
  BY LenProperties
<1>2. ASSUME NEW n \in DOMAIN todo
      PROVE  new(n) \in Writes /\ new(n).id = todo[n].id /\ new(n).status = todo[n].status
  <2>1. todo[n] \in Writes
    BY Members
  <2>2. QED
    BY <2>1 DEF Writes, Stamps
<1>3. Overtaken(w, todo) = [n \in 1 .. Len(todo) |-> new(n)]
  BY <1>1 DEF Overtaken
<1>4. Overtaken(w, todo) \in [1 .. Len(todo) -> Writes]
  <2> HIDE DEF new
  <2>1. QED
    BY <1>1, <1>2, <1>3
<1>5. Overtaken(w, todo) \in Seq(Writes)
  BY <1>1, <1>4, Listed
<1>6. \A n \in DOMAIN todo : Overtaken(w, todo)[n] = new(n)
  BY <1>1, <1>3
<1>7. QED
  <2> HIDE DEF new
  <2>1. DOMAIN Overtaken(w, todo) = DOMAIN todo
    BY <1>1, <1>4
  <2>2. QED
    BY <1>2, <1>5, <1>6, <2>1

LEMMA LauncherWritesInv == CoordInv /\ LauncherWrites => CoordInv'
<1> SUFFICES ASSUME CoordInv, LauncherWrites PROVE CoordInv'
  OBVIOUS
<1>0. /\ FilesTyped /\ LauncherTyped /\ CliTyped /\ finding \in {"nothing", "owner", "decision"}
      /\ LogInv /\ LauncherInv /\ CliInv /\ SeenAnswers
  BY DEF CoordInv, TypeInv
<1>1. launcher.todo \in Seq(Writes) /\ launcher.todo # <<>> /\ cli.todo \in Seq(Writes)
  BY <1>0 DEF LauncherTyped, CliTyped, LauncherWrites
<1> DEFINE todo == launcher.todo
<1>2. /\ 1 \in DOMAIN todo /\ Head(todo) = todo[1] /\ Head(todo) \in Writes
      /\ Tail(todo) \in Seq(Writes)
      /\ \A n \in DOMAIN Tail(todo) :
            n + 1 \in DOMAIN todo /\ Tail(todo)[n] = todo[n + 1] /\ n + 1 # 1
      /\ \A n \in DOMAIN todo : n # 1 => n - 1 \in DOMAIN Tail(todo) /\ Tail(todo)[n - 1] = todo[n]
      /\ \A n \in DOMAIN Tail(todo), m \in DOMAIN Tail(todo) : n + 1 = m + 1 => n = m
  BY <1>1, Shift
<1>3. PICK w \in Writes : w = Head(todo)
  BY <1>2
<1>4. /\ Perform(w)
      /\ cli' = [cli EXCEPT !.todo = Overtaken(w, cli.todo)]
      /\ launcher' = [launcher EXCEPT !.todo = Tail(todo),
                                      !.decided = launcher.decided /\ Len(todo) > 1]
      /\ finding' = finding
  BY <1>3 DEF LauncherWrites
<1>5. /\ launcher'.todo = Tail(todo) /\ launcher'.known = launcher.known
      /\ LauncherTyped'
  BY <1>0, <1>2, <1>4 DEF LauncherTyped
<1>6. /\ cli'.todo = Overtaken(w, cli.todo)
      /\ CliTyped'
  <2>1. Overtaken(w, cli.todo) \in Seq(Writes)
    BY <1>1, OvertakenTyped
  <2>2. QED
    BY <1>0, <1>4, <2>1 DEF CliTyped
<1>7. /\ DOMAIN cli'.todo = DOMAIN cli.todo
      /\ \A n \in DOMAIN cli.todo : /\ cli'.todo[n].id = cli.todo[n].id
                                    /\ cli'.todo[n].status = cli.todo[n].status
  BY <1>1, <1>6, OvertakenTyped
<1>8. LauncherMay(w)
  BY <1>0, <1>2, <1>3 DEF LauncherInv, LauncherTodoOK
<1>9. /\ LogInv'
      /\ \A v \in Writes : LauncherMay(v) /\ ~Alike(v, w) => LauncherMay(v)'
      /\ \A v \in Writes : CliMay(v) => CliMay(v)'
  BY <1>0, <1>4, <1>5, <1>8, LauncherAppends
<1>10. TypeInv'
  BY <1>0, <1>4, <1>5, <1>6, Effects DEF TypeInv
<1>11. LauncherInv'
  <2>1. ASSUME NEW n \in DOMAIN Tail(todo)
        PROVE  LauncherMay(launcher.todo[n])'
    <3>1. PICK v \in Writes : v = todo[n + 1]
      BY <1>1, <1>2, Members
    <3>2. LauncherMay(v) /\ ~Alike(v, w)
      BY <1>0, <1>2, <1>3, <3>1 DEF LauncherInv, LauncherTodoOK, OneOfAKind
    <3>3. LauncherMay(v)'
      BY <1>9, <3>2
    <3>4. v = launcher'.todo[n]
      BY <1>2, <1>5, <3>1
    <3>5. QED
      BY <3>3, <3>4
  <2>2. LauncherTodoOK'
    BY <1>5, <2>1 DEF LauncherTodoOK
  <2>3. OneOfAKind'
    BY <1>0, <1>2, <1>5 DEF LauncherInv, OneOfAKind
  <2>4. QED
    BY <2>2, <2>3 DEF LauncherInv
<1>12. CliInv'
  <2>1. ASSUME NEW n \in DOMAIN cli.todo
        PROVE  CliMay(cli.todo[n])'
    <3>1. PICK v \in Writes : v = cli.todo[n]
      BY <1>1, Members
    <3>2. PICK u \in Writes : u = cli'.todo[n]
      BY <1>6, <1>7, Members DEF CliTyped
    <3>3. CliMay(v)
      BY <1>0, <2>1, <3>1 DEF CliInv, CliTodoOK
    <3>4. u.id = v.id /\ u.status = v.status
      BY <1>7, <3>1, <3>2
    <3>5. CliMay(v)'
      BY <1>9, <3>3
    <3>6. CliMay(u)'
      BY <3>4, <3>5 DEF CliMay
    <3>7. QED
      BY <3>2, <3>6
  <2>2. CliTodoOK'
    BY <1>7, <2>1 DEF CliTodoOK
  <2>3. CliUniform'
    BY <1>0, <1>7 DEF CliInv, CliUniform
  <2>4. QED
    BY <2>2, <2>3 DEF CliInv
<1>13. SeenAnswers'
  <2> SUFFICES ASSUME NEW i \in Asks, launcher'.known[i] = "answered",
                      NEW x \in {Esc(i), Hf(i)}, Blocks(x)'
               PROVE  \E n \in DOMAIN Tail(todo) : Closes(Tail(todo)[n], x)
    BY <1>5 DEF SeenAnswers, Closes
  <2>1. x \in Ids
    BY Names
  <2>2. Blocks(x)
    BY <1>4, <1>5, <1>0, <1>8, <2>1, Effects DEF LauncherMay
  <2>3. PICK n \in DOMAIN todo : Closes(todo[n], x)
    BY <1>0, <1>5, <2>2 DEF SeenAnswers
  <2>4. n # 1
    BY <1>0, <1>2, <1>3, <1>4, <2>1, <2>3, Effects
  <2>5. n - 1 \in DOMAIN Tail(todo) /\ Tail(todo)[n - 1] = todo[n]
    BY <1>2, <2>3, <2>4
  <2>6. QED
    BY <2>3, <2>5
<1>14. QED
  BY <1>9, <1>10, <1>11, <1>12, <1>13 DEF CoordInv

LEMMA CliWritesInv == CoordInv /\ CliWrites => CoordInv'
<1> SUFFICES ASSUME CoordInv, CliWrites PROVE CoordInv'
  OBVIOUS
<1>0. /\ FilesTyped /\ LauncherTyped /\ CliTyped /\ finding \in {"nothing", "owner", "decision"}
      /\ LogInv /\ LauncherInv /\ CliInv /\ SeenAnswers
  BY DEF CoordInv, TypeInv
<1>1. launcher.todo \in Seq(Writes) /\ cli.todo # <<>> /\ cli.todo \in Seq(Writes)
  BY <1>0 DEF LauncherTyped, CliTyped, CliWrites
<1> DEFINE todo == cli.todo
<1>2. /\ 1 \in DOMAIN todo /\ Head(todo) = todo[1] /\ Head(todo) \in Writes
      /\ Tail(todo) \in Seq(Writes)
      /\ \A n \in DOMAIN Tail(todo) :
            n + 1 \in DOMAIN todo /\ Tail(todo)[n] = todo[n + 1] /\ n + 1 # 1
  BY <1>1, Shift
<1>3. PICK w \in Writes : w = Head(todo)
  BY <1>2
<1>4. /\ Perform(w)
      /\ cli' = [cli EXCEPT !.todo = Tail(todo)]
      /\ launcher' = launcher /\ finding' = finding
  BY <1>3 DEF CliWrites
<1>5. /\ cli'.todo = Tail(todo)
      /\ CliTyped'
  BY <1>0, <1>2, <1>4 DEF CliTyped
<1>6. CliMay(w)
  BY <1>0, <1>2, <1>3 DEF CliInv, CliTodoOK
<1>7. /\ LogInv'
      /\ \A v \in Writes : LauncherMay(v) => LauncherMay(v)'
      /\ \A v \in Writes :
            CliMay(v) /\ (IsLink(v.id) /\ IsLink(w.id) => v.status = w.status) => CliMay(v)'
      /\ \A i \in Asks, x \in Ids : x \in {Esc(i), Hf(i)} /\ Blocks(x)' => Blocks(x)
  BY <1>0, <1>4, <1>6, CliAppends
<1>8. TypeInv'
  BY <1>0, <1>4, <1>5, Effects DEF TypeInv, LauncherTyped
<1>9. LauncherInv'
  <2>1. ASSUME NEW n \in DOMAIN launcher.todo
        PROVE  LauncherMay(launcher.todo[n])'
    <3>1. PICK v \in Writes : v = launcher.todo[n]
      BY <1>1, Members
    <3>2. LauncherMay(v)'
      BY <1>0, <1>7, <2>1, <3>1 DEF LauncherInv, LauncherTodoOK
    <3>3. v = launcher'.todo[n]
      BY <1>4, <3>1
    <3>4. QED
      BY <3>2, <3>3
  <2>2. QED
    BY <1>0, <1>4, <2>1 DEF LauncherInv, LauncherTodoOK, OneOfAKind
<1>10. CliInv'
  <2>1. ASSUME NEW n \in DOMAIN Tail(todo)
        PROVE  CliMay(cli.todo[n])'
    <3>1. PICK v \in Writes : v = todo[n + 1]
      BY <1>1, <1>2, Members
    <3>2. CliMay(v) /\ (IsLink(v.id) /\ IsLink(w.id) => v.status = w.status)
      BY <1>0, <1>2, <1>3, <3>1 DEF CliInv, CliTodoOK, CliUniform
    <3>3. CliMay(v)'
      BY <1>7, <3>2
    <3>4. v = cli'.todo[n]
      BY <1>2, <1>5, <3>1
    <3>5. QED
      BY <3>3, <3>4
  <2>2. CliTodoOK'
    BY <1>5, <2>1 DEF CliTodoOK
  <2>3. CliUniform'
    BY <1>0, <1>2, <1>5 DEF CliInv, CliUniform
  <2>4. QED
    BY <2>2, <2>3 DEF CliInv
<1>11. SeenAnswers'
  <2> SUFFICES ASSUME NEW i \in Asks, launcher.known[i] = "answered",
                      NEW x \in {Esc(i), Hf(i)}, Blocks(x)'
               PROVE  \E n \in DOMAIN launcher.todo : Closes(launcher.todo[n], x)
    BY <1>4 DEF SeenAnswers, Closes
  <2>1. Blocks(x)
    BY <1>7, Names
  <2>2. QED
    BY <1>0, <2>1 DEF SeenAnswers
<1>12. QED
  BY <1>7, <1>8, <1>9, <1>10, <1>11 DEF CoordInv

-----------------------------------------------------------------------------
(***************************************************************************)
(* Decisions of the launcher                                               *)
(***************************************************************************)
LEMMA LauncherPlans ==
  ASSUME CoordInv, UNCHANGED <<files, finding, cli>>, launcher.todo = <<>>,
         NEW at \in {"idle", "triage"}, NEW decided \in BOOLEAN, NEW todo \in Seq(Writes),
         launcher' = [launcher EXCEPT !.at = at, !.todo = todo, !.decided = decided],
         \A n \in DOMAIN todo : LauncherMay(todo[n]),
         \A m, n \in DOMAIN todo : Alike(todo[m], todo[n]) => m = n
  PROVE  CoordInv'
<1>0. /\ FilesTyped /\ LauncherTyped /\ CliTyped /\ finding \in {"nothing", "owner", "decision"}
      /\ LogInv /\ LauncherInv /\ CliInv /\ SeenAnswers
  BY DEF CoordInv, TypeInv
<1>1. /\ launcher'.todo = todo /\ launcher'.known = launcher.known
      /\ LauncherTyped'
  BY <1>0 DEF LauncherTyped
<1>2. log' = log /\ tickets' = tickets /\ assigned' = assigned /\ cli' = cli /\ finding' = finding
  BY DEF files
<1>3. TypeInv'
  BY <1>0, <1>1, <1>2 DEF TypeInv, FilesTyped, CliTyped
<1>4. LogInv'
  BY <1>0, <1>1, <1>2 DEF LogInv, Numbered, KnownIsTrue, OneEscBlocks, EscBlocks, Blocks, Exists
<1>5. LauncherInv'
  <2>1. ASSUME NEW v, LauncherMay(v) PROVE LauncherMay(v)'
    BY <1>1, <1>2, <2>1 DEF LauncherMay, EscBlocks, Blocks, Exists
  <2>2. LauncherTodoOK'
    BY <1>1, <2>1 DEF LauncherTodoOK
  <2>3. OneOfAKind'
    BY <1>1 DEF OneOfAKind
  <2>4. QED
    BY <2>2, <2>3 DEF LauncherInv
<1>6. CliInv'
  BY <1>0, <1>2 DEF CliInv, CliTodoOK, CliUniform, CliMay, Settled, Exists
<1>7. SeenAnswers'
  <2> SUFFICES ASSUME NEW i \in Asks, launcher.known[i] = "answered",
                      NEW x \in {Esc(i), Hf(i)}, Blocks(x)
               PROVE  FALSE
    BY <1>1, <1>2 DEF SeenAnswers, Blocks
  <2>1. PICK n \in DOMAIN launcher.todo : Closes(launcher.todo[n], x)
    BY <1>0 DEF SeenAnswers
  <2>2. QED
    BY <2>1
<1>8. QED
  BY <1>3, <1>4, <1>5, <1>6, <1>7 DEF CoordInv

MirrorMay == {w \in Writes : \E i \in Requests : w.id = Assignment(i)}

(* What every triage may write: supersede an escalation that blocks,       *)
(* change the clarification without closing it, mirror an assignment.      *)
TriageMay ==
    {w \in Writes : \/ w.id = Clar /\ w.status # "resolved"
                    \/ w.status = "gone" /\ \E i \in Asks : w.id = Esc(i) /\ Blocks(Esc(i))
                    \/ \E i \in Requests : w.id = Assignment(i)}

(* Routing also writes follow-up requests.                                 *)
RouteMay ==
    TriageMay \cup
    {w \in Writes : \E i \in Requests : /\ w.id = Req(i) /\ w.status # "resolved"
                                        /\ \A j \in Requests : j < i => Exists(Req(j))}

(* A triage that asks no question may close the clarification.             *)
CloseMay == TriageMay \cup {w \in Writes : w.id = Clar}
PlanMay  == RouteMay \cup CloseMay

LEMMA TriageMayIsLauncherMay ==
  /\ TriageMay \subseteq RouteMay /\ RouteMay \subseteq PlanMay /\ PlanMay \subseteq Writes
  /\ \A w \in PlanMay : LauncherMay(w) /\ ~OpensEsc(w) /\ ~IsTicket(w)
  /\ \A w \in RouteMay : ~ClosesClar(w)
<1>1. TriageMay \subseteq RouteMay /\ RouteMay \subseteq PlanMay /\ PlanMay \subseteq Writes
  BY DEF TriageMay, RouteMay, CloseMay, PlanMay
<1>2. ASSUME NEW w \in PlanMay PROVE LauncherMay(w) /\ ~OpensEsc(w) /\ ~IsTicket(w)
  <2>1. CASE w.id = Clar
    BY <2>1, Names, NamesDiffer, NoRecords DEF LauncherMay, OpensEsc, IsTicket
  <2>2. ASSUME NEW i \in Asks, w.id = Esc(i), w.status = "gone"
        PROVE  LauncherMay(w) /\ ~OpensEsc(w) /\ ~IsTicket(w)
    BY <2>2, Names, NamesDiffer, NoRecords DEF LauncherMay, OpensEsc, IsTicket, Blocking
  <2>3. ASSUME NEW i \in Requests, w.id = Assignment(i)
        PROVE  LauncherMay(w) /\ ~OpensEsc(w) /\ ~IsTicket(w)
    BY <2>3, Names, NoRecords DEF LauncherMay, OpensEsc, IsTicket
  <2>4. ASSUME NEW i \in Requests, w.id = Req(i), w.status # "resolved",
               \A j \in Requests : j < i => Exists(Req(j))
        PROVE  LauncherMay(w) /\ ~OpensEsc(w) /\ ~IsTicket(w)
    BY <2>4, Names, NamesDiffer, NoRecords DEF LauncherMay, OpensEsc, IsTicket
  <2>5. QED
    BY <2>1, <2>2, <2>3, <2>4 DEF PlanMay, CloseMay, RouteMay, TriageMay
<1>3. \A w \in RouteMay : ~ClosesClar(w)
  BY Names, NamesDiffer, NoRecords DEF RouteMay, TriageMay, ClosesClar
<1>4. QED
  BY <1>1, <1>2, <1>3

LEMMA Widened ==
  ASSUME NEW S, NEW T, S \subseteq T, NEW s \in Seq(S)
  PROVE  s \in Seq(T)
<1>1. Len(s) \in Nat /\ s \in [1 .. Len(s) -> S]
  BY LenProperties
<1>2. s \in [1 .. Len(s) -> T]
  BY <1>1
<1>3. QED
  BY <1>1, <1>2, Listed

LEMMA MirrorListed ==
  ASSUME FilesTyped, NEW R \in SUBSET Requests
  PROVE  Mirror(R) \in Seq(MirrorMay) /\ Mirror(R) \in Seq(TriageMay)
<1> DEFINE S == R \ assigned
<1>1. S \in SUBSET (1 .. MaxRequests) /\ MaxRequests \in Nat
  BY CoordinationAssumption DEF Requests
<1>2. Cardinality(S) \in Nat /\ \A n \in 1 .. Cardinality(S) : Sorted(S)[n] \in S
  BY <1>1, SortedIn
<1>3. \A i \in Requests : NewFile(Assignment(i)) \in MirrorMay
  BY Names, NewFileTyped DEF MirrorMay
<1>4. Mirror(R) = [n \in 1 .. Cardinality(S) |-> NewFile(Assignment(Sorted(S)[n]))]
  BY DEF Mirror, Each
<1>5. Mirror(R) \in [1 .. Cardinality(S) -> MirrorMay]
  <2>1. \A n \in 1 .. Cardinality(S) : Sorted(S)[n] \in Requests
    BY <1>2
  <2>2. QED
    BY <1>3, <1>4, <2>1
<1>6. Mirror(R) \in Seq(MirrorMay)
  BY <1>2, <1>5, Listed
<1>7. MirrorMay \subseteq TriageMay
  BY DEF MirrorMay, TriageMay
<1>8. QED
  BY <1>6, <1>7, Widened

LEMMA SupersedeListed ==
  ASSUME FilesTyped
  PROVE  SupersedeEscalations \in Seq(TriageMay)
<1> DEFINE S == {i \in OpenEscalations : Blocks(Esc(i))}
<1>1. S \in SUBSET (1 .. MaxAsks) /\ MaxAsks \in Nat /\ \A i \in S : Blocks(Esc(i)) /\ i \in Asks
  BY CoordinationAssumption DEF Asks, OpenEscalations, LinkedEscalations
<1>2. Cardinality(S) \in Nat /\ \A n \in 1 .. Cardinality(S) : Sorted(S)[n] \in S
  BY <1>1, SortedIn
<1>3. \A i \in S : Write(Esc(i), "gone", "created") \in TriageMay
  <2> TAKE i \in S
  <2>1. i \in Asks /\ Blocks(Esc(i)) /\ Esc(i) \in Ids
    BY <1>1, Names
  <2>2. "gone" \in Statuses \ {"none"} /\ "created" \in Stamps
    BY DEF Statuses, Stamps
  <2>3. QED
    BY <2>1, <2>2, WriteTyped DEF TriageMay
<1>4. SupersedeEscalations
        = [n \in 1 .. Cardinality(S) |-> Write(Esc(Sorted(S)[n]), "gone", "created")]
  BY DEF SupersedeEscalations, Each
<1>5. SupersedeEscalations \in [1 .. Cardinality(S) -> TriageMay]
  <2> HIDE DEF S
  <2>1. QED
    BY <1>2, <1>3, <1>4
<1>6. QED
  BY <1>2, <1>5, Listed

LEMMA QuietTriage ==
  ASSUME CoordInv, launcher.todo = <<>>, NEW todo \in Seq(PlanMay), Triages(todo)
  PROVE  CoordInv'
<1> DEFINE decided == finding = "decision" /\ todo # <<>>
<1>1. decided \in BOOLEAN
  OBVIOUS
<1>2. launcher' = [launcher EXCEPT !.at = "idle", !.todo = todo, !.decided = decided]
  BY DEF Triages
<1>3. UNCHANGED <<files, finding, cli>>
  BY DEF Triages
<1>4. todo \in Seq(Writes)
  BY TriageMayIsLauncherMay, Widened
<1>5. \A n \in DOMAIN todo : LauncherMay(todo[n]) /\ ~OpensEsc(todo[n]) /\ ~IsTicket(todo[n])
  BY TriageMayIsLauncherMay, Members
<1>6. \A m, n \in DOMAIN todo : ~Alike(todo[m], todo[n])
  BY <1>5 DEF Alike
<1> HIDE DEF decided
<1>7. QED
  BY <1>1, <1>2, <1>3, <1>4, <1>5, <1>6, LauncherPlans

LEMMA RouteTriage ==
  ASSUME CoordInv, launcher.todo = <<>>, NEW todo \in Seq(RouteMay), Triages(todo)
  PROVE  CoordInv' /\ KeepsOpen'
<1>1. todo \in Seq(PlanMay) /\ \A n \in DOMAIN todo : ~ClosesClar(todo[n])
  BY TriageMayIsLauncherMay, Widened, Members
<1>2. launcher'.todo = todo
  BY DEF CoordInv, TypeInv, LauncherTyped, Triages
<1>3. QED
  BY <1>1, <1>2, QuietTriage DEF KeepsOpen, ClosesClar

(* One write.                                                              *)
LEMMA Single ==
  ASSUME NEW S, NEW w \in S
  PROVE  <<w>> \in Seq(S)
OBVIOUS

LEMMA TriageClosesPlan ==
  ASSUME FilesTyped, TriageCloses
  PROVE  \E todo \in Seq(CloseMay) : Triages(todo) /\ todo # <<>>
<1> DEFINE close == Write(Clar, "resolved", "created")
           writes == SupersedeEscalations \o <<close>> \o Mirror(LinkedRequests)
<1>1. close \in CloseMay
  BY Names, WriteTyped DEF CloseMay, Statuses, Stamps
<1>2. LinkedRequests \in SUBSET Requests /\ TriageMay \subseteq CloseMay
  BY DEF LinkedRequests, CloseMay
<1>3. SupersedeEscalations \in Seq(CloseMay) /\ <<close>> \in Seq(CloseMay) /\ Mirror(LinkedRequests) \in Seq(CloseMay)
  <2> HIDE DEF close
  <2>1. QED
    BY <1>1, <1>2, Single, MirrorListed, SupersedeListed, Widened
<1>4. SupersedeEscalations \o <<close>> \in Seq(CloseMay) /\ writes \in Seq(CloseMay)
  <2> HIDE DEF close
  <2>1. QED
    BY <1>3, Joined
<1>5. writes # <<>>
  <2> HIDE DEF close
  <2>1. /\ Len(SupersedeEscalations) \in Nat /\ Len(<<close>>) = 1 /\ Len(Mirror(LinkedRequests)) \in Nat
    BY <1>3, LenProperties
  <2>2. Len(SupersedeEscalations \o <<close>>) = Len(SupersedeEscalations) + 1
    BY <1>3, <2>1, ConcatProperties
  <2>3. Len(writes) = Len(SupersedeEscalations \o <<close>>) + Len(Mirror(LinkedRequests))
    BY <1>3, <1>4, ConcatProperties
  <2>4. Len(writes) # 0
    BY <2>1, <2>2, <2>3
  <2>5. QED
    BY <2>4
<1>6. Triages(writes)
  BY DEF TriageCloses
<1>7. QED
  <2> HIDE DEF writes
  <2>1. QED
    BY <1>4, <1>5, <1>6

LEMMA TriageClosesInv == CoordInv /\ TriageCloses => CoordInv'
<1> SUFFICES ASSUME CoordInv, TriageCloses PROVE CoordInv'
  OBVIOUS
<1>0. FilesTyped /\ launcher.todo = <<>>
  BY DEF CoordInv, TypeInv, TriageCloses, ClarificationBlocks, At
<1>1. PICK todo \in Seq(CloseMay) : Triages(todo)
  BY <1>0, TriageClosesPlan
<1>2. todo \in Seq(PlanMay)
  BY Widened DEF PlanMay
<1>3. QED
  BY <1>0, <1>1, <1>2, QuietTriage

LEMMA TriageWaitsInv == CoordInv /\ TriageWaits => CoordInv' /\ KeepsOpen'
<1> SUFFICES ASSUME CoordInv, TriageWaits PROVE CoordInv' /\ KeepsOpen'
  OBVIOUS
<1>0. FilesTyped /\ launcher.todo = <<>>
  BY DEF CoordInv, TypeInv, TriageWaits, Undecided, ClarificationBlocks, At
<1>1. Mirror(LinkedRequests) \in Seq(TriageMay)
  BY <1>0, MirrorListed DEF LinkedRequests
<1>2. SupersedeEscalations \o Mirror(LinkedRequests) \in Seq(TriageMay)
  BY <1>0, <1>1, SupersedeListed, Joined
<1>3. \/ Triages(Mirror(LinkedRequests))
      \/ Triages(SupersedeEscalations \o Mirror(LinkedRequests))
  BY DEF TriageWaits
<1>4. PICK todo \in Seq(RouteMay) : Triages(todo)
  BY <1>1, <1>2, <1>3, TriageMayIsLauncherMay, Widened
<1>5. QED
  BY <1>0, <1>4, RouteTriage

(* The next follow-up request is a new one, all before it exist.           *)
LEMMA NextRequest ==
  ASSUME LogInv, Cardinality(LinkedRequests) + 1 \in Requests
  PROVE  /\ ~Exists(Req(Cardinality(LinkedRequests) + 1))
         /\ \A j \in Requests : j < Cardinality(LinkedRequests) + 1 => Exists(Req(j))
<1>1. LinkedRequests \in SUBSET (1 .. MaxRequests) /\ MaxRequests \in Nat
  BY CoordinationAssumption DEF Requests, LinkedRequests
<1>2. \A i, j \in 1 .. MaxRequests : i < j /\ j \in LinkedRequests => i \in LinkedRequests
  BY DEF LogInv, Numbered, LinkedRequests, Requests
<1>3. /\ Cardinality(LinkedRequests) + 1 \notin LinkedRequests
      /\ \A i \in 1 .. MaxRequests : i < Cardinality(LinkedRequests) + 1 => i \in LinkedRequests
  BY <1>1, <1>2, NextNumber DEF Requests
<1>4. QED
  BY <1>3 DEF LinkedRequests, Requests

LEMMA TriageRoutesInv == CoordInv /\ TriageRoutes => CoordInv' /\ KeepsOpen'
<1> SUFFICES ASSUME CoordInv, TriageRoutes PROVE CoordInv' /\ KeepsOpen'
  OBVIOUS
<1>0. FilesTyped /\ launcher.todo = <<>> /\ LogInv
  BY DEF CoordInv, TypeInv, TriageRoutes, Undecided, ClarificationBlocks, At
<1> DEFINE n == Cardinality(LinkedRequests) + 1
           Expire(E) == Each(E, LAMBDA i : Write(Req(i), "gone", "created"))
           route == <<Write(Clar, "working", "created"), Linked(Write(Req(n), "open", "created"))>>
<1>1. n \in Requests
  BY DEF TriageRoutes
<1>2. PICK expired \in SUBSET Unacknowledged :
         Triages(SupersedeEscalations \o Expire(expired) \o route
                     \o Mirror(LinkedRequests \cup {n}))
  BY DEF TriageRoutes
<1>3. Expire(expired) \in Seq(RouteMay)
  <2>1. /\ expired \in SUBSET (1 .. MaxRequests) /\ MaxRequests \in Nat
        /\ \A i \in expired : i \in Requests /\ Exists(Req(i))
    BY CoordinationAssumption DEF Unacknowledged, LinkedRequests, Requests
  <2>2. /\ Cardinality(expired) \in Nat
        /\ \A m \in 1 .. Cardinality(expired) : Sorted(expired)[m] \in expired
    BY <2>1, SortedIn
  <2>3. \A i \in expired : Write(Req(i), "gone", "created") \in RouteMay
    <3> TAKE i \in expired
    <3>1. i \in Requests /\ Req(i) \in Ids /\ \A j \in Requests : j < i => Exists(Req(j))
      BY <1>0, <2>1, Names DEF LogInv, Numbered
    <3>2. "gone" \in Statuses \ {"none"} /\ "created" \in Stamps /\ "gone" # "resolved"
      BY DEF Statuses, Stamps
    <3>3. QED
      BY <1>0, <3>1, <3>2, WriteTyped DEF RouteMay
  <2>4. Expire(expired)
          = [m \in 1 .. Cardinality(expired) |-> Write(Req(Sorted(expired)[m]), "gone", "created")]
    BY DEF Each
  <2>5. Expire(expired) \in [1 .. Cardinality(expired) -> RouteMay]
    <3> HIDE DEF Expire
    <3>1. QED
      BY <2>2, <2>3, <2>4
  <2>6. QED
    BY <2>2, <2>5, Listed
<1>4. route \in Seq(RouteMay)
  <2>1. "working" \in Statuses \ {"none"} /\ "open" \in Statuses \ {"none"} /\ "created" \in Stamps
    BY DEF Statuses, Stamps
  <2>2. Write(Clar, "working", "created") \in RouteMay
    BY <1>0, <2>1, Names, WriteTyped DEF RouteMay, TriageMay
  <2>3. Req(n) \in Ids /\ \A j \in Requests : j < n => Exists(Req(j))
    BY <1>0, <1>1, Names, NextRequest
  <2>4. Linked(Write(Req(n), "open", "created")) \in RouteMay
    BY <1>0, <1>1, <2>1, <2>3, WriteTyped DEF RouteMay
  <2>5. QED
    BY <2>2, <2>4
<1>5. SupersedeEscalations \in Seq(RouteMay) /\ Mirror(LinkedRequests \cup {n}) \in Seq(RouteMay)
  <2>1. LinkedRequests \cup {n} \in SUBSET Requests
    BY <1>1 DEF LinkedRequests
  <2>2. QED
    BY <1>0, <2>1, MirrorListed, SupersedeListed, TriageMayIsLauncherMay, Widened
<1>6. PICK todo \in Seq(RouteMay) : Triages(todo)
  <2> HIDE DEF Expire, route, n
  <2>1. SupersedeEscalations \o Expire(expired) \in Seq(RouteMay)
    BY <1>3, <1>5, Joined
  <2>2. SupersedeEscalations \o Expire(expired) \o route \in Seq(RouteMay)
    BY <1>4, <2>1, Joined
  <2>3. SupersedeEscalations \o Expire(expired) \o route
            \o Mirror(LinkedRequests \cup {n}) \in Seq(RouteMay)
    BY <1>5, <2>2, Joined
  <2>4. QED
    BY <1>2, <2>3
<1>7. QED
  BY <1>0, <1>6, RouteTriage

(* The next question is a new one, all before it are asked.                *)
LEMMA NextQuestion ==
  ASSUME LogInv, NEW n, n = Cardinality({i \in Asks : tickets[i] # "none"}) + 1, n \in Asks
  PROVE  tickets[n] = "none" /\ \A j \in Asks : j < n => tickets[j] # "none"
<1> DEFINE S == {i \in Asks : tickets[i] # "none"}
<1>1. S \in SUBSET (1 .. MaxAsks) /\ MaxAsks \in Nat
  BY CoordinationAssumption DEF Asks
<1>2. \A i, j \in 1 .. MaxAsks : i < j /\ j \in S => i \in S
  BY DEF LogInv, Numbered, Asks
<1>3. n = Cardinality(S) + 1 /\ n \in 1 .. MaxAsks
  BY DEF Asks
<1>4. n \notin S /\ \A i \in 1 .. MaxAsks : i < n => i \in S
  <2> HIDE DEF S
  <2>1. QED
    BY <1>1, <1>2, <1>3, NextNumber
<1>5. QED
  BY <1>3, <1>4 DEF Asks

(* A question is a ticket, an escalation and the clarification, then       *)
(* whatever else the triage writes.                                        *)
LEMMA AskTriage ==
  ASSUME CoordInv, launcher.todo = <<>>, NEW a \in Writes, NEW b \in Writes, NEW c \in TriageMay,
         LauncherMay(a), IsTicket(a), LauncherMay(b), OpensEsc(b),
         NEW t \in Seq(TriageMay), Triages(<<a, b, c>> \o t)
  PROVE  CoordInv' /\ KeepsOpen'
<1> DEFINE todo == <<a, b, c>> \o t
           decided == finding = "decision" /\ todo # <<>>
<1>1. ~OpensEsc(a) /\ ~IsTicket(b) /\ ~ClosesClar(a) /\ ~ClosesClar(b)
  BY Names, NamesDiffer, NoRecords DEF OpensEsc, IsTicket, ClosesClar
<1>2. /\ \A w \in TriageMay : LauncherMay(w) /\ ~OpensEsc(w) /\ ~IsTicket(w) /\ ~ClosesClar(w)
      /\ TriageMay \subseteq Writes
  BY TriageMayIsLauncherMay
<1>3. t \in Seq(Writes) /\ <<a, b, c>> \in Seq(Writes)
  <2>1. t \in Seq(Writes)
    BY <1>2, Widened
  <2>2. c \in Writes
    BY <1>2
  <2>3. QED
    BY <2>1, <2>2
<1>4. todo \in Seq(Writes)
  BY <1>3, Joined
<1>5. \A n \in DOMAIN todo : \/ n = 1 /\ todo[n] = a
                             \/ n = 2 /\ todo[n] = b
                             \/ todo[n] \in TriageMay
  <2>0. Len(<<a, b, c>>) = 3 /\ Len(t) \in Nat /\ \A n \in 1 .. Len(t) : t[n] \in TriageMay
    BY LenProperties
  <2>1. /\ Len(todo) = 3 + Len(t) /\ DOMAIN todo = 1 .. (3 + Len(t))
        /\ \A n \in 1 .. (3 + Len(t)) :
              todo[n] = IF n <= 3 THEN <<a, b, c>>[n] ELSE t[n - 3]
    BY <1>3, <1>4, <2>0, ConcatProperties, LenProperties
  <2> SUFFICES ASSUME NEW n \in DOMAIN todo
               PROVE  \/ n = 1 /\ todo[n] = a
                      \/ n = 2 /\ todo[n] = b
                      \/ todo[n] \in TriageMay
    OBVIOUS
  <2> HIDE DEF todo
  <2>2. CASE n <= 3
    <3>1. n = 1 \/ n = 2 \/ n = 3
      BY <2>0, <2>1, <2>2
    <3>2. todo[n] = <<a, b, c>>[n]
      BY <2>1, <2>2
    <3>3. QED
      BY <3>1, <3>2
  <2>3. CASE ~(n <= 3)
    <3>1. n - 3 \in 1 .. Len(t) /\ todo[n] = t[n - 3]
      BY <2>0, <2>1, <2>3
    <3>2. QED
      BY <2>0, <3>1
  <2>4. QED
    BY <2>2, <2>3
<1>6. /\ launcher' = [launcher EXCEPT !.at = "idle", !.todo = todo, !.decided = decided]
      /\ UNCHANGED <<files, finding, cli>> /\ decided \in BOOLEAN
  BY DEF Triages
<1> HIDE DEF todo, decided
<1>7. \A n \in DOMAIN todo : LauncherMay(todo[n])
  BY <1>2, <1>5
<1>8. \A m, n \in DOMAIN todo : Alike(todo[m], todo[n]) => m = n
  BY <1>1, <1>2, <1>5 DEF Alike
<1>9. launcher'.todo = todo
  BY <1>6 DEF CoordInv, TypeInv, LauncherTyped
<1>10. KeepsOpen'
  BY <1>1, <1>2, <1>5, <1>9 DEF KeepsOpen, ClosesClar
<1>11. QED
  BY <1>4, <1>6, <1>7, <1>8, <1>10, LauncherPlans

LEMMA TriageAsksInv == CoordInv /\ TriageAsks => CoordInv' /\ KeepsOpen'
<1> SUFFICES ASSUME CoordInv, TriageAsks PROVE CoordInv' /\ KeepsOpen'
  OBVIOUS
<1>0. FilesTyped /\ LauncherTyped /\ launcher.todo = <<>> /\ LogInv /\ OpenEscalations = {}
  BY DEF CoordInv, TypeInv, TriageAsks, Undecided, ClarificationBlocks, At
<1>1. PICK n \in Asks :
         /\ n = Cardinality({i \in Asks : tickets[i] # "none"}) + 1
         /\ Triages(<<NewFile(Ticket(n)), Linked(Write(Esc(n), "open", "created")),
                      Write(Clar, "working", "created")>> \o Mirror(LinkedRequests))
  BY DEF TriageAsks
<1>2. tickets[n] = "none" /\ \A j \in Asks : j < n => tickets[j] # "none"
  BY <1>0, <1>1, NextQuestion
<1>3. "working" \in Statuses \ {"none"} /\ "open" \in Statuses \ {"none"} /\ "created" \in Stamps
  BY DEF Statuses, Stamps
<1>4. PICK a \in Writes : a = NewFile(Ticket(n)) /\ a.id = Ticket(n)
  BY <1>0, Names, NewFileTyped
<1>5. PICK b \in Writes : /\ b = Linked(Write(Esc(n), "open", "created"))
                          /\ b.id = Esc(n) /\ b.status = "open"
  BY <1>0, <1>3, Names, WriteTyped
<1>6. PICK c \in TriageMay : c = Write(Clar, "working", "created")
  BY <1>0, <1>3, Names, WriteTyped DEF TriageMay
<1>7. PICK t \in Seq(TriageMay) : t = Mirror(LinkedRequests)
  BY <1>0, MirrorListed DEF LinkedRequests
<1>8. LauncherMay(a) /\ IsTicket(a)
  BY <1>2, <1>4, Names, NamesDiffer, NoRecords DEF LauncherMay, IsTicket
<1>9. LauncherMay(b) /\ OpensEsc(b)
  <2>1. \A j \in Asks : ~EscBlocks(j)
    BY <1>0 DEF OpenEscalations, LinkedEscalations, EscBlocks, Blocks, Open, Exists
  <2>2. launcher.known[n] # "answered"
    BY <1>0, <1>2 DEF LogInv, KnownIsTrue
  <2>3. QED
    BY <1>5, <2>1, <2>2, Names, NamesDiffer, NoRecords DEF LauncherMay, OpensEsc, Blocking
<1>10. Triages(<<a, b, c>> \o t)
  BY <1>1, <1>4, <1>5, <1>6, <1>7
<1>11. QED
  BY <1>0, <1>8, <1>9, <1>10, AskTriage

LEMMA RefreshInv == CoordInv /\ Refresh => CoordInv' /\ KeepsOpen'
<1> SUFFICES ASSUME CoordInv, Refresh PROVE CoordInv' /\ KeepsOpen'
  OBVIOUS
<1>0. FilesTyped /\ LauncherTyped /\ launcher.todo = <<>> /\ LogInv
  BY DEF CoordInv, TypeInv, Refresh, At
<1> DEFINE status(i) == IF tickets[i] = "answered" THEN "resolved" ELSE "open"
           stale == {i \in Asks : tickets[i] # "none" /\ log[Hf(i)].status # status(i)}
           writes == Each(stale, LAMBDA i : Write(Hf(i), status(i), "now"))
           May == {w \in Writes :
                      LauncherMay(w) /\ ~OpensEsc(w) /\ ~IsTicket(w) /\ ~ClosesClar(w)}
<1>1. launcher' = [launcher EXCEPT !.at = "triage", !.todo = writes] /\ UNCHANGED <<files, finding, cli>>
  BY DEF Refresh
<1>2. /\ stale \in SUBSET (1 .. MaxAsks) /\ MaxAsks \in Nat
      /\ \A i \in stale : i \in Asks
  BY CoordinationAssumption DEF Asks
<1>3. Cardinality(stale) \in Nat /\ \A n \in 1 .. Cardinality(stale) : Sorted(stale)[n] \in stale
  BY <1>2, SortedIn
<1>4. \A i \in Asks : Write(Hf(i), status(i), "now") \in May
  <2> TAKE i \in Asks
  <2>1. status(i) \in Statuses \ {"none"} /\ "now" \in Stamps /\ Hf(i) \in Ids
    BY Names DEF Statuses, Stamps
  <2>2. PICK w \in Writes : /\ w = Write(Hf(i), status(i), "now")
                            /\ w.id = Hf(i) /\ w.status = status(i)
    BY <1>0, <2>1, WriteTyped
  <2>3. status(i) \in Blocking => launcher.known[i] # "answered"
    BY <1>0 DEF Blocking, LogInv, KnownIsTrue
  <2> HIDE DEF status
  <2>4. LauncherMay(w) /\ ~OpensEsc(w) /\ ~IsTicket(w) /\ ~ClosesClar(w)
    BY <2>1, <2>2, <2>3, NamesDiffer, NoRecords
       DEF LauncherMay, OpensEsc, IsTicket, ClosesClar
  <2>5. QED
    BY <2>2, <2>4
<1>5. writes = [n \in 1 .. Cardinality(stale)
                   |-> Write(Hf(Sorted(stale)[n]), status(Sorted(stale)[n]), "now")]
  BY DEF Each
<1>6. writes \in [1 .. Cardinality(stale) -> May]
  <2> HIDE DEF writes, status, stale, May
  <2>1. \A n \in 1 .. Cardinality(stale) : Sorted(stale)[n] \in Asks
    BY <1>2, <1>3
  <2>2. QED
    BY <1>4, <1>5, <2>1
<1>7. writes \in Seq(May)
  BY <1>3, <1>6, Listed
<1>8. PICK todo \in Seq(May) : todo = writes
  BY <1>7
<1>9. todo \in Seq(Writes) /\ \A n \in DOMAIN todo : todo[n] \in May
  BY <1>8, Widened, Members
<1> HIDE DEF writes
<1>10. launcher' = [launcher EXCEPT !.at = "triage", !.todo = todo, !.decided = launcher.decided]
  BY <1>0, <1>1, <1>8 DEF LauncherTyped
<1>11. launcher.decided \in BOOLEAN
  BY <1>0 DEF LauncherTyped
<1>12. \A m, n \in DOMAIN todo : Alike(todo[m], todo[n]) => m = n
  BY <1>9 DEF Alike
<1>13. KeepsOpen'
  <2>1. launcher'.todo = todo
    BY <1>0, <1>10 DEF LauncherTyped
  <2>2. QED
    BY <1>9, <2>1 DEF KeepsOpen, ClosesClar
<1>14. QED
  BY <1>0, <1>1, <1>9, <1>10, <1>11, <1>12, <1>13, LauncherPlans

LEMMA PollInv == CoordInv /\ Poll => CoordInv' /\ KeepsOpen'
<1> SUFFICES ASSUME CoordInv, Poll PROVE CoordInv' /\ KeepsOpen'
  OBVIOUS
<1>0. /\ FilesTyped /\ LauncherTyped /\ CliTyped /\ finding \in {"nothing", "owner", "decision"}
      /\ LogInv /\ LauncherInv /\ CliInv /\ SeenAnswers /\ launcher.todo = <<>>
  BY DEF CoordInv, TypeInv, Poll, At
<1>1. PICK i \in Asks :
         /\ tickets[i] # launcher.known[i]
         /\ launcher' = [launcher EXCEPT !.known[i] = tickets[i], !.todo = PollWrites(i)]
  BY DEF Poll
<1>2. log' = log /\ tickets' = tickets /\ assigned' = assigned /\ cli' = cli /\ finding' = finding
  BY DEF Poll, files
<1>3. Esc(i) \in Ids /\ Hf(i) \in Ids
  BY Names
<1>4. tickets[i] \in {"pending", "answered"}
  BY <1>0, <1>1 DEF FilesTyped, TicketStates, LogInv, KnownIsTrue
<1>5. "open" \in Statuses \ {"none"} /\ "resolved" \in Statuses \ {"none"} /\ "now" \in Stamps
  BY DEF Statuses, Stamps
<1> DEFINE May(w) == /\ w.id \in {Esc(i), Hf(i)} /\ w.stamp = "now"
                     /\ w.status = "resolved" \/ (w.status = "open" /\ w.id = Hf(i))
                     /\ w.status = "resolved" <=> tickets[i] = "answered"
<1>6. PICK todo \in Seq(Writes) :
         /\ todo = PollWrites(i)
         /\ \A n \in DOMAIN todo : May(todo[n])
         /\ tickets[i] = "answered" => \A x \in {Esc(i), Hf(i)} :
                                         \E n \in DOMAIN todo : Closes(todo[n], x)
  <2>1. CASE tickets[i] = "pending"
    <3>1. PICK w \in Writes : /\ w = Write(Hf(i), "open", "now") /\ w.id = Hf(i)
                              /\ w.status = "open" /\ w.stamp = "now"
      BY <1>0, <1>3, <1>5, WriteTyped
    <3>2. PollWrites(i) = <<w>>
      BY <2>1, <3>1 DEF PollWrites
    <3>3. <<w>> \in Seq(Writes) /\ \A n \in DOMAIN <<w>> : <<w>>[n] = w
      OBVIOUS
    <3>4. QED
      BY <2>1, <3>1, <3>2, <3>3
  <2>2. CASE tickets[i] = "answered"
    <3>1. PICK v \in Writes : /\ v = Write(Esc(i), "resolved", "now") /\ v.id = Esc(i)
                              /\ v.status = "resolved" /\ v.stamp = "now"
      BY <1>0, <1>3, <1>5, WriteTyped
    <3>2. PICK w \in Writes : /\ w = Write(Hf(i), "resolved", "now") /\ w.id = Hf(i)
                              /\ w.status = "resolved" /\ w.stamp = "now"
      BY <1>0, <1>3, <1>5, WriteTyped
    <3>3. PollWrites(i) = <<v, w>>
      BY <2>2, <3>1, <3>2 DEF PollWrites
    <3>4. /\ <<v, w>> \in Seq(Writes) /\ DOMAIN <<v, w>> = {1, 2}
          /\ <<v, w>>[1] = v /\ <<v, w>>[2] = w
      OBVIOUS
    <3>5. \A n \in DOMAIN <<v, w>> : May(<<v, w>>[n])
      BY <2>2, <3>1, <3>2, <3>4
    <3>6. \A x \in {Esc(i), Hf(i)} : \E n \in DOMAIN <<v, w>> : Closes(<<v, w>>[n], x)
      BY <3>1, <3>2, <3>4 DEF Closes
    <3>7. QED
      BY <3>3, <3>4, <3>5, <3>6
  <2>3. QED
    BY <1>4, <2>1, <2>2
<1>7. /\ launcher'.todo = todo /\ LauncherTyped'
      /\ \A j \in Asks : launcher'.known[j] = IF j = i THEN tickets[i] ELSE launcher.known[j]
  <2> DEFINE known == [launcher.known EXCEPT ![i] = tickets[i]]
  <2>1. launcher' = [launcher EXCEPT !.known = known, !.todo = todo]
    BY <1>0, <1>1, <1>6 DEF LauncherTyped
  <2>2. /\ known \in [Asks -> TicketStates]
        /\ \A j \in Asks : known[j] = IF j = i THEN tickets[i] ELSE launcher.known[j]
    BY <1>0 DEF FilesTyped, LauncherTyped
  <2> HIDE DEF known
  <2>3. QED
    BY <1>0, <2>1, <2>2 DEF LauncherTyped
<1>8. TypeInv'
  BY <1>0, <1>2, <1>7 DEF TypeInv, FilesTyped, CliTyped
<1>9. LogInv'
  BY <1>0, <1>2, <1>4, <1>7 DEF LogInv, Numbered, KnownIsTrue, OneEscBlocks, EscBlocks, Blocks, Exists
<1>10. LauncherInv'
  <2>1. ASSUME NEW w \in Writes, May(w) PROVE LauncherMay(w)' /\ ~OpensEsc(w) /\ ~IsTicket(w)
    <3>1. \A j \in Asks : w.id = Esc(j) => w.status = "resolved" /\ j = i
      BY <2>1, NamesDiffer
    <3>2. \A j \in Asks : w.id = Hf(j) => j = i
      BY <2>1, NamesDiffer
    <3>3. \A j : w.id # Ticket(j) /\ w.id # Req(j)
      BY <1>3, <2>1, NamesDiffer, NoRecords
    <3>4. w.status \in Blocking => launcher'.known[i] # "answered"
      BY <1>7, <2>1 DEF Blocking
    <3>5. w.status = "resolved" => tickets'[i] = "answered"
      BY <1>2, <2>1
    <3>6. "resolved" \notin Blocking
      BY DEF Blocking
    <3> HIDE DEF May
    <3>7. QED
      BY <3>1, <3>2, <3>3, <3>4, <3>5, <3>6 DEF LauncherMay, OpensEsc, IsTicket
  <2>2. \A n \in DOMAIN todo : LauncherMay(todo[n])' /\ ~OpensEsc(todo[n]) /\ ~IsTicket(todo[n])
    BY <1>6, <2>1, Members
  <2>3. LauncherTodoOK' /\ OneOfAKind'
    BY <1>7, <2>2 DEF LauncherTodoOK, OneOfAKind, Alike
  <2>4. QED
    BY <2>3 DEF LauncherInv
<1>11. CliInv'
  BY <1>0, <1>2 DEF CliInv, CliTodoOK, CliUniform, CliMay, Settled, Exists
<1>12. SeenAnswers'
  <2> SUFFICES ASSUME NEW j \in Asks, launcher'.known[j] = "answered",
                      NEW x \in {Esc(j), Hf(j)}, Blocks(x)
               PROVE  \E n \in DOMAIN todo : Closes(todo[n], x)
    BY <1>2, <1>7 DEF SeenAnswers, Blocks, Closes
  <2>1. CASE j = i
    BY <1>6, <1>7, <2>1
  <2>2. CASE j # i
    BY <1>0, <1>7, <2>2 DEF SeenAnswers
  <2>3. QED
    BY <2>1, <2>2
<1>13. KeepsOpen'
  BY <1>6, <1>7, NamesDiffer DEF KeepsOpen, ClosesClar
<1>14. QED
  BY <1>8, <1>9, <1>10, <1>11, <1>12, <1>13 DEF CoordInv

(* The next launcher has seen nothing and wants nothing.                   *)
LEMMA RestartInv == CoordInv /\ Restart => CoordInv' /\ KeepsOpen'
<1> SUFFICES ASSUME CoordInv, Restart PROVE CoordInv' /\ KeepsOpen'
  OBVIOUS
<1>0. /\ FilesTyped /\ CliTyped /\ finding \in {"nothing", "owner", "decision"}
      /\ LogInv /\ CliInv
  BY DEF CoordInv, TypeInv
<1>1. log' = log /\ tickets' = tickets /\ assigned' = assigned /\ cli' = cli /\ finding' = finding
  BY DEF Restart, files
<1>2. /\ launcher'.todo = <<>> /\ \A i \in Asks : launcher'.known[i] = "none"
      /\ LauncherTyped'
  BY DEF Restart, Fresh, NoTickets, LauncherTyped, TicketStates
<1>3. TypeInv'
  BY <1>0, <1>1, <1>2 DEF TypeInv, FilesTyped, CliTyped
<1>4. LogInv'
  BY <1>0, <1>1, <1>2 DEF LogInv, Numbered, KnownIsTrue, OneEscBlocks, EscBlocks, Blocks, Exists
<1>5. LauncherInv' /\ SeenAnswers'
  BY <1>2 DEF LauncherInv, LauncherTodoOK, OneOfAKind, SeenAnswers
<1>6. CliInv'
  BY <1>0, <1>1 DEF CliInv, CliTodoOK, CliUniform, CliMay, Settled, Exists
<1>7. KeepsOpen'
  BY <1>2 DEF KeepsOpen
<1>8. QED
  BY <1>3, <1>4, <1>5, <1>6, <1>7 DEF CoordInv

LEMMA LearnInv ==
  ASSUME CoordInv, UNCHANGED <<files, launcher, cli>>, finding' \in {"nothing", "owner", "decision"}
  PROVE  CoordInv'
BY DEF CoordInv, TypeInv, FilesTyped, LauncherTyped, CliTyped, files, LogInv, Numbered, KnownIsTrue,
       OneEscBlocks, EscBlocks, Blocks, Exists, LauncherInv, LauncherTodoOK, OneOfAKind, LauncherMay,
       CliInv, CliTodoOK, CliUniform, CliMay, Settled, SeenAnswers

-----------------------------------------------------------------------------
(***************************************************************************)
(* Commands                                                                *)
(***************************************************************************)
(* What a command may write that gives the links the status st.            *)
CommandMay(st) == {w \in Writes : CliMay(w) /\ (IsLink(w.id) => w.status = st)}

LEMMA CliPlans ==
  ASSUME CoordInv, UNCHANGED <<files, finding, launcher>>, NEW st,
         NEW at \in {"idle", "direct", "clarification", "linked"}, NEW ask \in Asks \cup {0},
         NEW hit \in BOOLEAN, NEW todo \in Seq(CommandMay(st)), at # "idle" => ask \in Asks,
         cli' = [at |-> at, todo |-> todo, ask |-> ask, hit |-> hit]
  PROVE  CoordInv'
<1>0. /\ FilesTyped /\ LauncherTyped /\ finding \in {"nothing", "owner", "decision"}
      /\ LogInv /\ LauncherInv /\ SeenAnswers
  BY DEF CoordInv, TypeInv
<1>1. log' = log /\ tickets' = tickets /\ assigned' = assigned /\ launcher' = launcher
      /\ finding' = finding
  BY DEF files
<1>2. /\ todo \in Seq(Writes)
      /\ \A n \in DOMAIN todo : CliMay(todo[n]) /\ (IsLink(todo[n].id) => todo[n].status = st)
  <2>1. /\ CommandMay(st) \subseteq Writes
        /\ \A w \in CommandMay(st) : CliMay(w) /\ (IsLink(w.id) => w.status = st)
    BY DEF CommandMay
  <2>2. QED
    BY <2>1, Widened, Members
<1>3. TypeInv'
  BY <1>0, <1>1, <1>2 DEF TypeInv, FilesTyped, LauncherTyped, CliTyped
<1>4. LogInv'
  BY <1>0, <1>1 DEF LogInv, Numbered, KnownIsTrue, OneEscBlocks, EscBlocks, Blocks, Exists
<1>5. LauncherInv'
  BY <1>0, <1>1 DEF LauncherInv, LauncherTodoOK, OneOfAKind, LauncherMay, EscBlocks, Blocks, Exists
<1>6. CliInv'
  <2>1. \A w : CliMay(w) => CliMay(w)'
    BY <1>1 DEF CliMay, Settled, Exists
  <2>2. cli'.todo = todo
    OBVIOUS
  <2>3. CliTodoOK'
    BY <1>2, <2>1, <2>2 DEF CliTodoOK
  <2>4. CliUniform'
    BY <1>2, <2>2 DEF CliUniform
  <2>5. QED
    BY <2>3, <2>4 DEF CliInv
<1>7. SeenAnswers'
  BY <1>0, <1>1 DEF SeenAnswers, Blocks
<1>8. QED
  BY <1>3, <1>4, <1>5, <1>6, <1>7 DEF CoordInv

LEMMA CommandWrite ==
  ASSUME FilesTyped, LogInv, NEW id \in Ids, NEW status \in Statuses \ {"none"},
         NEW stamp \in Stamps,
         \A i \in Asks : id \in {Esc(i), Hf(i)} => status \notin Blocking,
         IsLink(id) => Exists(id) /\ (status # "resolved" => ~Settled(id))
  PROVE  Write(id, status, stamp) \in CommandMay(status)
<1>1. PICK w \in Writes : w = Write(id, status, stamp) /\ w.id = id /\ w.status = status
  BY WriteTyped
<1>2. CliMay(w)
  <2>1. \A i \in Asks : /\ w.id # Ticket(i)
                        /\ w.id \in {Esc(i), Hf(i)} => w.status \notin Blocking
    BY <1>1, NoRecords
  <2>2. \A i \in Asks : w.id = Esc(i) /\ w.status # "resolved" => ~Settled(Esc(i))
    BY <1>1 DEF IsLink
  <2>3. ASSUME NEW i \in Requests, w.id = Req(i)
        PROVE  /\ \A j \in Requests : j < i => Exists(Req(j))
               /\ w.status # "resolved" => ~Settled(Req(i))
    <3>1. Exists(Req(i)) /\ (status # "resolved" => ~Settled(Req(i)))
      BY <1>1, <2>3 DEF IsLink
    <3>2. QED
      BY <1>1, <3>1 DEF LogInv, Numbered
  <2>4. QED
    BY <2>1, <2>2, <2>3 DEF CliMay
<1>3. QED
  BY <1>1, <1>2 DEF CommandMay

LEMMA MirrorIsCommandMay ==
  ASSUME NEW st
  PROVE  MirrorMay \subseteq CommandMay(st)
<1> SUFFICES ASSUME NEW w \in Writes, NEW i \in Requests, w.id = Assignment(i)
             PROVE  CliMay(w) /\ ~IsLink(w.id)
  BY DEF MirrorMay, CommandMay
<1>1. w.id \notin Ids /\ \A j : w.id # Ticket(j)
  BY NoRecords
<1>2. /\ \A j \in Asks : w.id # Esc(j) /\ w.id # Hf(j)
      /\ \A j \in Requests : w.id # Req(j)
  BY <1>1, Names
<1>3. QED
  BY <1>1, <1>2 DEF CliMay, IsLink

LEMMA ClosingListed ==
  ASSUME FilesTyped, LogInv, NEW id \in Ids
  PROVE  Closing(id) \in Seq(CommandMay("resolved"))
<1>1. ASSUME Open(id) PROVE Write(id, "resolved", "kept") \in CommandMay("resolved")
  <2>1. "resolved" \in Statuses \ {"none"} /\ "kept" \in Stamps /\ "resolved" \notin Blocking
    BY DEF Statuses, Stamps, Blocking
  <2>2. Exists(id)
    BY <1>1 DEF Open, Exists
  <2>3. QED
    BY <2>1, <2>2, CommandWrite
<1>2. QED
  BY <1>1, Single DEF Closing

LEMMA CloseLinksListed ==
  ASSUME FilesTyped, LogInv, NEW st \in {"resolved", "gone"}, NEW stamp \in Stamps,
         NEW E \in SUBSET OpenEscalations
  PROVE  CloseLinks(st, stamp, E) \in Seq(CommandMay(st))
<1> DEFINE S == {i \in LinkedRequests : Open(Req(i))}
           C == CommandMay(st)
<1>1. st \in Statuses \ {"none"} /\ st \notin Blocking
  BY DEF Statuses, Blocking
<1>2. /\ S \in SUBSET (1 .. MaxRequests) /\ MaxRequests \in Nat
      /\ E \in SUBSET (1 .. MaxAsks) /\ MaxAsks \in Nat
  BY CoordinationAssumption
     DEF LinkedRequests, Requests, OpenEscalations, LinkedEscalations, Asks
<1>3. /\ Cardinality(S) \in Nat /\ \A n \in 1 .. Cardinality(S) : Sorted(S)[n] \in S
      /\ Cardinality(E) \in Nat /\ \A n \in 1 .. Cardinality(E) : Sorted(E)[n] \in E
  <2> HIDE DEF S
  <2>1. QED
    BY <1>2, SortedIn
<1>4. \A x : Open(x) => Exists(x) /\ ~Settled(x)
  BY DEF Open, Exists, Settled
<1>5. \A i \in S : Write(Req(i), st, stamp) \in C
  <2> TAKE i \in S
  <2>1. Req(i) \in Ids /\ Open(Req(i))
    BY Names DEF LinkedRequests
  <2>2. QED
    BY <1>1, <1>4, <2>1, CommandWrite
<1>6. \A i \in E : Write(Esc(i), st, stamp) \in C
  <2> TAKE i \in E
  <2>1. Esc(i) \in Ids /\ Open(Esc(i))
    BY Names DEF OpenEscalations, LinkedEscalations
  <2>2. QED
    BY <1>1, <1>4, <2>1, CommandWrite
<1> DEFINE f == [n \in 1 .. Cardinality(S) |-> Write(Req(Sorted(S)[n]), st, stamp)]
           g == [n \in 1 .. Cardinality(E) |-> Write(Esc(Sorted(E)[n]), st, stamp)]
<1>7. CloseLinks(st, stamp, E) = f \o g
  BY DEF CloseLinks, Each
<1>8. f \in [1 .. Cardinality(S) -> C] /\ g \in [1 .. Cardinality(E) -> C]
  <2> HIDE DEF S, C
  <2>1. QED
    BY <1>3, <1>5, <1>6
<1> HIDE DEF f, g, C
<1>9. f \in Seq(C) /\ g \in Seq(C)
  BY <1>3, <1>8, Listed
<1>10. QED
  BY <1>7, <1>9, Joined DEF C

LEMMA Begun ==
  ASSUME CoordInv, UNCHANGED <<files, finding, launcher>>, NEW st, NEW todo \in Seq(CommandMay(st)),
         cli' = [Quiet EXCEPT !.todo = todo]
  PROVE  CoordInv'
<1>1. cli' = [at |-> "idle", todo |-> todo, ask |-> 0, hit |-> FALSE]
  BY DEF Quiet
<1>2. QED
  BY <1>1, CliPlans

LEMMA ResolveDirectInv == CoordInv /\ ResolveDirect => CoordInv'
<1> SUFFICES ASSUME CoordInv, ResolveDirect PROVE CoordInv'
  OBVIOUS
<1>0. /\ FilesTyped /\ LogInv /\ CliTyped /\ cli.ask \in Asks
      /\ UNCHANGED <<files, finding, launcher>>
  BY DEF CoordInv, TypeInv, CliTyped, ResolveDirect, Stage
<1> DEFINE writes == Closing(Esc(cli.ask)) \o Closing(Hf(cli.ask))
           found == Open(Esc(cli.ask)) /\ log[Esc(cli.ask)].linked
<1>1. writes \in Seq(CommandMay("resolved"))
  <2>1. Esc(cli.ask) \in Ids /\ Hf(cli.ask) \in Ids
    BY <1>0, Names
  <2>2. /\ Closing(Esc(cli.ask)) \in Seq(CommandMay("resolved"))
        /\ Closing(Hf(cli.ask)) \in Seq(CommandMay("resolved"))
    BY <1>0, <2>1, ClosingListed
  <2>3. QED
    BY <2>2, Joined
<1>2. PICK todo \in Seq(CommandMay("resolved")) : todo = writes
  BY <1>1
<1>3. PICK ask \in Asks : ask = cli.ask
  BY <1>0
<1>4. PICK hit \in BOOLEAN : hit <=> found
  BY <1>0 DEF FilesTyped, States
<1>5. cli' = [cli EXCEPT !.at = "clarification", !.todo = writes, !.hit = found]
  BY DEF ResolveDirect
<1>6. found \in BOOLEAN
  BY <1>0 DEF Open, FilesTyped, States
<1> HIDE DEF writes, found
<1>7. hit = found
  BY <1>4, <1>6
<1>8. cli' = [at |-> "clarification", todo |-> todo, ask |-> ask, hit |-> hit]
  BY <1>0, <1>2, <1>3, <1>5, <1>7 DEF CliTyped
<1>9. QED
  BY <1>0, <1>8, CliPlans

LEMMA ResolveClarificationInv == CoordInv /\ ResolveClarification => CoordInv'
<1> SUFFICES ASSUME CoordInv, ResolveClarification PROVE CoordInv'
  OBVIOUS
<1>0. /\ FilesTyped /\ LogInv /\ CliTyped /\ cli.ask \in Asks /\ cli.hit \in BOOLEAN
      /\ UNCHANGED <<files, finding, launcher>>
  BY DEF CoordInv, TypeInv, CliTyped, ResolveClarification, Stage
<1> DEFINE writes == IF cli.hit THEN Closing(Clar) ELSE <<>>
<1>1. writes \in Seq(CommandMay("resolved"))
  BY <1>0, Names, ClosingListed
<1>2. PICK todo \in Seq(CommandMay("resolved")) : todo = writes
  BY <1>1
<1>3. PICK ask \in Asks : ask = cli.ask
  BY <1>0
<1>4. PICK hit \in BOOLEAN : hit = cli.hit
  BY <1>0
<1>5. cli' = [cli EXCEPT !.at = "linked", !.todo = writes]
  BY DEF ResolveClarification
<1> HIDE DEF writes
<1>6. cli' = [at |-> "linked", todo |-> todo, ask |-> ask, hit |-> hit]
  BY <1>0, <1>2, <1>3, <1>4, <1>5 DEF CliTyped
<1>7. QED
  BY <1>0, <1>6, CliPlans

LEMMA ResolveLinkedInv == CoordInv /\ ResolveLinked => CoordInv'
<1> SUFFICES ASSUME CoordInv, ResolveLinked PROVE CoordInv'
  OBVIOUS
<1>0. FilesTyped /\ LogInv /\ UNCHANGED <<files, finding, launcher>>
  BY DEF CoordInv, TypeInv, ResolveLinked
<1> DEFINE links == IF cli.hit THEN CloseLinks("resolved", "kept", OpenEscalations) ELSE <<>>
<1>1. links \in Seq(CommandMay("resolved"))
  <2>1. CloseLinks("resolved", "kept", OpenEscalations) \in Seq(CommandMay("resolved"))
    BY <1>0, CloseLinksListed DEF Stamps
  <2>2. QED
    BY <2>1
<1>2. Mirror(LinkedRequests) \in Seq(CommandMay("resolved"))
  BY <1>0, MirrorListed, MirrorIsCommandMay, Widened DEF LinkedRequests
<1>3. PICK todo \in Seq(CommandMay("resolved")) : todo = links \o Mirror(LinkedRequests)
  BY <1>1, <1>2, Joined
<1>4. cli' = [Quiet EXCEPT !.todo = todo]
  BY <1>3 DEF ResolveLinked
<1>5. QED
  BY <1>0, <1>4, Begun

LEMMA FollowUpInv ==
  ASSUME CoordInv, NEW i \in Requests, FollowUp(i)
  PROVE  CoordInv'
<1>0. /\ FilesTyped /\ LogInv /\ UNCHANGED <<files, finding, launcher>>
      /\ Req(i) \in Ids /\ Open(Req(i))
  BY Names DEF CoordInv, TypeInv, FollowUp, Begin
<1>1. Exists(Req(i)) /\ ~Settled(Req(i)) /\ \A j \in Asks : Req(i) \notin {Esc(j), Hf(j)}
  BY <1>0, NamesDiffer DEF Open, Exists, Settled
<1>2. /\ "resolved" \in Statuses \ {"none"} /\ "working" \in Statuses \ {"none"}
      /\ "kept" \in Stamps /\ "now" \in Stamps
  BY DEF Statuses, Stamps
<1>3. CASE Begin(<<Write(Req(i), "resolved", "kept")>>)
  <2>1. Write(Req(i), "resolved", "kept") \in CommandMay("resolved")
    BY <1>0, <1>1, <1>2, CommandWrite
  <2>2. PICK todo \in Seq(CommandMay("resolved")) : todo = <<Write(Req(i), "resolved", "kept")>>
    BY <2>1, Single
  <2>3. QED
    BY <1>0, <1>3, <2>2, Begun DEF Begin
<1>4. CASE Begin(<<Write(Req(i), "working", "now")>>)
  <2>1. Write(Req(i), "working", "now") \in CommandMay("working")
    BY <1>0, <1>1, <1>2, CommandWrite
  <2>2. PICK todo \in Seq(CommandMay("working")) : todo = <<Write(Req(i), "working", "now")>>
    BY <2>1, Single
  <2>3. QED
    BY <1>0, <1>4, <2>2, Begun DEF Begin
<1>5. QED
  BY <1>3, <1>4 DEF FollowUp

LEMMA HandOverListed ==
  ASSUME FilesTyped, LogInv, NEW stamp \in Stamps, NEW writes \in HandOver(stamp)
  PROVE  writes \in Seq(CommandMay("open"))
<1> DEFINE n == Cardinality(LinkedRequests) + 1
<1>1. /\ n \in Requests
      /\ writes = <<Write(Clar, "gone", stamp), Linked(Write(Req(n), "open", "created")),
                    Write(Clar, "working", stamp)>>
  <2>1. CASE n \notin Requests
    BY <2>1 DEF HandOver
  <2>2. CASE n \in Requests
    BY <2>2 DEF HandOver
  <2>3. QED
    BY <2>1, <2>2
<1>2. ~Exists(Req(n)) /\ \A j \in Requests : j < n => Exists(Req(j))
  BY <1>1, NextRequest
<1> HIDE DEF n
<1>3. /\ {"gone", "open", "working"} \subseteq Statuses \ {"none"} /\ "created" \in Stamps
      /\ Clar \in Ids /\ Req(n) \in Ids
  BY <1>1, Names DEF Statuses, Stamps
<1>4. ASSUME NEW w \in Writes, w.id = Clar PROVE w \in CommandMay("open")
  BY <1>4, Names, NamesDiffer, NoRecords DEF CommandMay, CliMay, IsLink
<1>5. ASSUME NEW w \in Writes, w.id = Req(n), w.status = "open" PROVE w \in CommandMay("open")
  <2>1. \A i \in Asks : w.id # Ticket(i) /\ w.id # Esc(i) /\ w.id # Hf(i)
    BY <1>3, <1>5, NamesDiffer, NoRecords
  <2>2. \A i \in Requests : w.id = Req(i) => i = n
    BY <1>5, NamesDiffer
  <2>3. ~Settled(Req(n))
    BY <1>2 DEF Settled, Exists
  <2>4. CliMay(w)
    BY <1>2, <2>1, <2>2, <2>3 DEF CliMay
  <2>5. QED
    BY <1>5, <2>4 DEF CommandMay
<1>6. /\ Write(Clar, "gone", stamp) \in CommandMay("open")
      /\ Write(Clar, "working", stamp) \in CommandMay("open")
  BY <1>3, <1>4, WriteTyped
<1>7. Linked(Write(Req(n), "open", "created")) \in CommandMay("open")
  BY <1>3, <1>5, WriteTyped
<1>8. QED
  BY <1>1, <1>6, <1>7

LEMMA CommandListed ==
  ASSUME FilesTyped, LogInv, NEW c \in Commands, NEW writes \in CommandWrites(c)
  PROVE  \E st \in Statuses : writes \in Seq(CommandMay(st))
<1>1. /\ "resolved" \in Statuses \ {"none"} /\ "gone" \in Statuses \ {"none"}
      /\ "waived" \in Statuses \ {"none"} /\ "open" \in Statuses
      /\ "kept" \in Stamps /\ "now" \in Stamps /\ "waived" \notin Blocking
  BY DEF Statuses, Stamps, Blocking
<1>2. Clar \in Ids /\ ~IsLink(Clar) /\ \A i \in Asks : Clar \notin {Esc(i), Hf(i)}
  BY Names, NamesDiffer DEF IsLink
<1>3. CASE c = "resolve"
  <2>1. writes = <<Write(Clar, "resolved", "kept")>>
                     \o CloseLinks("resolved", "kept", OpenEscalations)
    BY <1>3 DEF CommandWrites
  <2>2. Write(Clar, "resolved", "kept") \in CommandMay("resolved")
    BY <1>1, <1>2, CommandWrite
  <2>3. CloseLinks("resolved", "kept", OpenEscalations) \in Seq(CommandMay("resolved"))
    BY <1>1, CloseLinksListed
  <2>4. QED
    BY <1>1, <2>1, <2>2, <2>3, Single, Joined
<1>4. CASE c = "dismiss"
  <2>1. writes = <<Write(Clar, "gone", "kept")>> \o CloseLinks("gone", "kept", OpenEscalations)
    BY <1>4 DEF CommandWrites
  <2>2. Write(Clar, "gone", "kept") \in CommandMay("gone")
    BY <1>1, <1>2, CommandWrite
  <2>3. CloseLinks("gone", "kept", OpenEscalations) \in Seq(CommandMay("gone"))
    BY <1>1, CloseLinksListed
  <2>4. QED
    BY <1>1, <2>1, <2>2, <2>3, Single, Joined
<1>5. CASE c = "reroute"
  <2>1. writes \in HandOver("kept")
    BY <1>5 DEF CommandWrites
  <2>2. QED
    BY <1>1, <2>1, HandOverListed
<1>6. CASE c = "reassign"
  <2>1. writes \in HandOver("now")
    BY <1>6 DEF CommandWrites
  <2>2. QED
    BY <1>1, <2>1, HandOverListed
<1>7. CASE c = "close"
  <2>1. writes = <<Write(Clar, "resolved", "now")>> \o CloseLinks("resolved", "now", {})
    BY <1>7 DEF CommandWrites
  <2>2. Write(Clar, "resolved", "now") \in CommandMay("resolved")
    BY <1>1, <1>2, CommandWrite
  <2>3. CloseLinks("resolved", "now", {}) \in Seq(CommandMay("resolved"))
    BY <1>1, CloseLinksListed
  <2>4. QED
    BY <1>1, <2>1, <2>2, <2>3, Single, Joined
<1>8. CASE c = "waive"
  <2>1. PICK id \in Ids : Blocks(id) /\ writes = <<Write(id, "waived", "now")>>
    BY <1>8 DEF CommandWrites
  <2>2. Exists(id) /\ ~Settled(id)
    BY <2>1 DEF Blocks, Exists, Settled
  <2>3. Write(id, "waived", "now") \in CommandMay("waived")
    BY <1>1, <2>2, CommandWrite
  <2>4. QED
    BY <1>1, <2>1, <2>3, Single
<1>9. QED
  BY <1>3, <1>4, <1>5, <1>6, <1>7, <1>8, CoordinationAssumption

LEMMA CommandInv == CoordInv /\ Command => CoordInv'
<1> SUFFICES ASSUME CoordInv, Command PROVE CoordInv'
  OBVIOUS
<1>1. PICK c \in Commands : \E writes \in CommandWrites(c) : Begin(writes)
  BY DEF Command
<1>2. PICK writes \in CommandWrites(c) : Begin(writes)
  BY <1>1
<1>3. PICK st \in Statuses : writes \in Seq(CommandMay(st))
  BY CommandListed DEF CoordInv, TypeInv
<1>4. PICK todo \in Seq(CommandMay(st)) : todo = writes
  BY <1>3
<1>5. QED
  BY <1>2, <1>4, Begun DEF Begin

LEMMA CliDiesInv == CoordInv /\ CliDies => CoordInv'
<1> SUFFICES ASSUME CoordInv, CliDies PROVE CoordInv'
  OBVIOUS
<1>1. <<>> \in Seq(CommandMay("gone"))
  OBVIOUS
<1>2. cli' = [at |-> "idle", todo |-> <<>>, ask |-> 0, hit |-> FALSE]
  BY DEF CliDies, Quiet
<1>3. UNCHANGED <<files, finding, launcher>>
  BY DEF CliDies
<1>4. QED
  BY <1>1, <1>2, <1>3, CliPlans

(* An answer only makes a question answered that was asked.                *)
LEMMA AnswerTicketInv ==
  ASSUME CoordInv, NEW i \in Asks, AnswerTicket(i)
  PROVE  CoordInv'
<1>0. /\ FilesTyped /\ LauncherTyped /\ finding \in {"nothing", "owner", "decision"}
      /\ LogInv /\ LauncherInv /\ SeenAnswers
  BY DEF CoordInv, TypeInv
<1>1. /\ log' = log /\ assigned' = assigned /\ finding' = finding /\ launcher' = launcher
      /\ tickets[i] # "none" /\ tickets' = [tickets EXCEPT ![i] = "answered"]
      /\ cli' = [at |-> "direct", todo |-> <<>>, ask |-> i, hit |-> FALSE]
  BY DEF AnswerTicket, Quiet
<1>2. \A j \in Asks : /\ tickets'[j] = "none" <=> tickets[j] = "none"
                      /\ tickets[j] = "answered" => tickets'[j] = "answered"
  BY <1>0, <1>1 DEF FilesTyped
<1>3. TypeInv'
  <2>1. tickets' \in [Asks -> TicketStates]
    BY <1>0, <1>1 DEF FilesTyped, TicketStates
  <2>2. QED
    BY <1>0, <1>1, <2>1 DEF TypeInv, FilesTyped, LauncherTyped, CliTyped
<1>4. LogInv'
  BY <1>0, <1>1, <1>2
     DEF LogInv, Numbered, KnownIsTrue, OneEscBlocks, EscBlocks, Blocks, Exists
<1>5. LauncherInv'
  <2>1. \A w : LauncherMay(w) => LauncherMay(w)'
    BY <1>1, <1>2 DEF LauncherMay, EscBlocks, Blocks, Exists
  <2>2. QED
    BY <1>0, <1>1, <2>1 DEF LauncherInv, LauncherTodoOK, OneOfAKind
<1>6. CliInv'
  BY <1>1 DEF CliInv, CliTodoOK, CliUniform
<1>7. SeenAnswers'
  BY <1>0, <1>1 DEF SeenAnswers, Blocks
<1>8. QED
  BY <1>3, <1>4, <1>5, <1>6, <1>7 DEF CoordInv

-----------------------------------------------------------------------------
(***************************************************************************)
(* The theorems                                                            *)
(***************************************************************************)
LEMMA StepInv == CoordInv /\ [Next]_vars => CoordInv'
<1> SUFFICES ASSUME CoordInv, [Next]_vars PROVE CoordInv'
  OBVIOUS
<1>1. CASE Restart
  BY <1>1, RestartInv
<1>2. CASE Poll
  BY <1>2, PollInv
<1>3. CASE LauncherWrites
  BY <1>3, LauncherWritesInv
<1>4. CASE Refresh
  BY <1>4, RefreshInv
<1>5. CASE Triage
  BY <1>5, TriageClosesInv, TriageRoutesInv, TriageAsksInv, TriageWaitsInv DEF Triage
<1>6. ASSUME NEW i \in Asks, AnswerTicket(i) PROVE CoordInv'
  BY <1>6, AnswerTicketInv
<1>7. ASSUME NEW i \in Requests, FollowUp(i) PROVE CoordInv'
  BY <1>7, FollowUpInv
<1>8. CASE CliWrites
  BY <1>8, CliWritesInv
<1>9. CASE ResolveDirect \/ ResolveClarification \/ ResolveLinked
  BY <1>9, ResolveDirectInv, ResolveClarificationInv, ResolveLinkedInv
<1>10. CASE Command
  BY <1>10, CommandInv
<1>11. CASE CliDies
  BY <1>11, CliDiesInv
<1>12. CASE Learn
  <2>1. UNCHANGED <<files, launcher, cli>> /\ finding' \in {"nothing", "owner", "decision"}
    BY <1>12 DEF Learn
  <2>2. QED
    BY <2>1, LearnInv
<1>13. CASE UNCHANGED vars
  <2>1. UNCHANGED <<files, launcher, cli>> /\ finding' \in {"nothing", "owner", "decision"}
    BY <1>13 DEF vars, files, CoordInv, TypeInv
  <2>2. QED
    BY <2>1, LearnInv
<1>14. QED
  BY <1>1, <1>2, <1>3, <1>4, <1>5, <1>6, <1>7, <1>8, <1>9, <1>10, <1>11, <1>12, <1>13
     DEF Next, LauncherStep, CliStep

LEMMA CoordInvHolds == Spec => []CoordInv
BY InitInv, StepInv, PTL DEF Spec

(* Whatever the launcher and the commands append, and wherever they end,   *)
(* records, tickets and processes keep their types.                        *)
THEOREM CoordinationTypeCorrect == Spec => []CoordinationTypeOK
<1>1. CoordInv => CoordinationTypeOK
  <2> SUFFICES ASSUME CoordInv PROVE CoordinationTypeOK
    OBVIOUS
  <2>1. FilesTyped /\ LauncherTyped /\ CliTyped /\ finding \in {"nothing", "owner", "decision"}
    BY DEF CoordInv, TypeInv
  <2>2. \A id \in Ids : /\ log[id].status \in Statuses
                        /\ log[id].late \in BOOLEAN
                        /\ log[id].linked \in BOOLEAN
    BY <2>1 DEF FilesTyped, States
  <2>3. QED
    BY <2>1, <2>2 DEF FilesTyped, TicketStates, LauncherTyped, CliTyped, CoordinationTypeOK
<1>2. QED
  BY <1>1, CoordInvHolds, PTL

(* The wave waits for one question of a clarification at a time, for any   *)
(* numbers of questions and requests and any commands: the launcher opens  *)
(* an escalation only while none blocks, and no other process opens one.   *)
THEOREM OneQuestionBlocks == Spec => []OneBlockingEscalation
<1>1. CoordInv => OneBlockingEscalation
  <2> SUFFICES ASSUME CoordInv PROVE OneBlockingEscalation
    OBVIOUS
  <2> DEFINE S == {i \in LinkedEscalations : Blocks(Esc(i))}
  <2>1. \A i, j \in S : i = j
    BY DEF LinkedEscalations, EscBlocks, CoordInv, LogInv, OneEscBlocks
  <2>2. Cardinality(S) <= 1
    <3> HIDE DEF S
    <3>1. CASE S = {}
      BY <3>1, FS_EmptySet
    <3>2. CASE S # {}
      <4>1. PICK i : i \in S
        BY <3>2
      <4>2. S = {i}
        BY <2>1, <4>1
      <4>3. QED
        <5>1. Cardinality({i}) = 1
          BY FS_Singleton
        <5>2. QED
          BY <4>2, <5>1
    <3>3. QED
      BY <3>1, <3>2
  <2>3. QED
    BY <2>2 DEF OneBlockingEscalation
<1>2. QED
  BY <1>1, CoordInvHolds, PTL

(* An answer the launcher has seen leaves neither the feedback record nor  *)
(* the escalation of its question blocking once the launcher has written   *)
(* what it decided then: its writes are later than whatever a command may  *)
(* have appended in between.                                               *)
THEOREM SeenAnswersAreRecorded == Spec => []AnsweredIsRecorded
<1>1. CoordInv => AnsweredIsRecorded
  BY DEF CoordInv, SeenAnswers, AnsweredIsRecorded
<1>2. QED
  BY <1>1, CoordInvHolds, PTL

-----------------------------------------------------------------------------
(***************************************************************************)
(* A triage that closes the clarification has a cause, and the cause is    *)
(* still there when the closure is appended, whatever happens in between:  *)
(* nothing the launcher is still to write, and nothing a command may       *)
(* write, takes it away.                                                   *)
(***************************************************************************)
Caused ==
    \/ launcher.decided
    \/ \E i \in Requests : Settled(Req(i))
    \/ \E i \in Asks : tickets[i] = "answered"
    \/ \E i \in Asks :
        /\ Settled(Esc(i))
        /\ \A n \in DOMAIN launcher.todo :
               launcher.todo[n].id = Esc(i) => launcher.todo[n].status = "resolved"

CauseInv ==
    (\E n \in DOMAIN launcher.todo : ClosesClar(launcher.todo[n]))
        => /\ Caused
           /\ \A n \in DOMAIN launcher.todo, i \in Requests : launcher.todo[n].id # Req(i)

LEMMA CauseKeptByLauncherWrites == CoordInv /\ CauseInv /\ LauncherWrites => CauseInv'
<1> SUFFICES ASSUME CoordInv, CauseInv, LauncherWrites,
                    NEW k \in DOMAIN launcher'.todo, ClosesClar(launcher'.todo[k])
             PROVE  /\ Caused'
                    /\ \A n \in DOMAIN launcher'.todo, i \in Requests :
                           launcher'.todo[n].id # Req(i)
  BY DEF CauseInv, ClosesClar
<1>0. FilesTyped /\ LauncherTyped /\ LogInv /\ LauncherInv
  BY DEF CoordInv, TypeInv
<1>1. launcher.todo \in Seq(Writes) /\ launcher.todo # <<>>
  BY <1>0 DEF LauncherTyped, LauncherWrites
<1> DEFINE todo == launcher.todo
<1>2. /\ 1 \in DOMAIN todo /\ Head(todo) = todo[1] /\ Head(todo) \in Writes
      /\ Tail(todo) \in Seq(Writes)
      /\ \A n \in DOMAIN Tail(todo) :
            n + 1 \in DOMAIN todo /\ Tail(todo)[n] = todo[n + 1] /\ n + 1 # 1
  BY <1>1, Shift
<1>3. PICK w \in Writes : w = Head(todo)
  BY <1>2
<1>4. /\ Perform(w)
      /\ launcher' = [launcher EXCEPT !.todo = Tail(todo),
                                      !.decided = launcher.decided /\ Len(todo) > 1]
  BY <1>3 DEF LauncherWrites
<1>5. launcher'.todo = Tail(todo) /\ (launcher'.decided <=> launcher.decided /\ Len(todo) > 1)
  BY <1>0, <1>4 DEF LauncherTyped
<1>6. k + 1 \in DOMAIN todo /\ ClosesClar(todo[k + 1]) /\ Len(todo) > 1
  <2>1. k \in DOMAIN Tail(todo)
    BY <1>5
  <2>2. Len(Tail(todo)) \in Nat /\ k \in 1 .. Len(Tail(todo)) /\ Len(Tail(todo)) = Len(todo) - 1
        /\ Len(todo) \in Nat
    BY <1>1, <1>2, <2>1, LenProperties, HeadTailProperties
  <2>3. Len(todo) > 1
    BY <2>2
  <2>4. QED
    BY <1>2, <1>5, <2>1, <2>3
<1>7. /\ Caused
      /\ \A n \in DOMAIN todo, i \in Requests : todo[n].id # Req(i)
  BY <1>6 DEF CauseInv
<1>8. \A n \in DOMAIN launcher'.todo, i \in Requests : launcher'.todo[n].id # Req(i)
  BY <1>2, <1>5, <1>7
<1>9. \A i \in Requests : w.id # Req(i)
  BY <1>2, <1>3, <1>7
<1>10. LauncherMay(w)
  BY <1>0, <1>2, <1>3 DEF LauncherInv, LauncherTodoOK
<1>11. ASSUME launcher.decided PROVE launcher'.decided
  BY <1>5, <1>6, <1>11
<1>12. ASSUME NEW i \in Requests, Settled(Req(i)) PROVE Settled(Req(i))'
  BY <1>0, <1>4, <1>9, <1>12, Effects, Names
<1>13. ASSUME NEW i \in Asks, tickets[i] = "answered" PROVE tickets'[i] = "answered"
  BY <1>0, <1>4, <1>10, <1>13, Effects DEF LauncherMay
<1>14. ASSUME NEW i \in Asks, Settled(Esc(i)),
              \A n \in DOMAIN todo : todo[n].id = Esc(i) => todo[n].status = "resolved"
       PROVE  /\ Settled(Esc(i))'
              /\ \A n \in DOMAIN launcher'.todo :
                     launcher'.todo[n].id = Esc(i) => launcher'.todo[n].status = "resolved"
  <2>1. w.id = Esc(i) => w.status = "resolved"
    BY <1>2, <1>3, <1>14
  <2>2. Settled(Esc(i))'
    BY <1>0, <1>4, <1>14, <2>1, Effects, Names
  <2>3. QED
    BY <1>2, <1>5, <1>14, <2>2
<1>15. Caused'
  BY <1>7, <1>11, <1>12, <1>13, <1>14 DEF Caused
<1>16. QED
  BY <1>8, <1>15

LEMMA CauseKeptByCliWrites == CoordInv /\ CauseInv /\ CliWrites => CauseInv'
<1> SUFFICES ASSUME CoordInv, CauseInv, CliWrites PROVE CauseInv'
  OBVIOUS
<1>0. FilesTyped /\ CliTyped /\ CliInv
  BY DEF CoordInv, TypeInv
<1>1. cli.todo \in Seq(Writes) /\ cli.todo # <<>> /\ launcher' = launcher
  BY <1>0 DEF CliTyped, CliWrites
<1>2. PICK w \in Writes : w = Head(cli.todo) /\ w = cli.todo[1] /\ 1 \in DOMAIN cli.todo
  BY <1>1, Shift
<1>3. Perform(w) /\ CliMay(w)
  BY <1>0, <1>2 DEF CliWrites, CliInv, CliTodoOK
<1>4. \A i \in Requests : Settled(Req(i)) => Settled(Req(i))'
  BY <1>0, <1>3, Effects, Names DEF CliMay
<1>5. \A i \in Asks : tickets'[i] = tickets[i]
  BY <1>0, <1>3, Effects DEF CliMay
<1>6. \A i \in Asks : Settled(Esc(i)) => Settled(Esc(i))' \/ tickets[i] = "answered"
  BY <1>0, <1>3, Effects, Names DEF CliMay
<1>7. Caused => Caused'
  BY <1>1, <1>4, <1>5, <1>6 DEF Caused
<1>8. QED
  BY <1>1, <1>7 DEF CauseInv, ClosesClar

(* The triage that closes: a decision, or a link that is settled, of which *)
(* it writes no more because it supersedes only what blocks.               *)
LEMMA CauseGivenByTriage == WithRefs = FALSE /\ CoordInv /\ TriageCloses => CauseInv'
<1> SUFFICES ASSUME WithRefs = FALSE, CoordInv, TriageCloses
             PROVE  /\ Caused'
                    /\ \A n \in DOMAIN launcher'.todo, i \in Requests :
                           launcher'.todo[n].id # Req(i)
  BY DEF CauseInv
<1>0. FilesTyped /\ LauncherTyped /\ finding \in {"nothing", "owner", "decision"}
  BY DEF CoordInv, TypeInv
<1>1. PICK todo \in Seq(CloseMay) : Triages(todo) /\ todo # <<>>
  BY <1>0, TriageClosesPlan
<1>2. /\ launcher'.todo = todo /\ (launcher'.decided <=> finding = "decision")
      /\ log' = log /\ tickets' = tickets
  <2>1. launcher' = [launcher EXCEPT !.at = "idle", !.todo = todo,
                                     !.decided = finding = "decision" /\ todo # <<>>]
    BY <1>1 DEF Triages
  <2>2. launcher'.todo = todo /\ launcher'.decided = (finding = "decision" /\ todo # <<>>)
    BY <1>0, <2>1 DEF LauncherTyped
  <2>3. QED
    BY <1>1, <2>2 DEF Triages, files
<1>3. \A w \in CloseMay : /\ \A i \in Requests : w.id # Req(i)
                          /\ \A i \in Asks : w.id = Esc(i) => ~Settled(Esc(i))
  <2> TAKE w \in CloseMay
  <2>1. CASE w.id = Clar
    BY <2>1, NamesDiffer
  <2>2. ASSUME NEW j \in Asks, w.id = Esc(j), Blocks(Esc(j))
        PROVE  /\ \A i \in Requests : w.id # Req(i)
               /\ \A i \in Asks : w.id = Esc(i) => ~Settled(Esc(i))
    BY <2>2, NamesDiffer DEF Blocks, Settled
  <2>3. ASSUME NEW j \in Requests, w.id = Assignment(j)
        PROVE  /\ \A i \in Requests : w.id # Req(i)
               /\ \A i \in Asks : w.id = Esc(i) => ~Settled(Esc(i))
    BY <2>3, Names, NoRecords
  <2>4. QED
    BY <2>1, <2>2, <2>3 DEF CloseMay, TriageMay
<1>4. \A n \in DOMAIN todo : todo[n] \in CloseMay
  BY Members
<1>5. \A n \in DOMAIN launcher'.todo, i \in Requests : launcher'.todo[n].id # Req(i)
  BY <1>2, <1>3, <1>4
<1>6. Answered \/ finding = "decision"
  BY <1>0 DEF TriageCloses, Resolution
<1>7. CASE finding = "decision"
  BY <1>2, <1>5, <1>7 DEF Caused
<1>8. ASSUME NEW i \in LinkedRequests, Settled(Req(i)) PROVE Caused'
  BY <1>2, <1>8 DEF Caused, Settled, LinkedRequests
<1>9. ASSUME NEW i \in LinkedEscalations, Settled(Esc(i)) PROVE Caused'
  <2>1. i \in Asks /\ Settled(Esc(i))'
    BY <1>2, <1>9 DEF Settled, LinkedEscalations
  <2>2. \A n \in DOMAIN launcher'.todo : launcher'.todo[n].id # Esc(i)
    BY <1>2, <1>3, <1>4, <1>9, <2>1
  <2>3. QED
    BY <2>1, <2>2 DEF Caused
<1>10. QED
  BY <1>5, <1>6, <1>7, <1>8, <1>9 DEF Answered

LEMMA CauseStep ==
  ASSUME WithRefs = FALSE
  PROVE  CoordInv /\ CauseInv /\ [Next]_vars => CauseInv'
<1> SUFFICES ASSUME CoordInv, CauseInv, [Next]_vars PROVE CauseInv'
  OBVIOUS
<1>1. CASE Restart \/ Poll \/ Refresh \/ TriageRoutes \/ TriageAsks \/ TriageWaits
  <2>1. KeepsOpen'
    BY <1>1, RestartInv, PollInv, RefreshInv, TriageRoutesInv, TriageAsksInv, TriageWaitsInv
  <2>2. QED
    BY <2>1 DEF KeepsOpen, CauseInv
<1>2. CASE TriageCloses
  BY <1>2, CauseGivenByTriage
<1>3. CASE LauncherWrites
  BY <1>3, CauseKeptByLauncherWrites
<1>4. CASE CliWrites
  BY <1>4, CauseKeptByCliWrites
<1>5. ASSUME launcher' = launcher, log' = log,
             \A i \in Asks : tickets[i] = "answered" => tickets'[i] = "answered"
      PROVE  CauseInv'
  <2>1. Caused => Caused'
    BY <1>5 DEF Caused, Settled
  <2>2. QED
    BY <1>5, <2>1 DEF CauseInv, ClosesClar
<1>6. ASSUME NEW i \in Asks, AnswerTicket(i) PROVE CauseInv'
  <2>1. \A j \in Asks : tickets[j] = "answered" => tickets'[j] = "answered"
    BY <1>6 DEF AnswerTicket, CoordInv, TypeInv, FilesTyped
  <2>2. QED
    BY <1>5, <1>6, <2>1 DEF AnswerTicket
<1>7. ASSUME NEW i \in Requests, FollowUp(i) PROVE CauseInv'
  BY <1>5, <1>7 DEF FollowUp, Begin, files
<1>8. CASE ResolveDirect \/ ResolveClarification \/ ResolveLinked
  BY <1>5, <1>8 DEF ResolveDirect, ResolveClarification, ResolveLinked, files
<1>9. CASE Command
  BY <1>5, <1>9 DEF Command, Begin, files
<1>10. CASE CliDies \/ Learn \/ UNCHANGED vars
  BY <1>5, <1>10 DEF CliDies, Learn, vars, files
<1>11. QED
  BY <1>1, <1>2, <1>3, <1>4, <1>6, <1>7, <1>8, <1>9, <1>10
     DEF Next, LauncherStep, CliStep, Triage

(* The launcher closes a clarification without artifactRefs only when a    *)
(* follow-up request or an escalation of it is settled, a question of it   *)
(* is answered or it found a decision, however long ago it decided and     *)
(* whatever commands appended since.  With artifactRefs this is false: the *)
(* run coord_assigned shows it.                                            *)
THEOREM ClosuresHaveCause ==
  ASSUME WithRefs = FALSE
  PROVE  Spec => ClosedForCause
<1>1. Init => CauseInv
  BY DEF Init, Fresh, CauseInv
<1>2. CoordInv /\ CauseInv /\ [Next]_vars => CauseInv'
  BY CauseStep
<1>3. CoordInv /\ CauseInv /\ [Next]_vars
        => [(Blocks(Clar) /\ Settled(Clar)' /\ LauncherWrites)
               => \/ \E i \in Requests : Settled(Req(i))
                  \/ \E i \in Asks : Settled(Esc(i)) \/ tickets[i] = "answered"
                  \/ launcher.decided]_vars
  <2> SUFFICES ASSUME CoordInv, CauseInv, Blocks(Clar), Settled(Clar)', LauncherWrites
               PROVE  Caused
    BY DEF Caused
  <2>0. FilesTyped /\ LauncherTyped
    BY DEF CoordInv, TypeInv
  <2>1. launcher.todo \in Seq(Writes) /\ launcher.todo # <<>>
    BY <2>0 DEF LauncherTyped, LauncherWrites
  <2>2. PICK w \in Writes : w = Head(launcher.todo) /\ w = launcher.todo[1]
                            /\ 1 \in DOMAIN launcher.todo
    BY <2>1, Shift
  <2>3. Perform(w) /\ ~Settled(Clar)
    BY <2>2 DEF LauncherWrites, Blocks, Settled
  <2>4. ClosesClar(w)
    BY <2>0, <2>3, Effects, Names DEF ClosesClar
  <2>5. QED
    BY <2>2, <2>4 DEF CauseInv
<1>4. QED
  BY <1>1, <1>2, <1>3, CoordInvHolds, PTL DEF Spec, ClosedForCause

=============================================================================
