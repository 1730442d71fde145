----------------------------- MODULE BacklogProofs -----------------------------
(***************************************************************************)
(* What holds of a backlog, for every set of items. Its state machine      *)
(* (BlStateMachine), for every number of calling processes and any length  *)
(* of the journal; forge plan (Planning), for every graph of dependencies, *)
(* sizes and versions, and whatever the workers do while it reads.         *)
(* The two have no state in common.                                        *)
(***************************************************************************)
EXTENDS BlStateMachine, Planning, FiniteSetTheorems, SequenceTheorems,
        WellFoundedInduction, TLAPS

\* A call can only be pending on an item that has a row: rows are never deleted.
PendingRegistered ==
    \A c \in Callers : call[c] # Idle => status[call[c].bl] # Unregistered

\* What a journal row is built from makes it an Event.
LEMMA EventRowType ==
    ASSUME NEW seen \in Status, NEW current \in Status,
           NEW r \in TransitionRequest
    PROVE  event_row(seen, current, r) \in Event
  BY DEF event_row, Event, TransitionRequest, event_type_for_transition,
         TransitionEvents

\* The iteration stays a natural number.
LEMMA NextIterationType ==
    ASSUME NEW n \in Nat, NEW current, NEW target
    PROVE  next_iteration(n, current, target) \in Nat
  BY DEF next_iteration

\* A commit, with its item b, its request r and the status its check saw.
Commits(c, b, r, seen) ==
    /\ call[c] = [bl |-> b, seen |-> seen, request |-> r]
    /\ status[b] \in Status
    /\ status' = [status EXCEPT ![b] = r.target]
    /\ iteration' =
           [iteration EXCEPT ![b] = next_iteration(@, status[b], r.target)]
    /\ journal' =
           [journal EXCEPT ![b] = Append(@, event_row(seen, status[b], r))]
    /\ call' = [call EXCEPT ![c] = Idle]

\* The commit of a well-typed pending call is a Commits step.
LEMMA CommitStep ==
    ASSUME TypeOK, PendingRegistered, NEW c \in Callers, transition_bl_status(c)
    PROVE  \E b \in Bls, r \in TransitionRequest, seen \in Status :
               /\ Commits(c, b, r, seen)
               /\ event_row(seen, status[b], r) \in Event
<1>1. call[c] \in Pending
  BY DEF TypeOK, transition_bl_status
<1>2. PICK b \in Bls, r \in TransitionRequest, seen \in Status :
          call[c] = [bl |-> b, seen |-> seen, request |-> r]
  BY <1>1 DEF Pending
<1>3. call[c].bl = b /\ call[c].request = r /\ call[c].seen = seen
  BY <1>2
<1>4. status[b] \in Status
  BY <1>3 DEF TypeOK, PendingRegistered, transition_bl_status
<1>5. Commits(c, b, r, seen)
  BY <1>2, <1>3, <1>4 DEF Commits, transition_bl_status
<1>6. QED
  BY <1>4, <1>5, EventRowType

-----------------------------------------------------------------------------
\* The typing invariant, with the fact that makes it inductive.
Typing == TypeOK /\ PendingRegistered

LEMMA TypingInit == Init => Typing
  BY DEF Init, Typing, TypeOK, PendingRegistered

LEMMA TypingNext == Typing /\ [Next]_vars => Typing'
<1> SUFFICES ASSUME Typing, [Next]_vars PROVE Typing'
  OBVIOUS
<1> USE DEF Typing
<1>1. CASE UNCHANGED vars
  BY <1>1 DEF TypeOK, PendingRegistered, vars
<1>2. ASSUME NEW b \in Bls, register_bl(b) PROVE Typing'
  BY <1>2, MachineAssumption
     DEF TypeOK, PendingRegistered, register_bl, Status, Pending
<1>3. ASSUME NEW c \in Callers, NEW b \in Bls, NEW r \in TransitionRequest,
             transition(c, b, r)
      PROVE  Typing'
  <2>1. [bl |-> b, seen |-> status[b], request |-> r] \in Pending
    BY <1>3 DEF TypeOK, transition, Pending
  <2>2. TypeOK'
    BY <1>3, <2>1 DEF TypeOK, transition
  <2>3. PendingRegistered'
    BY <1>3 DEF TypeOK, PendingRegistered, transition
  <2>4. QED
    BY <2>2, <2>3
<1>4. ASSUME NEW c \in Callers, transition_bl_status(c) PROVE Typing'
  <2>1. PICK b \in Bls, r \in TransitionRequest, seen \in Status :
            Commits(c, b, r, seen) /\ event_row(seen, status[b], r) \in Event
    BY <1>4, CommitStep
  <2>2. r.target \in Status
    BY DEF TransitionRequest
  <2>3. next_iteration(iteration[b], status[b], r.target) \in Nat
    BY NextIterationType DEF TypeOK
  <2>4. Append(journal[b], event_row(seen, status[b], r)) \in Seq(Event)
    BY <2>1 DEF TypeOK
  <2>5. TypeOK'
    BY <2>1, <2>2, <2>3, <2>4 DEF TypeOK, Commits
  <2>6. PendingRegistered'
    BY <2>1, <2>2, MachineAssumption
       DEF TypeOK, PendingRegistered, Commits, Pending
  <2>7. QED
    BY <2>5, <2>6
<1>5. ASSUME NEW c \in Callers, Abort(c) PROVE Typing'
  BY <1>5 DEF TypeOK, PendingRegistered, Abort
<1>6. QED
  BY <1>1, <1>2, <1>3, <1>4, <1>5 DEF Next

\* Type correctness of the state machine, for every interleaving of callers.
THEOREM TypeCorrect == Spec => []TypeOK
<1>1. Typing => TypeOK
  BY DEF Typing
<1>2. QED
  BY <1>1, TypingInit, TypingNext, PTL DEF Spec

-----------------------------------------------------------------------------
\* Appending an event that starts at the status a log replays to.
LEMMA ReplaysAppend ==
    ASSUME NEW log \in Seq(Event), NEW e \in Event, NEW s \in Status,
           Replays(log, s), e.from = s
    PROVE  Replays(Append(log, e), e.to)
<1> DEFINE n == Len(log)
           new == Append(log, e)
<1>1. /\ n \in Nat
      /\ Len(new) = n + 1
      /\ new[n + 1] = e
      /\ \A i \in 1..n : new[i] = log[i]
  OBVIOUS
<1>2. s # Unregistered /\ e.to # Unregistered
  BY MachineAssumption DEF Event
<1>3. ASSUME NEW i \in 1..Len(new)
      PROVE  new[i].from = IF i = 1 THEN "TODO" ELSE new[i - 1].to
  <2> HIDE DEF new
  <2>1. CASE i \in 1..n
    BY <1>1, <2>1 DEF Replays
  <2>2. CASE i = n + 1
    BY <1>1, <1>2, <2>2 DEF Replays
  <2>3. QED
    BY <1>1, <2>1, <2>2
<1>4. QED
  BY <1>1, <1>2, <1>3 DEF Replays

LEMMA ChainNext ==
    Typing /\ JournalIsChain /\ [Next]_vars => JournalIsChain'
<1> SUFFICES ASSUME Typing, JournalIsChain, [Next]_vars, NEW x \in Bls
             PROVE  Replays(journal'[x], status'[x])
  BY DEF JournalIsChain
<1> USE DEF Typing
<1>1. Replays(journal[x], status[x])
  BY DEF JournalIsChain
<1>2. CASE journal'[x] = journal[x] /\ status'[x] = status[x]
  BY <1>1, <1>2
<1>3. ASSUME NEW b \in Bls, register_bl(b), x = b
      PROVE  Replays(journal'[x], status'[x])
  BY <1>1, <1>3, MachineAssumption DEF register_bl, TypeOK, Replays
<1>4. ASSUME NEW c \in Callers, transition_bl_status(c)
      PROVE  Replays(journal'[x], status'[x])
  <2>1. PICK b \in Bls, r \in TransitionRequest, seen \in Status :
            Commits(c, b, r, seen) /\ event_row(seen, status[b], r) \in Event
    BY <1>4, CommitStep
  <2>2. CASE x = b
    <3> DEFINE e == event_row(seen, status[x], r)
    <3>1. e \in Event /\ e.from = status[x] /\ e.to = r.target
      BY <2>1, <2>2 DEF event_row
    <3>2. journal'[x] = Append(journal[x], e) /\ status'[x] = r.target
      BY <2>1, <2>2 DEF Commits, TypeOK
    <3>3. journal[x] \in Seq(Event) /\ status[x] \in Status
      BY <2>1, <2>2 DEF Commits, TypeOK
    <3> HIDE DEF e
    <3>4. QED
      BY <1>1, <3>1, <3>2, <3>3, ReplaysAppend
  <2>3. CASE x # b
    BY <1>2, <2>1, <2>3 DEF Commits, TypeOK
  <2>4. QED
    BY <2>2, <2>3
<1>5. QED
  BY <1>2, <1>3, <1>4
     DEF Next, vars, register_bl, transition, Abort, TypeOK

\* The journal of every item replays to its status, whatever the number of
\* processes and the order of their reads and commits.
THEOREM ChainInvariant == Spec => []JournalIsChain
<1>1. Init => JournalIsChain
  BY DEF Init, JournalIsChain, Replays
<1>2. QED
  BY <1>1, TypingInit, TypingNext, ChainNext, PTL DEF Spec

-----------------------------------------------------------------------------
\* Appending an event adds one return exactly when it leaves test or review.
LEMMA ReturnsAppend ==
    ASSUME NEW log \in Seq(Event), NEW e \in Event
    PROVE  /\ Cardinality(Returns(log)) \in Nat
           /\ Cardinality(Returns(Append(log, e))) =
                  IF e.to = "IN_PROGRESS" /\ e.from \in NO_GO_SOURCES
                  THEN Cardinality(Returns(log)) + 1
                  ELSE Cardinality(Returns(log))
<1> DEFINE n == Len(log)
           new == Append(log, e)
<1>1. /\ n \in Nat
      /\ Len(new) = n + 1
      /\ new[n + 1] = e
      /\ \A i \in 1..n : new[i] = log[i]
  OBVIOUS
<1>2. IsFiniteSet(Returns(log)) /\ n + 1 \notin Returns(log)
  <2>1. IsFiniteSet(1..n)
    BY <1>1, FS_Interval
  <2>2. Returns(log) \subseteq 1..n
    BY DEF Returns
  <2>3. QED
    BY <1>1, <2>1, <2>2, FS_Subset
<1>3. Returns(new) = IF e.to = "IN_PROGRESS" /\ e.from \in NO_GO_SOURCES
                     THEN Returns(log) \cup {n + 1}
                     ELSE Returns(log)
  <2> HIDE DEF new
  <2>1. ASSUME NEW i \in 1..n PROVE i \in Returns(new) <=> i \in Returns(log)
    BY <1>1 DEF Returns
  <2>2. n + 1 \in Returns(new) <=>
            e.to = "IN_PROGRESS" /\ e.from \in NO_GO_SOURCES
    BY <1>1 DEF Returns
  <2>3. Returns(new) \subseteq 1..(n + 1) /\ Returns(log) \subseteq 1..n
    BY <1>1 DEF Returns
  <2>4. ASSUME NEW i \in 1..(n + 1)
        PROVE  i \in Returns(new) <=>
                   \/ i \in Returns(log)
                   \/ /\ i = n + 1
                      /\ e.to = "IN_PROGRESS"
                      /\ e.from \in NO_GO_SOURCES
    <3>1. CASE i \in 1..n
      BY <1>1, <2>1, <3>1
    <3>2. CASE i = n + 1
      BY <1>2, <2>2, <3>2
    <3>3. QED
      BY <1>1, <3>1, <3>2
  <2>5. Returns(log) \subseteq 1..(n + 1) /\ n + 1 \in 1..(n + 1)
    BY <1>1, <2>3
  <2>6. CASE e.to = "IN_PROGRESS" /\ e.from \in NO_GO_SOURCES
    BY <2>3, <2>4, <2>5, <2>6
  <2>7. CASE ~ (e.to = "IN_PROGRESS" /\ e.from \in NO_GO_SOURCES)
    BY <2>3, <2>4, <2>5, <2>7
  <2>8. QED
    BY <2>6, <2>7
<1>4. Cardinality(Returns(log)) \in Nat
  BY <1>2, FS_CardinalityType
<1>5. Cardinality(Returns(log) \cup {n + 1}) = Cardinality(Returns(log)) + 1
  BY <1>2, FS_AddElement
<1>6. QED
  BY <1>3, <1>4, <1>5

LEMMA IterationNext ==
    Typing /\ JournalIsChain /\ IterationMatchesJournal /\ [Next]_vars
        => IterationMatchesJournal'
<1> SUFFICES ASSUME Typing, JournalIsChain, IterationMatchesJournal,
                    [Next]_vars, NEW x \in Bls, status'[x] # Unregistered
             PROVE  iteration'[x] = Cardinality(Returns(journal'[x])) + 1
  BY DEF IterationMatchesJournal
<1> USE DEF Typing
<1>1. CASE /\ journal'[x] = journal[x]
           /\ status'[x] = status[x]
           /\ iteration'[x] = iteration[x]
  BY <1>1 DEF IterationMatchesJournal
<1>2. ASSUME NEW b \in Bls, register_bl(b), x = b
      PROVE  iteration'[x] = Cardinality(Returns(journal'[x])) + 1
  <2>1. Len(journal[x]) = 0
    BY <1>2 DEF register_bl, JournalIsChain, Replays
  <2>2. Returns(journal[x]) = {}
    BY <2>1 DEF Returns
  <2>3. QED
    BY <1>2, <2>2, FS_EmptySet DEF register_bl, TypeOK
<1>3. ASSUME NEW c \in Callers, transition_bl_status(c)
      PROVE  iteration'[x] = Cardinality(Returns(journal'[x])) + 1
  <2>1. PICK b \in Bls, r \in TransitionRequest, seen \in Status :
            Commits(c, b, r, seen) /\ event_row(seen, status[b], r) \in Event
    BY <1>3, CommitStep
  <2>2. CASE x = b
    <3> DEFINE e == event_row(seen, status[x], r)
    <3>1. e \in Event /\ e.from = status[x] /\ e.to = r.target
      BY <2>1, <2>2 DEF event_row
    <3>2. /\ journal'[x] = Append(journal[x], e)
          /\ iteration'[x] = next_iteration(iteration[x], e.from, e.to)
          /\ journal[x] \in Seq(Event)
      BY <2>1, <2>2, <3>1 DEF Commits, TypeOK
    <3>3. iteration[x] = Cardinality(Returns(journal[x])) + 1
      BY <2>1, <2>2, MachineAssumption DEF Commits, IterationMatchesJournal
    <3> HIDE DEF e
    <3>4. QED
      BY <3>1, <3>2, <3>3, ReturnsAppend DEF next_iteration
  <2>3. CASE x # b
    BY <1>1, <2>1, <2>3 DEF Commits, TypeOK
  <2>4. QED
    BY <2>2, <2>3
<1>4. QED
  BY <1>1, <1>2, <1>3
     DEF Next, vars, register_bl, transition, Abort, TypeOK

\* The iterations table agrees with the journal, for any number of processes.
THEOREM IterationInvariant == Spec => []IterationMatchesJournal
<1>1. Init => JournalIsChain /\ IterationMatchesJournal
  BY DEF Init, JournalIsChain, Replays, IterationMatchesJournal
<1>2. QED
  BY <1>1, TypingInit, TypingNext, ChainNext, IterationNext, PTL DEF Spec

-----------------------------------------------------------------------------
\* What is pending passed the check, against the status it recorded.
PendingChecked ==
    \A c \in Callers :
        call[c] # Idle => can_transition(call[c].seen, call[c].request)

LEMMA CheckedInit == Init => PendingChecked
  BY DEF Init, PendingChecked

LEMMA CheckedNext ==
    Typing /\ PendingChecked /\ [Next]_vars => PendingChecked'
<1> SUFFICES ASSUME Typing, PendingChecked, [Next]_vars PROVE PendingChecked'
  OBVIOUS
<1> USE DEF Typing
<1>1. CASE call' = call
  BY <1>1 DEF PendingChecked
<1>2. ASSUME NEW c \in Callers, NEW b \in Bls, NEW r \in TransitionRequest,
             transition(c, b, r)
      PROVE  PendingChecked'
  <2>1. can_transition(status[b], r)
    BY <1>2 DEF transition, permitted
  <2>2. call' = [call EXCEPT ![c] = [bl |-> b, seen |-> status[b], request |-> r]]
    BY <1>2 DEF transition
  <2>3. QED
    BY <2>1, <2>2 DEF PendingChecked, TypeOK
<1>3. ASSUME NEW c \in Callers, call' = [call EXCEPT ![c] = Idle]
      PROVE  PendingChecked'
  BY <1>3 DEF PendingChecked, TypeOK
<1>4. QED
  BY <1>1, <1>2, <1>3 DEF Next, vars, register_bl, transition_bl_status, Abort

\* The row of a request that is legal from its from_status is a legal event.
LEMMA FreshRowIsLegal ==
    ASSUME NEW seen \in Status, NEW current \in Status,
           NEW r \in TransitionRequest, can_transition(current, r)
    PROVE  LegalEvent(event_row(seen, current, r))
<1>1. r = [target |-> r.target, no_go |-> r.no_go,
           privileged_reopen |-> r.privileged_reopen]
  BY DEF TransitionRequest
<1>2. QED
  BY <1>1 DEF LegalEvent, event_row

\* A commit writes an illegal edge only when its check went stale.
LEMMA CommitLegalOrStale ==
    ASSUME Typing, PendingChecked, NEW c \in Callers, NEW b \in Bls,
           NEW r \in TransitionRequest, NEW seen \in Status,
           Commits(c, b, r, seen), call[c] # Idle
    PROVE  \/ LegalEvent(event_row(seen, status[b], r))
           \/ c \in PendingOn(b) /\ call[c].seen # status[b]
<1>1. call[c].bl = b /\ call[c].seen = seen /\ call[c].request = r
  BY DEF Commits
<1>2. CASE seen = status[b]
  <2>1. can_transition(status[b], r)
    BY <1>1, <1>2 DEF PendingChecked
  <2>2. status[b] \in Status
    BY DEF Commits
  <2>3. QED
    BY <2>1, <2>2, FreshRowIsLegal
<1>3. CASE seen # status[b]
  BY <1>1, <1>3 DEF PendingOn
<1>4. QED
  BY <1>2, <1>3

\* Only a race writes an illegal edge: an event that is not legal is committed by
\* a call on that item whose check no longer matches the status.
THEOREM RaceOnly == Spec => IllegalOnlyByRace
<1> DEFINE OnlyByRace(b) ==
        Len(journal'[b]) > Len(journal[b]) =>
            \/ LegalEvent(journal'[b][Len(journal'[b])])
            \/ \E c \in PendingOn(b) : call[c].seen # status[b]
<1>1. Typing /\ PendingChecked /\ [Next]_vars => [\A b \in Bls : OnlyByRace(b)]_vars
  <2> SUFFICES ASSUME Typing, PendingChecked, [Next]_vars, NEW x \in Bls
               PROVE  OnlyByRace(x)
    OBVIOUS
  <2>1. CASE journal' = journal
    BY <2>1 DEF Typing, TypeOK
  <2>2. ASSUME NEW c \in Callers, transition_bl_status(c) PROVE OnlyByRace(x)
    <3>1. PICK b \in Bls, r \in TransitionRequest, seen \in Status :
              Commits(c, b, r, seen) /\ event_row(seen, status[b], r) \in Event
      BY <2>2, CommitStep DEF Typing
    <3>2. call[c] # Idle
      BY <2>2 DEF transition_bl_status
    <3>3. \/ LegalEvent(event_row(seen, status[b], r))
          \/ c \in PendingOn(b) /\ call[c].seen # status[b]
      BY <3>1, <3>2, CommitLegalOrStale
    <3>4. CASE x = b
      <4> DEFINE e == event_row(seen, status[x], r)
      <4>1. journal'[x] = Append(journal[x], e) /\ journal[x] \in Seq(Event)
        BY <3>1, <3>4 DEF Commits, Typing, TypeOK
      <4>2. e \in Event
        BY <3>1, <3>4
      <4>3. journal'[x][Len(journal'[x])] = e
        <5> HIDE DEF e
        <5>1. QED
          BY <4>1, <4>2
      <4> HIDE DEF e
      <4>4. LegalEvent(e) \/ \E d \in PendingOn(x) : call[d].seen # status[x]
        BY <3>3, <3>4 DEF e
      <4>5. QED
        BY <4>3, <4>4
    <3>5. CASE x # b
      <4>1. journal'[x] = journal[x] /\ journal[x] \in Seq(Event)
        BY <3>1, <3>5 DEF Commits, Typing, TypeOK
      <4>2. QED
        BY <4>1
    <3>6. QED
      BY <3>4, <3>5
  <2>3. QED
    BY <2>1, <2>2 DEF Next, vars, register_bl, transition, Abort
<1>2. QED
  BY <1>1, TypingInit, TypingNext, CheckedInit, CheckedNext, PTL
     DEF Spec, IllegalOnlyByRace

-----------------------------------------------------------------------------
(***************************************************************************)
(* With one process the check and the commit can't be separated by another *)
(* commit: what is pending is fresh, the journal is legal, and the machine *)
(* implements the abstract life cycle.                                     *)
(***************************************************************************)
PendingFresh ==
    \A c \in Callers : call[c] # Idle => call[c].seen = status[call[c].bl]

LEMMA FreshNext ==
    ASSUME OneCaller
    PROVE  Typing /\ PendingFresh /\ [Next]_vars => PendingFresh'
<1> SUFFICES ASSUME Typing, PendingFresh, [Next]_vars PROVE PendingFresh'
  OBVIOUS
<1> USE DEF Typing
<1>1. CASE UNCHANGED vars
  BY <1>1 DEF PendingFresh, vars
<1>2. ASSUME NEW b \in Bls, register_bl(b) PROVE PendingFresh'
  BY <1>2 DEF register_bl, PendingFresh, PendingRegistered, TypeOK, Pending
<1>3. ASSUME NEW c \in Callers, NEW b \in Bls, NEW r \in TransitionRequest,
             transition(c, b, r)
      PROVE  PendingFresh'
  BY <1>3 DEF transition, PendingFresh, TypeOK
<1>4. ASSUME NEW c \in Callers, call' = [call EXCEPT ![c] = Idle]
      PROVE  PendingFresh'
  <2>1. \A d \in Callers : call'[d] = Idle
    BY <1>4 DEF OneCaller, TypeOK
  <2>2. QED
    BY <2>1 DEF PendingFresh
<1>5. QED
  BY <1>1, <1>2, <1>3, <1>4 DEF Next, transition_bl_status, Abort

\* The abstract life cycle reads the same transition table.
LEMMA SameTable ==
    /\ Lifecycle!TransitionRequest = TransitionRequest
    /\ Lifecycle!NO_GO_SOURCES = NO_GO_SOURCES
    /\ \A s, r : Lifecycle!can_transition(s, r) = can_transition(s, r)
<1>1. Lifecycle!Status = Status /\ Lifecycle!NO_GO_SOURCES = NO_GO_SOURCES
  BY DEF Lifecycle!Status, Status, Lifecycle!NO_GO_SOURCES, NO_GO_SOURCES
<1>2. Lifecycle!LEGAL_TRANSITIONS = LEGAL_TRANSITIONS
  BY <1>1 DEF Lifecycle!LEGAL_TRANSITIONS, LEGAL_TRANSITIONS
<1>3. QED
  BY <1>1, <1>2
     DEF Lifecycle!TransitionRequest, TransitionRequest,
         Lifecycle!can_transition, can_transition

\* A commit of a fresh call is one legal abstract transition.
LEMMA FreshCommitImplements ==
    ASSUME Typing, PendingChecked, PendingFresh, NEW c \in Callers,
           transition_bl_status(c)
    PROVE  \E b \in Bls, r \in TransitionRequest, seen \in Status :
               /\ Commits(c, b, r, seen)
               /\ event_row(seen, status[b], r) \in Event
               /\ can_transition(status[b], r)
               /\ Lifecycle!Transition(b, r)
<1>1. PICK b \in Bls, r \in TransitionRequest, seen \in Status :
          Commits(c, b, r, seen) /\ event_row(seen, status[b], r) \in Event
  BY CommitStep DEF Typing
<1>2. call[c] # Idle /\ call[c].bl = b /\ call[c].seen = seen /\ call[c].request = r
  BY <1>1 DEF Commits, transition_bl_status
<1>3. can_transition(status[b], r)
  BY <1>2 DEF PendingFresh, PendingChecked
<1>4. Lifecycle!Transition(b, r)
  BY <1>1, <1>3, SameTable, MachineAssumption
     DEF Lifecycle!Transition, Lifecycle!IterationAfter, Commits, next_iteration
<1>5. QED
  BY <1>1, <1>3, <1>4

\* One process never journals an illegal transition.
THEOREM SerialJournalIsLegal == ASSUME OneCaller PROVE Spec => []JournalIsLegal
<1> DEFINE Serial == Typing /\ PendingChecked /\ PendingFresh
<1>1. Init => Serial /\ JournalIsLegal
  BY TypingInit, CheckedInit DEF Init, PendingFresh, JournalIsLegal
<1>2. Serial /\ [Next]_vars => Serial'
  BY TypingNext, CheckedNext, FreshNext
<1>3. Serial /\ JournalIsLegal /\ [Next]_vars => JournalIsLegal'
  <2> SUFFICES ASSUME Serial, JournalIsLegal, [Next]_vars,
                      NEW x \in Bls, NEW i \in DOMAIN journal'[x]
               PROVE  LegalEvent(journal'[x][i])
    BY DEF JournalIsLegal
  <2>1. CASE journal' = journal
    BY <2>1 DEF JournalIsLegal
  <2>2. ASSUME NEW c \in Callers, transition_bl_status(c)
        PROVE  LegalEvent(journal'[x][i])
    <3>1. PICK b \in Bls, r \in TransitionRequest, seen \in Status :
              /\ Commits(c, b, r, seen)
              /\ event_row(seen, status[b], r) \in Event
              /\ can_transition(status[b], r)
      BY <2>2, FreshCommitImplements
    <3>2. LegalEvent(event_row(seen, status[b], r))
      BY <3>1, FreshRowIsLegal DEF Commits
    <3> DEFINE e == event_row(seen, status[b], r)
    <3>3. /\ journal[x] \in Seq(Event)
          /\ journal'[x] = IF x = b THEN Append(journal[x], e) ELSE journal[x]
      BY <3>1 DEF Commits, Typing, TypeOK
    <3>4. e \in Event /\ LegalEvent(e)
      BY <3>1, <3>2
    <3> HIDE DEF e
    <3>5. journal'[x][i] = e \/ (i \in DOMAIN journal[x] /\ journal'[x][i] = journal[x][i])
      BY <3>3, <3>4
    <3>6. QED
      BY <3>4, <3>5 DEF JournalIsLegal
  <2>3. QED
    BY <2>1, <2>2 DEF Next, vars, register_bl, transition, Abort
<1>4. QED
  BY <1>1, <1>2, <1>3, PTL DEF Spec

\* One process implements the abstract life cycle: every commit is one legal,
\* atomic transition, and every other step leaves status and iteration alone.
THEOREM SerialImplementsLifecycle == ASSUME OneCaller PROVE Spec => Lifecycle!Spec
<1> DEFINE Serial == Typing /\ PendingChecked /\ PendingFresh
<1>1. Init => Serial
  BY TypingInit, CheckedInit DEF Init, PendingFresh
<1>2. Serial /\ [Next]_vars => Serial'
  BY TypingNext, CheckedNext, FreshNext
<1>3. Init => Lifecycle!Init
  BY DEF Init, Lifecycle!Init
<1>4. Serial /\ [Next]_vars => [Lifecycle!Next]_<<status, iteration>>
  <2> SUFFICES ASSUME Serial, [Next]_vars
               PROVE  Lifecycle!Next \/ UNCHANGED <<status, iteration>>
    OBVIOUS
  <2>1. ASSUME NEW b \in Bls, register_bl(b) PROVE Lifecycle!Next
    BY <2>1 DEF register_bl, Lifecycle!Next, Lifecycle!Register
  <2>2. ASSUME NEW c \in Callers, transition_bl_status(c) PROVE Lifecycle!Next
    BY <2>2, FreshCommitImplements, SameTable DEF Lifecycle!Next
  <2>3. QED
    BY <2>1, <2>2 DEF Next, vars, transition, Abort
<1>5. QED
  BY <1>1, <1>2, <1>3, <1>4, PTL DEF Spec, Lifecycle!Spec, Lifecycle!lifecycleVars

-----------------------------------------------------------------------------
(* Functions defined by recursion, which forge plan's algorithms are.            *)

\* A set of natural numbers has a least element, unless it is empty.
LEMMA Least ==
  ASSUME NEW S \in SUBSET Nat, S # {}
  PROVE  \E n \in S : \A m \in S : n <= m
<1>1. PICK x \in S : \A y \in S : ~(<<y, x>> \in OpToRel(<, Nat))
  BY WFMin, NatLessThanWellFounded
<1>2. \A y \in S : ~(y < x)
  BY <1>1 DEF OpToRel
<1>3. QED
  BY <1>2

\* A function bounded by N takes its greatest value somewhere.
LEMMA Largest ==
  ASSUME NEW N \in Nat, NEW K, K # {}, NEW f \in [K -> 0..N]
  PROVE  \E x \in K : \A y \in K : f[y] <= f[x]
<1> DEFINE S == {n \in Nat : \E x \in K : n = N - f[x]}
<1>1. \A x \in K : f[x] \in Int /\ N - f[x] \in S
  OBVIOUS
<1>2. PICK n \in S : \A m \in S : n <= m
  BY <1>1, Least
<1>3. PICK x \in K : n = N - f[x]
  BY <1>2
<1>4. \A y \in K : n <= N - f[y]
  BY <1>1, <1>2
<1>5. \A y \in K : f[y] <= f[x]
  BY <1>1, <1>3, <1>4
<1>6. QED
  BY <1>5

\* Among subsets of a finite set, one has the most elements.
LEMMA Widest ==
  ASSUME NEW A, IsFiniteSet(A), NEW K \in SUBSET (SUBSET A), K # {}
  PROVE  \E B \in K : \A C \in K : Cardinality(C) <= Cardinality(B)
<1> DEFINE f == [B \in K |-> Cardinality(B)]
           N == Cardinality(A)
<1>1. N \in Nat
  BY FS_CardinalityType
<1>2. \A B \in K : Cardinality(B) \in 0..N
  BY <1>1, FS_Subset, FS_CardinalityType
<1> HIDE DEF N
<1>3. f \in [K -> 0..N]
  BY <1>2
<1>4. PICK B \in K : \A C \in K : f[C] <= f[B]
  BY <1>1, <1>3, Largest
<1>5. QED
  BY <1>4

\* The part of f over S.
Part(f, S) == [j \in S |-> f[j]]

\* Every set of arguments has one whose own definition, over pre, needs no other of the set.
Grounded(A, pre) == \A U \in SUBSET A : U # {} => \E i \in U : pre[i] \cap U = {}

\* G gives the value at an argument from the values that it needs.
Steps(A, pre, T, G) == \A i \in A : \A f \in [pre[i] -> T] : G[<<i, f>>] \in T

Solution(A, pre, T, G, D) == D \in [A -> T] /\ \A i \in A : D[i] = G[<<i, Part(D, pre[i])>>]

\* A grounded recursion has a solution.
LEMMA Recursion ==
  ASSUME NEW A, IsFiniteSet(A), NEW pre \in [A -> SUBSET A], Grounded(A, pre),
         NEW T, NEW G, Steps(A, pre, T, G)
  PROVE  \E D : Solution(A, pre, T, G, D)
<1> DEFINE Solves(B, D) ==
             /\ D \in [B -> T]
             /\ \A i \in B : pre[i] \subseteq B /\ D[i] = G[<<i, Part(D, pre[i])>>]
           Good == {B \in SUBSET A : \E D : Solves(B, D)}
<1>1. {} \in Good
  <2>1. Solves({}, [i \in {} |-> i])
    OBVIOUS
  <2>2. QED
    BY <2>1
<1>2. PICK B \in Good : \A C \in Good : Cardinality(C) <= Cardinality(B)
  <2> HIDE DEF Good
  <2>1. Good \subseteq SUBSET A
    BY DEF Good
  <2>2. QED
    BY <1>1, <2>1, Widest
<1>3. PICK D : Solves(B, D)
  OBVIOUS
<1>4. B = A
  <2> SUFFICES ASSUME A \ B # {} PROVE FALSE
    OBVIOUS
  <2>1. PICK i \in A \ B : pre[i] \cap (A \ B) = {}
    BY DEF Grounded
  <2>2. pre[i] \subseteq B
    BY <2>1
  <2> DEFINE C == B \cup {i}
             E == [j \in C |-> IF j = i THEN G[<<i, Part(D, pre[i])>>] ELSE D[j]]
  <2>3. Part(D, pre[i]) \in [pre[i] -> T]
    BY <1>3, <2>2 DEF Part
  <2>4. E \in [C -> T]
    BY <1>3, <2>3 DEF Steps
  <2>5. \A j \in C : pre[j] \subseteq B
    BY <1>3, <2>2
  <2>6. ASSUME NEW j \in C PROVE Part(E, pre[j]) = Part(D, pre[j])
    <3>1. \A k \in pre[j] : k \in B /\ k # i
      BY <2>1, <2>5
    <3>2. QED
      BY <3>1 DEF Part
  <2>7. ASSUME NEW j \in C PROVE E[j] = G[<<j, Part(D, pre[j])>>]
    BY <1>3
  <2> HIDE DEF E
  <2>8. \A j \in C : E[j] = G[<<j, Part(E, pre[j])>>]
    BY <2>6, <2>7
  <2>9. C \in Good
    BY <2>1, <2>4, <2>5, <2>8
  <2> HIDE DEF Good
  <2>10. Cardinality(C) <= Cardinality(B)
    BY <1>2, <2>9
  <2>11. IsFiniteSet(B) /\ Cardinality(B) \in Nat
    BY <1>2, FS_Subset, FS_CardinalityType DEF Good
  <2>12. Cardinality(C) = Cardinality(B) + 1
    BY <2>1, <2>11, FS_AddElement
  <2>13. QED
    BY <2>10, <2>11, <2>12
<1>5. QED
  BY <1>3, <1>4 DEF Solution

\* D is a followed by what G makes of each value, n times.
Counted(n, T, a, G, D) ==
  D \in [0..n -> T] /\ D[0] = a /\ \A m \in 1..n : D[m] = G[<<m, D[m - 1]>>]

\* Recursion that counts up from 0.
LEMMA Counting ==
  ASSUME NEW N \in Nat, NEW T, NEW a \in T, NEW G,
         \A n \in 1..N : \A x \in T : G[<<n, x>>] \in T
  PROVE  \E D : Counted(N, T, a, G, D)
<1> DEFINE A == 0..N
           pre == [n \in A |-> IF n = 0 THEN {} ELSE {n - 1}]
           Dom == UNION {{<<n, f>> : f \in [pre[n] -> T]} : n \in A}
           H == [w \in Dom |-> IF w[1] = 0 THEN a ELSE G[<<w[1], w[2][w[1] - 1]>>]]
<1>1. IsFiniteSet(A) /\ pre \in [A -> SUBSET A]
  BY FS_Interval
<1>2. ASSUME NEW U \in SUBSET A, U # {} PROVE \E n \in U : pre[n] \cap U = {}
  <2>1. PICK n \in U : \A m \in U : n <= m
    BY <1>2, Least
  <2>2. QED
    BY <2>1
<1>3. ASSUME NEW n \in A, NEW f \in [pre[n] -> T]
      PROVE  H[<<n, f>>] = (IF n = 0 THEN a ELSE G[<<n, f[n - 1]>>]) /\ H[<<n, f>>] \in T
  <2>1. <<n, f>> \in Dom
    <3> HIDE DEF pre, A
    <3>1. <<n, f>> \in {<<n, g>> : g \in [pre[n] -> T]}
      OBVIOUS
    <3>2. QED
      BY <3>1
  <2>2. H[<<n, f>>] = IF n = 0 THEN a ELSE G[<<n, f[n - 1]>>]
    BY <2>1
  <2>3. n # 0 => n \in 1..N /\ n - 1 \in pre[n]
    OBVIOUS
  <2> HIDE DEF H, Dom
  <2>4. n # 0 => f[n - 1] \in T
    BY <2>3
  <2> HIDE DEF pre
  <2>5. QED
    BY <2>2, <2>3, <2>4
<1> HIDE DEF H, Dom
<1>4. PICK D \in [A -> T] : \A n \in A : D[n] = H[<<n, Part(D, pre[n])>>]
  <2>1. Steps(A, pre, T, H)
    BY <1>3 DEF Steps
  <2>2. Grounded(A, pre)
    BY <1>2 DEF Grounded
  <2> HIDE DEF A, pre
  <2>3. PICK D : Solution(A, pre, T, H, D)
    BY <1>1, <2>1, <2>2, Recursion
  <2>4. QED
    BY <2>3 DEF Solution
<1>5. ASSUME NEW n \in A PROVE D[n] = IF n = 0 THEN a ELSE G[<<n, D[n - 1]>>]
  <2> DEFINE f == Part(D, pre[n])
  <2>1. f \in [pre[n] -> T]
    BY <1>1, <1>4 DEF Part
  <2>2. n # 0 => f[n - 1] = D[n - 1]
    BY DEF Part
  <2>3. D[n] = H[<<n, f>>]
    BY <1>4
  <2> HIDE DEF f
  <2>4. QED
    BY <1>3, <2>1, <2>2, <2>3
<1>6. D[0] = a /\ \A n \in 1..N : D[n] = G[<<n, D[n - 1]>>]
  <2>1. 0 \in A /\ \A n \in 1..N : n \in A /\ n # 0
    OBVIOUS
  <2>2. QED
    BY <1>5, <2>1
<1>7. QED
  BY <1>4, <1>6 DEF Counted

-----------------------------------------------------------------------------
(* The backlog that forge plan reads.                                            *)

N == Len(Order)

\* The backlog is finite.
LEMMA BacklogSize ==
  /\ N \in Nat /\ DOMAIN Order = 1..N
  /\ IsFiniteSet(Items) /\ Cardinality(Items) \in Nat /\ Cardinality(Items) <= N
<1>1. N \in Nat /\ Order \in [1..N -> Items]
  BY OrderAssumption, LenProperties DEF N
<1>2. Order \in Surjection(1..N, Items)
  BY <1>1 DEF Items, Surjection
<1>3. IsFiniteSet(1..N) /\ Cardinality(1..N) = N
  BY <1>1, FS_Interval
<1>4. IsFiniteSet(Items) /\ Cardinality(Items) <= N
  BY <1>2, <1>3, FS_Surjection
<1>5. QED
  BY <1>1, <1>4, FS_CardinalityType

\* Only dependencies are edges from an item.
LEMMA ItemPredecessors ==
  ASSUME depends \in [Items -> SUBSET Items], NEW i \in Items
  PROVE  predecessors(i) \cap Items = depends[i]
<1>1. version_tags(i) \subseteq SeqRange(Versions)
  BY MilestoneAssumption DEF version_tags, SeqRange
<1>2. QED
  BY <1>1, TagAssumption DEF predecessors

---------------------------------------------------------------------------
(* Waves.                                                                        *)

\* The rounds of compute_waves.
LEMMA WaveRounds ==
  ASSUME NEW r
  PROVE  /\ _done(r) \in [0..N -> SUBSET Items]
         /\ _done(r)[0] = {i \in Items : r[i] = "DONE"}
         /\ \A n \in 1..N : _done(r)[n] = _done(r)[n - 1] \cup _ready(_done(r)[n - 1], r)
<1> DEFINE first == {i \in Items : r[i] = "DONE"}
           T == SUBSET Items
           next(S) == S \cup _ready(S, r)
           G == [w \in (1..N) \X T |-> next(w[2])]
           Is(f) == f = [n \in 0..N |-> IF n = 0 THEN first ELSE next(f[n - 1])]
           done == CHOOSE f : Is(f)
<1>1. N \in Nat
  BY BacklogSize
<1>2. \A S \in T : next(S) \in T
  BY DEF _ready
<1>3. \A n \in 1..N : \A S \in T : G[<<n, S>>] = next(S)
  OBVIOUS
<1>4. first \in T
  OBVIOUS
<1>5. PICK D \in [0..N -> T] : D[0] = first /\ \A n \in 1..N : D[n] = G[<<n, D[n - 1]>>]
  <2> HIDE DEF first, T, G, next
  <2>1. \A n \in 1..N : \A S \in T : G[<<n, S>>] \in T
    BY <1>2, <1>3
  <2>2. PICK D : Counted(N, T, first, G, D)
    BY <1>1, <1>4, <2>1, Counting
  <2>3. QED
    BY <2>2 DEF Counted
<1> HIDE DEF G, next, first, T
<1>6. Is(D)
  <2>1. ASSUME NEW n \in 0..N PROVE D[n] = IF n = 0 THEN first ELSE next(D[n - 1])
    <3>1. CASE n = 0
      BY <1>5, <3>1
    <3>2. CASE n # 0
      <4>1. n \in 1..N /\ n - 1 \in 0..N
        BY <1>1, <3>2
      <4>2. QED
        BY <1>3, <1>5, <3>2, <4>1
    <3>3. QED
      BY <3>1, <3>2
  <2>2. QED
    BY <1>5, <2>1
<1>7. Is(done)
  BY <1>6
<1>8. _done(r) = done
  BY DEF _done, N, first, next
<1> HIDE DEF done
<1>9. done \in [0..N -> T]
  <2> DEFINE Bad == {n \in 0..N : done[n] \notin T}
  <2>1. SUFFICES Bad = {}
    BY <1>7
  <2>2. SUFFICES ASSUME Bad # {} PROVE FALSE
    OBVIOUS
  <2>3. Bad \in SUBSET Nat
    OBVIOUS
  <2>4. PICK n \in Bad : \A m \in Bad : n <= m
    <3> HIDE DEF Bad
    <3>1. QED
      BY <2>2, <2>3, Least
  <2>5. n # 0
    BY <1>4, <1>7
  <2>6. n - 1 \in 0..N /\ n - 1 \notin Bad
    BY <1>1, <2>4, <2>5
  <2>7. done[n] = next(done[n - 1])
    BY <1>7, <2>5
  <2>8. QED
    BY <1>2, <2>6, <2>7
<1>10. done[0] = first /\ \A n \in 1..N : done[n] = next(done[n - 1])
  <2>1. 0 \in 0..N /\ \A n \in 1..N : n \in 0..N /\ n # 0
    BY <1>1
  <2>2. QED
    BY <1>7, <2>1
<1>11. QED
  BY <1>8, <1>9, <1>10 DEF T, first, next

\* Nothing that is done, or in a wave, ceases to be.
LEMMA WavesGrow ==
  ASSUME NEW r, NEW m \in 0..N, NEW n \in 0..N, m <= n
  PROVE  _done(r)[m] \subseteq _done(r)[n]
<1> DEFINE D == _done(r)
           Bad == {k \in m..N : ~(D[m] \subseteq D[k])}
<1>1. N \in Nat
  BY BacklogSize
<1>2. SUFFICES ASSUME Bad # {} PROVE FALSE
  OBVIOUS
<1>3. PICK k \in Bad : \A l \in Bad : k <= l
  <2>1. Bad \in SUBSET Nat
    OBVIOUS
  <2> HIDE DEF Bad
  <2>2. QED
    BY <1>2, <2>1, Least
<1>4. k # m
  OBVIOUS
<1>5. k - 1 \in m..N /\ k \in 1..N /\ k - 1 \notin Bad
  BY <1>1, <1>3, <1>4
<1>6. D[k - 1] \subseteq D[k]
  BY <1>5, WaveRounds
<1> HIDE DEF D
<1>7. QED
  BY <1>5, <1>6

\* The waves: each is what a round adds.
LEMMA WaveIsRound ==
  ASSUME NEW r, NEW n \in DOMAIN compute_waves(r)
  PROVE  /\ n \in 1..N
         /\ compute_waves(r)[n] = _ready(_done(r)[n - 1], r)
         /\ \A k \in 1..n : k \in DOMAIN compute_waves(r)
<1> DEFINE wave(k) == _ready(_done(r)[k - 1], r)
           rounds == {m \in 1..N : \A k \in 1..m : wave(k) # {}}
<1>1. N \in Nat
  BY BacklogSize
<1>2. compute_waves(r) = [k \in rounds |-> wave(k)]
  BY DEF compute_waves, N
<1> HIDE DEF wave
<1>3. n \in rounds /\ compute_waves(r)[n] = wave(n) /\ DOMAIN compute_waves(r) = rounds
  BY <1>2
<1>4. \A k \in 1..n : k \in rounds
  BY <1>1, <1>3
<1>5. QED
  BY <1>3, <1>4 DEF wave

\* An item is in one wave at most, to be done, and waits for earlier waves only.
LEMMA WaveIsLayer ==
  ASSUME NEW r, depends \in [Items -> SUBSET Items],
         NEW n \in DOMAIN compute_waves(r), NEW i \in compute_waves(r)[n]
  PROVE  /\ i \in Items /\ r[i] \in READY_STATUSES
         /\ \A m \in DOMAIN compute_waves(r) : i \in compute_waves(r)[m] => m = n
         /\ \A d \in depends[i] : \/ r[d] = "DONE"
                                  \/ \E m \in DOMAIN compute_waves(r) :
                                       m < n /\ d \in compute_waves(r)[m]
<1> DEFINE W == compute_waves(r)
           D == _done(r)
<1>1. N \in Nat
  BY BacklogSize
<1>2. \A m \in DOMAIN W : m \in 1..N /\ W[m] = _ready(D[m - 1], r)
  BY WaveIsRound
<1>3. \A m \in 1..N : D[m] = D[m - 1] \cup _ready(D[m - 1], r)
  BY WaveRounds
<1>4. \A j, m : m \in DOMAIN W /\ j \in W[m] => j \in D[m] /\ j \notin D[m - 1]
  BY <1>2, <1>3 DEF _ready
<1>5. i \in Items /\ r[i] \in READY_STATUSES /\ satisfied(i, D[n - 1], r)
  BY <1>2 DEF _ready
<1> HIDE DEF W, D
<1>6. ASSUME NEW m \in DOMAIN W, NEW k \in DOMAIN W, m < k, i \in W[m], i \in W[k] PROVE FALSE
  <2>1. m \in 0..N /\ k - 1 \in 0..N /\ m <= k - 1
    BY <1>1, <1>2, <1>6
  <2>2. D[m] \subseteq D[k - 1]
    BY <2>1, WavesGrow DEF D
  <2>3. QED
    BY <1>4, <1>6, <2>2
<1>7. \A m \in DOMAIN W : i \in W[m] => m = n
  <2>1. i \in W[n] /\ n \in DOMAIN W
    BY DEF W
  <2>2. \A m \in DOMAIN W : m \in Int
    BY <1>1, <1>2
  <2>3. QED
    BY <1>6, <2>1, <2>2
<1>8. ASSUME NEW d \in depends[i], r[d] # "DONE"
      PROVE  \E m \in DOMAIN W : m < n /\ d \in W[m]
  <2>1. d \in D[n - 1]
    BY <1>5, <1>8, ItemPredecessors DEF satisfied
  <2> DEFINE In == {k \in 0..(n - 1) : d \in D[k]}
  <2>2. n - 1 \in In /\ In \in SUBSET Nat
    BY <1>1, <1>2, <2>1 DEF W
  <2>3. PICK k \in In : \A l \in In : k <= l
    <3> HIDE DEF In
    <3>1. QED
      BY <2>2, Least
  <2>4. k # 0
    <3>1. D[0] = {j \in Items : r[j] = "DONE"}
      BY WaveRounds DEF D
    <3>2. QED
      BY <1>8, <3>1
  <2>5. k \in 1..(n - 1) /\ k - 1 \in 0..(n - 1) /\ k - 1 \notin In /\ k < n
    BY <1>1, <1>2, <2>3, <2>4 DEF W
  <2>6. d \in D[k] /\ d \notin D[k - 1]
    BY <2>3, <2>5
  <2>7. k \in DOMAIN W
    BY <2>5, <1>1, <1>2, WaveIsRound DEF W
  <2>8. d \in W[k]
    BY <1>2, <1>3, <2>6, <2>7
  <2>9. QED
    BY <2>5, <2>7, <2>8
<1>9. QED
  BY <1>5, <1>7, <1>8 DEF W

\* An item left out waits for another that is neither done nor in a wave.
LEMMA LeftOutWaits ==
  ASSUME NEW r, depends \in [Items -> SUBSET Items],
         NEW i \in Items, r[i] \in READY_STATUSES,
         \A n \in DOMAIN compute_waves(r) : i \notin compute_waves(r)[n]
  PROVE  \E d \in depends[i] : /\ r[d] # "DONE"
                               /\ \A n \in DOMAIN compute_waves(r) : d \notin compute_waves(r)[n]
<1> DEFINE W == compute_waves(r)
           D == _done(r)
           Empty == {n \in 1..N : _ready(D[n - 1], r) = {}}
           In == UNION {W[n] : n \in DOMAIN W}
<1>1. N \in Nat /\ IsFiniteSet(Items) /\ Cardinality(Items) \in Nat /\ Cardinality(Items) <= N
  BY BacklogSize
<1>2. D \in [0..N -> SUBSET Items]
  BY WaveRounds
<1>3. D[0] = {j \in Items : r[j] = "DONE"}
  BY WaveRounds
<1>4. \A n \in 1..N : D[n] = D[n - 1] \cup _ready(D[n - 1], r)
  BY WaveRounds
<1>5. DOMAIN W = {m \in 1..N : \A k \in 1..m : k \notin Empty}
  BY <1>1 DEF compute_waves, N
<1>6. \A m \in DOMAIN W : W[m] = _ready(D[m - 1], r)
  BY WaveIsRound
<1> HIDE DEF W, D
\* What has been found by the last round is what is done, and the waves.
<1>7. ASSUME NEW n \in 0..N, \A k \in 1..n : k \notin Empty
      PROVE  D[n] \subseteq D[0] \cup In
  <2> DEFINE Bad == {m \in 0..n : ~(D[m] \subseteq D[0] \cup In)}
  <2>1. SUFFICES ASSUME Bad # {} PROVE FALSE
    BY <1>1
  <2>2. PICK m \in Bad : \A l \in Bad : m <= l
    <3>1. Bad \in SUBSET Nat
      OBVIOUS
    <3> HIDE DEF Bad
    <3>2. QED
      BY <2>1, <3>1, Least
  <2>3. m \in 0..n /\ m # 0
    OBVIOUS
  <2>4. m - 1 \in 0..n /\ m - 1 \notin Bad /\ m \in 1..N
    BY <1>1, <2>2, <2>3
  <2>5. m \in DOMAIN W
    BY <1>1, <1>5, <1>7, <2>3, <2>4
  <2>6. D[m] = D[m - 1] \cup W[m]
    BY <1>4, <1>6, <2>4, <2>5
  <2>7. W[m] \subseteq In
    BY <2>5
  <2> HIDE DEF In
  <2>8. QED
    BY <2>4, <2>6, <2>7
\* Some round finds nothing, or everything was found.
<1>8. PICK n \in 0..N : /\ \A k \in 1..n : k \notin Empty
                        /\ _ready(D[n], r) = {}
  <2>1. CASE Empty # {}
    <3>1. PICK m \in Empty : \A l \in Empty : m <= l
      <4>1. Empty \in SUBSET Nat
        OBVIOUS
      <4> HIDE DEF Empty
      <4>2. QED
        BY <2>1, <4>1, Least
    <3>2. m - 1 \in 0..N /\ _ready(D[m - 1], r) = {}
      BY <1>1
    <3>3. \A k \in 1..(m - 1) : k \notin Empty
      BY <3>1
    <3>4. QED
      BY <3>2, <3>3
  <2>2. CASE Empty = {}
    <3> DEFINE Small == {m \in 0..N : Cardinality(D[m]) < m}
    <3>1. \A m \in 0..N : IsFiniteSet(D[m]) /\ Cardinality(D[m]) \in Nat
      BY <1>1, <1>2, FS_Subset, FS_CardinalityType
    <3>2. Small = {}
      <4>1. SUFFICES ASSUME Small # {} PROVE FALSE
        OBVIOUS
      <4>2. PICK m \in Small : \A l \in Small : m <= l
        <5>1. Small \in SUBSET Nat
          OBVIOUS
        <5> HIDE DEF Small
        <5>2. QED
          BY <4>1, <5>1, Least
      <4>3. m # 0
        BY <3>1
      <4>4. m \in 1..N /\ m - 1 \in 0..N /\ m - 1 \notin Small
        BY <1>1, <4>2, <4>3
      <4>5. D[m] = D[m - 1] \cup _ready(D[m - 1], r) /\ _ready(D[m - 1], r) # {}
        BY <1>4, <2>2, <4>4
      <4>6. D[m - 1] \subseteq D[m] /\ D[m - 1] # D[m]
        BY <4>5 DEF _ready
      <4>7. Cardinality(D[m - 1]) < Cardinality(D[m])
        <5>1. D[m - 1] \in SUBSET D[m]
          BY <4>6
        <5>2. Cardinality(D[m - 1]) <= Cardinality(D[m]) /\ Cardinality(D[m - 1]) # Cardinality(D[m])
          BY <3>1, <4>4, <4>6, <5>1, FS_Subset
        <5>3. QED
          BY <3>1, <4>4, <5>2
      <4>8. QED
        BY <3>1, <4>4, <4>7
    <3>3. N \in 0..N /\ N \notin Small
      BY <1>1, <3>2
    <3>4. Cardinality(D[N]) >= Cardinality(Items)
      BY <1>1, <3>1, <3>3
    <3>5. D[N] \in SUBSET Items /\ Cardinality(D[N]) <= Cardinality(Items)
      BY <1>1, <1>2, <3>3, FS_Subset
    <3>6. D[N] = Items
      BY <1>1, <3>1, <3>3, <3>4, <3>5, FS_Subset
    <3>7. QED
      BY <2>2, <3>3, <3>6 DEF _ready
  <2>3. QED
    BY <2>1, <2>2
<1>9. i \notin D[n]
  <2>1. i \notin In
    BY DEF W
  <2>2. i \notin D[0]
    BY <1>3 DEF READY_STATUSES
  <2> HIDE DEF In
  <2>3. QED
    BY <1>7, <1>8, <2>1, <2>2
<1>10. PICK d \in depends[i] : r[d] = "BLOCKED" \/ d \notin D[n]
  <2>1. ~satisfied(i, D[n], r)
    BY <1>8, <1>9 DEF _ready
  <2>2. QED
    BY <2>1, ItemPredecessors DEF satisfied
<1>11. ASSUME NEW m \in DOMAIN W PROVE d \notin W[m]
  <2>1. CASE r[d] = "BLOCKED"
    BY <1>6, <2>1 DEF _ready, READY_STATUSES
  <2>2. CASE d \notin D[n]
    <3>1. m \in 1..N /\ m <= n
      <4>1. m \in 1..N /\ \A k \in 1..m : k \notin Empty
        BY <1>5
      <4>2. n + 1 \in 1..m => n + 1 \in Empty
        BY <1>1, <1>8, <4>1
      <4>3. QED
        BY <1>1, <4>1, <4>2
    <3>2. W[m] \subseteq D[m]
      BY <1>4, <1>6, <3>1
    <3>3. D[m] \subseteq D[n]
      BY <1>1, <3>1, WavesGrow DEF D
    <3>4. QED
      BY <2>2, <3>2, <3>3
  <2>3. QED
    BY <1>10, <2>1, <2>2
<1>12. r[d] # "DONE"
  <2>1. CASE d \notin D[n]
    <3>1. D[0] \subseteq D[n]
      BY <1>1, WavesGrow DEF D
    <3>2. QED
      BY <1>3, <2>1, <3>1
  <2>2. QED
    BY <1>10, <2>1
<1>13. QED
  BY <1>11, <1>12 DEF W

---------------------------------------------------------------------------
(* The waves of a version.                                                       *)

Inside(W, v, n) == {i \in W[n] : VersionOf[i] = v}
Kept(W, v) == {n \in DOMAIN W : Inside(W, v, n) # {}}
Rank(W, v, n) == Cardinality({m \in Kept(W, v) : m <= n})

\* The waves kept are numbered from 1, in their order.
LEMMA RanksCount ==
  ASSUME NEW W, DOMAIN W \subseteq 1..N, NEW v
  PROVE  /\ Cardinality(Kept(W, v)) \in Nat /\ Cardinality(Kept(W, v)) <= N
         /\ \A n \in Kept(W, v) : Rank(W, v, n) \in 1..Cardinality(Kept(W, v))
         /\ \A m, n \in Kept(W, v) : m < n => Rank(W, v, m) < Rank(W, v, n)
<1> DEFINE K == Kept(W, v)
           upto(n) == {m \in K : m <= n}
<1>1. N \in Nat
  BY BacklogSize
<1>2. IsFiniteSet(1..N) /\ Cardinality(1..N) = N
  BY <1>1, FS_Interval
<1>3. K \in SUBSET (1..N)
  BY DEF Kept
<1> HIDE DEF K
<1>4. IsFiniteSet(K) /\ Cardinality(K) \in Nat /\ Cardinality(K) <= N
  BY <1>2, <1>3, FS_Subset, FS_CardinalityType
<1>5. ASSUME NEW n \in K
      PROVE  /\ IsFiniteSet(upto(n)) /\ Cardinality(upto(n)) \in Nat
             /\ Cardinality(upto(n)) <= Cardinality(K) /\ Cardinality(upto(n)) # 0
  <2>1. upto(n) \in SUBSET K
    OBVIOUS
  <2>2. n \in upto(n)
    BY <1>1, <1>3
  <2> HIDE DEF upto
  <2>3. QED
    BY <1>4, <2>1, <2>2, FS_Subset, FS_CardinalityType, FS_EmptySet
<1>6. ASSUME NEW m \in K, NEW n \in K, m < n
      PROVE  Cardinality(upto(m)) < Cardinality(upto(n))
  <2>1. upto(m) \in SUBSET upto(n) /\ n \in upto(n) /\ n \notin upto(m)
    <3>1. \A x \in K : x \in Int
      BY <1>1, <1>3
    <3>2. \A x \in K : x <= m => x <= n
      BY <1>6, <3>1
    <3>3. n <= n /\ ~(n <= m)
      BY <1>6, <3>1
    <3>4. QED
      BY <3>2, <3>3
  <2> HIDE DEF upto
  <2>2. Cardinality(upto(m)) <= Cardinality(upto(n)) /\ Cardinality(upto(m)) # Cardinality(upto(n))
    BY <1>5, <2>1, FS_Subset
  <2>3. QED
    BY <1>5, <2>2
<1>7. \A n : Rank(W, v, n) = Cardinality(upto(n))
  BY DEF Rank, K
<1> HIDE DEF upto
<1>8. \A n \in K : Rank(W, v, n) \in 1..Cardinality(K)
  BY <1>4, <1>5, <1>7
<1>9. \A m, n \in K : m < n => Rank(W, v, m) < Rank(W, v, n)
  BY <1>6, <1>7
<1>10. QED
  BY <1>4, <1>8, <1>9 DEF K

\* An item of the version is in the wave that its own wave became.
LEMMA VersionWaves ==
  ASSUME NEW W, DOMAIN W \subseteq 1..N, NEW v, NEW i, NEW k
  PROVE  /\ k \in DOMAIN _waves_for_version(W, v) /\ i \in _waves_for_version(W, v)[k] =>
              VersionOf[i] = v /\ \E n \in DOMAIN W : i \in W[n] /\ Rank(W, v, n) = k
         /\ \A n \in DOMAIN W : VersionOf[i] = v /\ i \in W[n] /\ Rank(W, v, n) = k =>
              k \in DOMAIN _waves_for_version(W, v) /\ i \in _waves_for_version(W, v)[k]
<1> DEFINE V == _waves_for_version(W, v)
           K == Kept(W, v)
           wave(j) == UNION {Inside(W, v, n) : n \in {m \in K : Rank(W, v, m) = j}}
<1>1. V = [j \in 1..Cardinality(K) |-> wave(j)]
  BY DEF _waves_for_version, Kept, Inside, Rank
<1>2. ASSUME NEW n \in DOMAIN W, i \in W[n], VersionOf[i] = v, Rank(W, v, n) = k
      PROVE  k \in 1..Cardinality(K) /\ i \in wave(k)
  <2>1. i \in Inside(W, v, n)
    BY <1>2 DEF Inside
  <2>2. n \in K
    BY <2>1 DEF Kept
  <2>3. k \in 1..Cardinality(K)
    BY <1>2, <2>2, RanksCount
  <2>4. QED
    BY <1>2, <2>1, <2>2, <2>3
<1>3. ASSUME i \in wave(k)
      PROVE  VersionOf[i] = v /\ \E n \in DOMAIN W : i \in W[n] /\ Rank(W, v, n) = k
  <2>1. PICK n \in K : Rank(W, v, n) = k /\ i \in Inside(W, v, n)
    BY <1>3
  <2>2. QED
    BY <2>1 DEF Kept, Inside
<1> HIDE DEF wave, K
<1>4. (k \in DOMAIN V /\ i \in V[k]) <=> (k \in 1..Cardinality(K) /\ i \in wave(k))
  BY <1>1
<1>5. QED
  BY <1>2, <1>3, <1>4

\* Where the published plan has item i.
LEMMA WaveOf ==
  ASSUME NEW r, NEW labels, NEW i \in Items
  PROVE  LET W == compute_waves(r)
         IN  wave_of(snapshot(r, labels), i)
               = {Rank(W, VersionOf[i], n) : n \in {m \in DOMAIN W : i \in W[m]}}
<1> DEFINE W == compute_waves(r)
           f == snapshot(r, labels)
           v == VersionOf[i]
<1>1. N \in Nat /\ DOMAIN W \subseteq 1..N
  BY BacklogSize, WaveIsRound
<1>2. f.waves = [k \in DOMAIN Versions |-> _waves_for_version(W, Versions[k])]
  BY DEF snapshot
<1>3. PICK h \in DOMAIN Versions : Versions[h] = v
  BY VersionAssumption DEF SeqRange
<1> HIDE DEF W, f
<1>4. ASSUME NEW k
      PROVE  k \in wave_of(f, i) <=> \E n \in DOMAIN W : i \in W[n] /\ Rank(W, v, n) = k
  <2>1. ASSUME k \in wave_of(f, i)
        PROVE  \E n \in DOMAIN W : i \in W[n] /\ Rank(W, v, n) = k
    <3>1. PICK j \in DOMAIN Versions : k \in DOMAIN f.waves[j] /\ i \in f.waves[j][k]
      BY <1>2, <2>1 DEF wave_of
    <3>2. f.waves[j] = _waves_for_version(W, Versions[j])
      BY <1>2
    <3>3. Versions[j] = v /\ \E n \in DOMAIN W : i \in W[n] /\ Rank(W, Versions[j], n) = k
      BY <1>1, <3>1, <3>2, VersionWaves
    <3>4. QED
      BY <3>3
  <2>2. ASSUME NEW n \in DOMAIN W, i \in W[n], Rank(W, v, n) = k
        PROVE  k \in wave_of(f, i)
    <3>1. f.waves[h] = _waves_for_version(W, v)
      BY <1>2, <1>3
    <3>2. k \in DOMAIN f.waves[h] /\ i \in f.waves[h][k]
      <4>1. VersionOf[i] = v /\ n \in DOMAIN W /\ i \in W[n] /\ Rank(W, v, n) = k
        BY <2>2
      <4> HIDE DEF v
      <4>2. k \in DOMAIN _waves_for_version(W, v) /\ i \in _waves_for_version(W, v)[k]
        BY <1>1, <4>1, VersionWaves
      <4>3. QED
        BY <3>1, <4>2
    <3>3. n \in Kept(W, v)
      BY <2>2 DEF Kept, Inside
    <3>4. k \in 1..N
      BY <1>1, <2>2, <3>3, RanksCount
    <3>5. QED
      BY <3>2, <3>4 DEF wave_of, N
  <2>3. QED
    BY <2>1, <2>2
<1>5. wave_of(f, i) = {Rank(W, v, n) : n \in {m \in DOMAIN W : i \in W[m]}}
  BY <1>4
<1>6. QED
  BY <1>5 DEF W, f

\* What WavesAreLayers says of one file.
Layered(f) ==
  \A i \in Items :
    LET planned == {j \in Items : wave_of(f, j) # {}}
        inside(j) == depends[j] \cap {k \in planned : VersionOf[k] = VersionOf[j]}
    IN
    /\ Cardinality(wave_of(f, i)) <= 1
    /\ i \in planned =>
         /\ f.read[i] \in READY_STATUSES
         /\ \A d \in depends[i] : f.read[d] = "DONE" \/ d \in planned
         /\ \A d \in inside(i), n \in wave_of(f, i) : \A m \in wave_of(f, d) : m < n
    /\ (i \notin planned /\ f.read[i] \in READY_STATUSES) =>
         \E d \in depends[i] : f.read[d] # "DONE" /\ d \notin planned

\* The waves of every snapshot are the layers of the statuses it was built from.
LEMMA SnapshotLayered ==
  ASSUME NEW r, NEW labels, depends \in [Items -> SUBSET Items]
  PROVE  Layered(snapshot(r, labels))
<1> DEFINE W == compute_waves(r)
           f == snapshot(r, labels)
           rounds(j) == {m \in DOMAIN W : j \in W[m]}
           planned == {j \in Items : wave_of(f, j) # {}}
<1>1. f.read = r
  BY DEF snapshot
<1>2. N \in Nat /\ DOMAIN W \subseteq 1..N
  BY BacklogSize, WaveIsRound
<1>3. \A j \in Items : wave_of(f, j) = {Rank(W, VersionOf[j], n) : n \in rounds(j)}
  BY WaveOf
<1>4. \A j \in Items : j \in planned <=> rounds(j) # {}
  BY <1>3
<1> HIDE DEF f, planned
<1>5. ASSUME NEW i \in Items, NEW n \in rounds(i)
      PROVE  /\ r[i] \in READY_STATUSES /\ rounds(i) = {n}
             /\ \A d \in depends[i] : r[d] = "DONE" \/ \E m \in rounds(d) : m < n
  BY WaveIsLayer
<1>6. ASSUME NEW i \in Items, rounds(i) = {}, r[i] \in READY_STATUSES
      PROVE  \E d \in depends[i] : r[d] # "DONE" /\ rounds(d) = {}
  <2>1. \A n \in DOMAIN W : i \notin W[n]
    BY <1>6
  <2>2. PICK d \in depends[i] : r[d] # "DONE" /\ \A n \in DOMAIN W : d \notin W[n]
    BY <1>6, <2>1, LeftOutWaits
  <2>3. QED
    BY <2>2
<1>7. \A j \in Items : \A n \in rounds(j) : n \in DOMAIN W /\ n \in Kept(W, VersionOf[j])
  BY DEF Kept, Inside
<1> HIDE DEF rounds, W
<1>8. ASSUME NEW i \in Items, NEW n \in rounds(i)
      PROVE  wave_of(f, i) = {Rank(W, VersionOf[i], n)}
  BY <1>3, <1>5
<1>9. ASSUME NEW i \in Items PROVE Cardinality(wave_of(f, i)) <= 1
  <2>1. CASE rounds(i) = {}
    <3>1. wave_of(f, i) = {}
      BY <1>3, <2>1
    <3>2. QED
      BY <3>1, FS_EmptySet
  <2>2. CASE rounds(i) # {}
    <3>1. PICK n \in rounds(i) : wave_of(f, i) = {Rank(W, VersionOf[i], n)}
      BY <1>8, <2>2
    <3>2. Cardinality(wave_of(f, i)) = 1
      BY <3>1, FS_Singleton
    <3>3. QED
      BY <3>2
  <2>3. QED
    BY <2>1, <2>2
<1>10. ASSUME NEW i \in Items, i \in planned
       PROVE  /\ f.read[i] \in READY_STATUSES
              /\ \A d \in depends[i] : f.read[d] = "DONE" \/ d \in planned
  <2>1. PICK n \in rounds(i) : TRUE
    BY <1>4, <1>10
  <2>2. QED
    BY <1>1, <1>4, <1>5, <2>1
<1>11. ASSUME NEW i \in Items, NEW d \in depends[i], d \in planned, VersionOf[d] = VersionOf[i],
              NEW k \in wave_of(f, i), NEW l \in wave_of(f, d)
       PROVE  l < k
  <2>1. d \in Items
    OBVIOUS
  <2>2. PICK n \in rounds(i) : k = Rank(W, VersionOf[i], n)
    BY <1>3
  <2>3. PICK m \in rounds(d) : l = Rank(W, VersionOf[i], m)
    BY <1>3, <1>11, <2>1
  <2>4. r[d] # "DONE"
    BY <1>5, <2>1, <2>3 DEF READY_STATUSES
  <2>5. m < n
    BY <1>5, <2>1, <2>2, <2>3, <2>4
  <2>6. m \in Kept(W, VersionOf[i]) /\ n \in Kept(W, VersionOf[i])
    BY <1>7, <1>11, <2>1, <2>2, <2>3
  <2>7. QED
    BY <1>2, <2>2, <2>3, <2>5, <2>6, RanksCount
<1>12. ASSUME NEW i \in Items, i \notin planned, f.read[i] \in READY_STATUSES
       PROVE  \E d \in depends[i] : f.read[d] # "DONE" /\ d \notin planned
  BY <1>1, <1>4, <1>6, <1>12
<1>13. QED
  BY <1>9, <1>10, <1>11, <1>12 DEF Layered, f, planned

---------------------------------------------------------------------------
(* The same graph gives the same plan.                                           *)

LEMMA SameEdges ==
  ASSUME depends' = depends
  PROVE  \A i : predecessors(i)' = predecessors(i)
BY DEF predecessors, version_tags

LEMMA SameDescendants ==
  ASSUME depends' = depends
  PROVE  validate_acyclic' = validate_acyclic /\ \A S : descendants(S)' = descendants(S)
<1>1. \A S : descendants(S)' = descendants(S)
  BY SameEdges DEF descendants
<1>2. QED
  BY <1>1 DEF validate_acyclic

LEMMA SameWaves ==
  ASSUME depends' = depends, NEW r
  PROVE  compute_waves(r)' = compute_waves(r)
<1>1. \A i, S : satisfied(i, S, r)' = satisfied(i, S, r)
  BY SameEdges DEF satisfied
<1>2. \A S : _ready(S, r)' = _ready(S, r)
  BY <1>1 DEF _ready
<1>3. _done(r)' = _done(r)
  BY <1>2 DEF _done
<1>4. QED
  BY <1>2, <1>3 DEF compute_waves

LEMMA SamePath ==
  ASSUME depends' = depends, NEW r
  PROVE  _longest_weighted_bl_path(r)' = _longest_weighted_bl_path(r)
<1>1. _blocked_closure(r)' = _blocked_closure(r)
  BY SameDescendants DEF _blocked_closure
<1>2. \A A : _dist(A)' = _dist(A)
  BY DEF _dist, before
<1>3. \A A : _path(A)' = _path(A)
  BY <1>2 DEF _path, before
<1>4. QED
  BY <1>1, <1>2, <1>3 DEF _longest_weighted_bl_path

LEMMA SameSnapshot ==
  ASSUME depends' = depends, NEW r, NEW labels
  PROVE  snapshot(r, labels)' = snapshot(r, labels)
<1> DEFINE S(W, p) == [is |-> "written", read |-> r,
                       waves |-> [n \in DOMAIN Versions |-> _waves_for_version(W, Versions[n])],
                       path |-> p, labels |-> labels]
<1>1. snapshot(r, labels) = S(compute_waves(r), _longest_weighted_bl_path(r))
  BY DEF snapshot
<1>2. snapshot(r, labels)' = S(compute_waves(r)', _longest_weighted_bl_path(r)')
  BY DEF snapshot
<1> HIDE DEF S
<1>3. QED
  BY <1>1, <1>2, SameWaves, SamePath

---------------------------------------------------------------------------
(* Types.                                                                        *)

\* The statuses read so far.
Reads == UNION {[D -> Status] : D \in SUBSET Items}

Commanded ==
  cmd \in [pc : {"idle", "read", "json", "md"}, read : Reads, labels : BOOLEAN]

\* From here on every status was read, and planning.json is the plan of these.
Snapped ==
  /\ cmd.pc \in {"json", "md"} => DOMAIN cmd.read = Items
  /\ cmd.pc = "read" => DOMAIN cmd.read # Items
  /\ cmd.pc = "md" => json = snapshot(cmd.read, cmd.labels)

\* Only an acyclic graph is planned.
Acyclic == cmd.pc # "idle" => validate_acyclic

\* The inductive invariant of forge plan.
Planned == PlanningTypes /\ Commanded /\ Snapped /\ Acyclic

LEMMA NoCommand ==
  /\ NoCmd \in [pc : {"idle", "read", "json", "md"}, read : Reads, labels : BOOLEAN]
  /\ NoCmd = [pc |-> "idle", read |-> NoCmd.read, labels |-> FALSE]
  /\ NoCmd.pc = "idle" /\ NoCmd.read \in Reads /\ DOMAIN NoCmd.read = {}
<1> DEFINE none == [i \in {} |-> "none"]
<1>1. none \in [{} -> Status] /\ DOMAIN none = {}
  OBVIOUS
<1> HIDE DEF none
<1>2. none \in Reads
  BY <1>1 DEF Reads
<1>3. NoCmd = [pc |-> "idle", read |-> none, labels |-> FALSE]
  BY DEF NoCmd, none
<1>4. QED
  BY <1>1, <1>2, <1>3

LEMMA PlannedInit == PlanningInit => Planned
<1> SUFFICES ASSUME PlanningInit PROVE Planned
  OBVIOUS
<1>1. /\ NoCmd \in [pc : {"idle", "read", "json", "md"}, read : Reads, labels : BOOLEAN]
      /\ NoCmd.pc = "idle" /\ DOMAIN NoCmd.read = {}
  BY NoCommand
<1>2. PlanningTypes
  <2>1. Status \cup {"none"} = {"TODO", "READY", "IN_PROGRESS", "IN_TEST", "IN_REVIEW", "BLOCKED", "DONE", "none"}
    BY DEF Status
  <2>2. depends \in [Items -> SUBSET Items]
    BY DEF PlanningInit
  <2>3. state \in [Items -> Status \cup {"none"}]
    BY <2>1 DEF PlanningInit
  <2>4. json.is \in Contents /\ md.is \in Contents
    <3>1. Absent.is = "absent" /\ [Absent EXCEPT !.is = "written", !.labels = TRUE].is = "written"
      BY DEF Absent
    <3>2. QED
      BY <3>1 DEF PlanningInit, Contents
  <2>5. QED
    BY <1>1, <2>2, <2>3, <2>4, BoundAssumption DEF PlanningInit, PlanningTypes
<1>3. cmd = NoCmd /\ cmd.pc = "idle"
  BY <1>1 DEF PlanningInit
<1>4. Commanded
  BY <1>1, <1>3 DEF Commanded
<1>5. QED
  BY <1>2, <1>3, <1>4 DEF Planned, Snapped, Acyclic

\* Planned is inductive: the graph does not move under a plan, so that what is planned from
\* it does not either.
LEMMA PlannedNext == Planned /\ [PlanningNext]_planning_vars => Planned'
<1> SUFFICES ASSUME Planned, [PlanningNext]_planning_vars PROVE Planned'
  OBVIOUS
<1>1. /\ depends \in [Items -> SUBSET Items]
      /\ state \in [Items -> Status \cup {"none"}]
      /\ json.is \in Contents /\ md.is \in Contents
      /\ plans \in 0..MaxPlans /\ moved \in 0..MaxMoves
      /\ MaxPlans \in Nat /\ MaxMoves \in Nat
  BY BoundAssumption DEF Planned, PlanningTypes
<1>2. /\ cmd = [pc |-> cmd.pc, read |-> cmd.read, labels |-> cmd.labels]
      /\ cmd.pc \in {"idle", "read", "json", "md"} /\ cmd.read \in Reads /\ cmd.labels \in BOOLEAN
      /\ DOMAIN cmd.read \subseteq Items
  BY DEF Planned, Commanded, Reads
<1>3. /\ NoCmd = [pc |-> "idle", read |-> NoCmd.read, labels |-> FALSE]
      /\ NoCmd.pc = "idle" /\ NoCmd.read \in Reads /\ DOMAIN NoCmd.read = {}
  BY NoCommand
<1>4. depends' = depends
  BY DEF PlanningNext, planning_vars, worker, plan_forge, statuses_from_state, write_json,
         write_md, crash
<1>5. /\ validate_acyclic' = validate_acyclic
      /\ \A r, labels : snapshot(r, labels)' = snapshot(r, labels)
  BY <1>4, SameDescendants, SameSnapshot
<1>6. ASSUME NEW i \in Items, worker(i) PROVE Planned'
  <2>1. state' \in [Items -> Status \cup {"none"}]
    <3>1. "TODO" \in Status /\ \A q \in TransitionRequest : q.target \in Status
      BY DEF Status, TransitionRequest
    <3>2. QED
      BY <1>1, <1>6, <3>1 DEF worker
  <2>2. moved' \in 0..MaxMoves
    BY <1>1, <1>6 DEF worker
  <2>3. UNCHANGED <<depends, json, md, cmd, plans>>
    BY <1>6 DEF worker
  <2>4. PlanningTypes'
    BY <1>1, <1>2, <2>1, <2>2, <2>3 DEF PlanningTypes
  <2>5. (Commanded /\ Snapped /\ Acyclic)'
    BY <1>5, <2>3 DEF Planned, Commanded, Snapped, Acyclic
  <2>6. QED
    BY <2>4, <2>5 DEF Planned
<1>7. CASE plan_forge
  <2>1. UNCHANGED <<depends, state, json, md, moved>> /\ plans' \in 0..MaxPlans /\ validate_acyclic
    BY <1>1, <1>7 DEF plan_forge
  <2>2. load_planning_metadata \in BOOLEAN
    BY DEF load_planning_metadata
  <2>3. CASE cmd' = cmd
    <3>1. PlanningTypes' BY <1>1, <1>2, <2>1, <2>3 DEF PlanningTypes
    <3>2. (Commanded /\ Snapped /\ Acyclic)'
      BY <1>5, <2>1, <2>3 DEF Planned, Commanded, Snapped, Acyclic
    <3>3. QED BY <3>1, <3>2 DEF Planned
  <2>4. ASSUME cmd' = [pc |-> IF Items = {} THEN "json" ELSE "read", read |-> NoCmd.read,
                labels |-> load_planning_metadata]
        PROVE  Planned'
    <3>1. PlanningTypes'
      BY <1>1, <1>3, <2>1, <2>4 DEF PlanningTypes
    <3>2. (Commanded /\ Snapped /\ Acyclic)'
      BY <1>3, <1>5, <2>1, <2>2, <2>4 DEF Commanded, Snapped, Acyclic
    <3>3. QED
      BY <3>1, <3>2 DEF Planned
  <2>5. \/ cmd' = cmd
        \/ cmd' = [pc |-> IF Items = {} THEN "json" ELSE "read", read |-> NoCmd.read,
                   labels |-> load_planning_metadata]
    BY <1>3, <1>7 DEF plan_forge
  <2>6. QED
    BY <2>3, <2>4, <2>5
<1>8. CASE statuses_from_state
  <2> DEFINE s == IF state[next_read] = "none" THEN Front[next_read] ELSE state[next_read]
             read == [i \in DOMAIN cmd.read \cup {next_read} |->
                        IF i = next_read THEN s ELSE cmd.read[i]]
  <2>1. UNCHANGED <<depends, state, json, md, plans, moved>> /\ cmd.pc = "read"
    BY <1>8 DEF statuses_from_state
  <2>2. cmd' = [cmd EXCEPT !.read = read, !.pc = IF DOMAIN read = Items THEN "json" ELSE "read"]
    BY <1>8 DEF statuses_from_state
  <2>3. next_read \in Items
    <3>1. DOMAIN cmd.read \in SUBSET Items /\ DOMAIN cmd.read # Items
      BY <1>2, <2>1 DEF Planned, Snapped
    <3>2. Cardinality(DOMAIN cmd.read) <= Cardinality(Items) /\ Cardinality(DOMAIN cmd.read) \in Nat
          /\ Cardinality(DOMAIN cmd.read) # Cardinality(Items)
      BY <3>1, BacklogSize, FS_Subset, FS_CardinalityType
    <3>3. Cardinality(DOMAIN cmd.read) + 1 \in DOMAIN Order
      BY <3>2, BacklogSize
    <3>4. QED
      BY <3>3 DEF next_read, Items
  <2>4. s \in Status
    BY <1>1, <2>3, FrontAssumption
  <2>5. read \in Reads /\ DOMAIN read \subseteq Items
    <3>1. PICK D \in SUBSET Items : cmd.read \in [D -> Status]
      BY <1>2 DEF Reads
    <3> HIDE DEF s
    <3>2. DOMAIN read \in SUBSET Items /\ read \in [DOMAIN read -> Status]
      BY <2>3, <2>4, <3>1
    <3>3. QED
      BY <3>2 DEF Reads
  <2> HIDE DEF read
  <2>6. cmd' = [pc |-> IF DOMAIN read = Items THEN "json" ELSE "read", read |-> read,
                labels |-> cmd.labels]
    BY <1>2, <2>2
  <2>7. PlanningTypes'
    BY <1>1, <2>1, <2>5, <2>6 DEF PlanningTypes
  <2>8. (Commanded /\ Snapped /\ Acyclic)'
    BY <1>2, <1>5, <2>1, <2>5, <2>6 DEF Planned, Commanded, Snapped, Acyclic
  <2>9. QED
    BY <2>7, <2>8 DEF Planned
<1>9. CASE write_json
  <2>1. /\ UNCHANGED <<depends, state, md, plans, moved>> /\ cmd.pc = "json"
        /\ json' = snapshot(cmd.read, cmd.labels)
        /\ cmd' = [pc |-> "md", read |-> cmd.read, labels |-> cmd.labels]
    BY <1>2, <1>9 DEF write_json
  <2>2. json'.is \in Contents
    BY <2>1 DEF snapshot, Contents
  <2>3. PlanningTypes'
    BY <1>1, <1>2, <2>1, <2>2 DEF PlanningTypes
  <2>4. (Commanded /\ Snapped /\ Acyclic)'
    BY <1>2, <1>5, <2>1 DEF Planned, Commanded, Snapped, Acyclic
  <2>5. QED
    BY <2>3, <2>4 DEF Planned
<1>10. CASE write_md
  <2>1. /\ UNCHANGED <<depends, state, json, plans, moved>> /\ md' = snapshot(cmd.read, cmd.labels)
        /\ cmd' = NoCmd
    BY <1>10 DEF write_md
  <2>2. md'.is \in Contents
    BY <2>1 DEF snapshot, Contents
  <2>3. PlanningTypes'
    BY <1>1, <1>3, <2>1, <2>2 DEF PlanningTypes
  <2>4. (Commanded /\ Snapped /\ Acyclic)'
    <3>1. cmd'.pc = "idle"
      BY <1>3, <2>1
    <3>2. Commanded'
      BY <2>1, NoCommand DEF Commanded
    <3>3. QED
      BY <3>1, <3>2 DEF Snapped, Acyclic
  <2>5. QED
    BY <2>3, <2>4 DEF Planned
<1>11. CASE crash
  <2>1. UNCHANGED <<depends, state, plans, moved>> /\ cmd' = NoCmd
    BY <1>11 DEF crash
  <2>2. \A f : f.is \in Contents => \A g \in cut(f) : g.is \in Contents
    BY DEF cut, Absent, Contents
  <2>3. json'.is \in Contents /\ md'.is \in Contents
    BY <1>1, <1>11, <2>2 DEF crash
  <2>4. PlanningTypes'
    BY <1>1, <1>3, <2>1, <2>3 DEF PlanningTypes
  <2>5. (Commanded /\ Snapped /\ Acyclic)'
    <3>1. cmd'.pc = "idle"
      BY <1>3, <2>1
    <3>2. Commanded'
      BY <2>1, NoCommand DEF Commanded
    <3>3. QED
      BY <3>1, <3>2 DEF Snapped, Acyclic
  <2>6. QED
    BY <2>4, <2>5 DEF Planned
<1>12. CASE UNCHANGED planning_vars
  <2>1. PlanningTypes'
    BY <1>12 DEF Planned, PlanningTypes, planning_vars
  <2>2. (Commanded /\ Snapped /\ Acyclic)'
    BY <1>5, <1>12 DEF Planned, Commanded, Snapped, Acyclic, planning_vars
  <2>3. QED
    BY <2>1, <2>2 DEF Planned
<1>13. QED
  BY <1>6, <1>7, <1>8, <1>9, <1>10, <1>11, <1>12 DEF PlanningNext

\* The types of forge plan: it publishes only an acyclic graph, with every status read,
\* and planning.md shows what planning.json was written from (publish.py).
THEOREM PlanningTyped == PlanningSpec => []Planned
<1>1. QED
  BY PlannedInit, PlannedNext, PTL DEF PlanningSpec

\* The waves in planning.json are the layers of the statuses it was built from, whatever
\* the graph, the statuses and their moves while they are read (WavePlanner.compute_waves,
\* _waves_for_version).
THEOREM WavesPublished == PlanningSpec => []WavesInv
<1>1. Planned => WavesInv
  <2> SUFFICES ASSUME Planned, NEW f \in Published PROVE Layered(f)
    BY DEF WavesInv, WavesAreLayers, Layered, Planned
  <2>1. f = snapshot(cmd.read, cmd.labels)
    BY DEF Published, Planned, Snapped
  <2>2. depends \in [Items -> SUBSET Items]
    BY DEF Planned, PlanningTypes
  <2>3. QED
    BY <2>1, <2>2, SnapshotLayered
<1>2. QED
  BY <1>1, PlanningTyped, PTL

---------------------------------------------------------------------------
(* Reachability.                                                                 *)

\* C holds all that S and C lead to.
Closed(S, C) == \A j \in Items : predecessors(j) \cap (S \cup C) # {} => j \in C

\* descendants is the least closed set.
LEMMA Reached ==
  ASSUME NEW S
  PROVE  /\ descendants(S) \in SUBSET Items /\ Closed(S, descendants(S))
         /\ \A C \in SUBSET Items : Closed(S, C) => descendants(S) \subseteq C
<1>1. \A i : i \in descendants(S)
               <=> i \in Items /\ \A C \in SUBSET Items : Closed(S, C) => i \in C
  BY DEF descendants, Closed
<1>2. ASSUME NEW j \in Items, predecessors(j) \cap (S \cup descendants(S)) # {}
      PROVE  j \in descendants(S)
  <2>1. SUFFICES ASSUME NEW C \in SUBSET Items, Closed(S, C) PROVE j \in C
    BY <1>1
  <2>2. predecessors(j) \cap (S \cup C) # {}
    BY <1>1, <1>2, <2>1
  <2>3. QED
    BY <2>1, <2>2 DEF Closed
<1>3. QED
  BY <1>1, <1>2 DEF Closed

\* Whatever i leads to, its dependencies lead to, and to i.
LEMMA DependencyReaches ==
  ASSUME depends \in [Items -> SUBSET Items], NEW i \in Items, NEW d \in depends[i], NEW S, d \in S
  PROVE  /\ i \in descendants(S)
         /\ descendants({i}) \subseteq descendants(S)
<1>1. d \in predecessors(i)
  BY DEF predecessors
<1>2. i \in descendants(S)
  BY <1>1, Reached DEF Closed
<1>3. Closed({i}, descendants(S))
  BY <1>2, Reached DEF Closed
<1>4. QED
  BY <1>2, <1>3, Reached

\* Among any items, one depends on none of them.
LEMMA AcyclicIsGrounded ==
  ASSUME depends \in [Items -> SUBSET Items], validate_acyclic
  PROVE  Grounded(Items, depends)
<1> SUFFICES ASSUME NEW U \in SUBSET Items, U # {} PROVE \E i \in U : depends[i] \cap U = {}
  BY DEF Grounded
<1> DEFINE size(i) == Cardinality(descendants({i}))
           f == [i \in U |-> size(i)]
           M == Cardinality(Items)
<1>1. M \in Nat /\ IsFiniteSet(Items)
  BY BacklogSize
<1>2. \A i \in U : IsFiniteSet(descendants({i})) /\ size(i) \in Nat /\ size(i) <= M
  BY <1>1, Reached, FS_Subset, FS_CardinalityType
<1> HIDE DEF M
<1>3. f \in [U -> 0..M]
  BY <1>1, <1>2
<1>4. PICK x \in U : \A y \in U : f[y] <= f[x]
  <2> HIDE DEF f
  <2>1. QED
    BY <1>1, <1>3, Largest
<1>5. ASSUME NEW d \in depends[x] \cap U PROVE FALSE
  <2>1. x \in descendants({d}) /\ descendants({x}) \subseteq descendants({d})
    BY DependencyReaches
  <2>2. x \notin descendants({x})
    BY DEF validate_acyclic
  <2>3. descendants({x}) \in SUBSET descendants({d}) /\ descendants({x}) # descendants({d})
    BY <2>1, <2>2
  <2>4. size(x) <= size(d) /\ size(x) # size(d)
    BY <1>2, <2>3, FS_Subset
  <2>5. size(d) <= size(x)
    BY <1>4
  <2>6. QED
    BY <1>2, <2>4, <2>5
<1>6. QED
  BY <1>5

\* Those that a blocked item reaches are those that one of the blocked items reaches.
LEMMA BlockedClosure ==
  ASSUME NEW r, NEW i \in Items
  PROVE  i \notin _blocked_closure(r)
         <=> \A b \in Items : r[b] = "BLOCKED" => b # i /\ i \notin descendants({b})
<1> DEFINE blocked == {b \in Items : r[b] = "BLOCKED"}
           U == UNION {descendants({b}) : b \in blocked}
<1>1. _blocked_closure(r) = blocked \cup descendants(blocked)
  BY DEF _blocked_closure
<1>2. \A b \in blocked : descendants({b}) \subseteq descendants(blocked)
  <2> SUFFICES ASSUME NEW b \in blocked PROVE descendants({b}) \subseteq descendants(blocked)
    OBVIOUS
  <2>1. Closed({b}, descendants(blocked))
    BY Reached DEF Closed
  <2>2. QED
    BY <2>1, Reached
<1>3. descendants(blocked) \subseteq U
  <2>1. \A b \in blocked : descendants({b}) \in SUBSET Items /\ Closed({b}, descendants({b}))
    BY Reached
  <2>2. Closed(blocked, U)
    <3> SUFFICES ASSUME NEW j \in Items, NEW p \in predecessors(j), p \in blocked \cup U
                 PROVE  j \in U
      BY DEF Closed
    <3>1. PICK b \in blocked : p \in {b} \cup descendants({b})
      OBVIOUS
    <3>2. j \in descendants({b})
      BY <2>1, <3>1 DEF Closed
    <3>3. QED
      BY <3>2
  <2>3. U \in SUBSET Items
    BY <2>1
  <2> HIDE DEF U
  <2>4. QED
    BY <2>2, <2>3, Reached
<1>4. QED
  BY <1>1, <1>2, <1>3

---------------------------------------------------------------------------
(* The greatest of a set.                                                        *)

\* greatest is what max(..., key=f) of the code returns.
LEMMA Greatest ==
  ASSUME NEW S, IsFiniteSet(S), S # {}, NEW f, \A x \in S : f[x] \in Nat
  PROVE  greatest(S, f) \in S /\ \A y \in S : f[y] <= f[greatest(S, f)]
<1> DEFINE K == {U \in SUBSET S : U # {} /\ heaviest(U, f) # {}}
<1>1. PICK z \in S : TRUE
  OBVIOUS
<1>2. {z} \in K
  BY DEF heaviest
<1>3. PICK U \in K : \A V \in K : Cardinality(V) <= Cardinality(U)
  <2>1. K \in SUBSET (SUBSET S) /\ K # {}
    BY <1>2
  <2> HIDE DEF K
  <2>2. QED
    BY <2>1, Widest
<1>4. U = S
  <2> SUFFICES ASSUME NEW x \in S \ U PROVE FALSE
    OBVIOUS
  <2>1. PICK y \in U : \A w \in U : f[y] >= f[w]
    BY <1>3 DEF heaviest
  <2> DEFINE V == U \cup {x}
  <2>2. heaviest(V, f) # {}
    <3>1. f[x] \in Nat /\ f[y] \in Nat /\ \A w \in U : f[w] \in Nat
      BY <1>3
    <3>2. CASE f[x] <= f[y]
      <4>1. \A w \in V : f[y] >= f[w]
        BY <2>1, <3>1, <3>2
      <4>2. y \in heaviest(V, f)
        BY <4>1 DEF heaviest
      <4>3. QED
        BY <4>2
    <3>3. CASE f[y] <= f[x]
      <4>1. \A w \in V : f[x] >= f[w]
        BY <2>1, <3>1, <3>3
      <4>2. x \in heaviest(V, f)
        BY <4>1 DEF heaviest
      <4>3. QED
        BY <4>2
    <3>4. QED
      BY <3>1, <3>2, <3>3
  <2>3. V \in K
    BY <1>3, <2>2
  <2>4. Cardinality(V) <= Cardinality(U)
    BY <1>3, <2>3
  <2>5. IsFiniteSet(U) /\ Cardinality(U) \in Nat
    BY <1>3, FS_Subset, FS_CardinalityType
  <2>6. Cardinality(V) = Cardinality(U) + 1
    BY <2>5, FS_AddElement
  <2>7. QED
    BY <2>4, <2>5, <2>6
<1>5. heaviest(S, f) # {}
  BY <1>3, <1>4
<1>6. greatest(S, f) \in heaviest(S, f)
  BY <1>5 DEF greatest
<1>7. QED
  BY <1>6 DEF heaviest

\* Only the values over S count.
LEMMA GreatestOfPart ==
  ASSUME NEW S, NEW f
  PROVE  greatest(S, Part(f, S)) = greatest(S, f)
<1>1. heaviest(S, Part(f, S)) = heaviest(S, f)
  BY DEF heaviest, Part
<1>2. QED
  BY <1>1 DEF greatest

LEMMA WeightType == ASSUME NEW i \in Items PROVE weight(i) \in Nat
<1>1. SizeOf[i] \in {"S", "M", "L"}
  BY SizeAssumption
<1>2. weight(i) \in {1, 2, 4}
  BY <1>1 DEF weight
<1>3. QED
  BY <1>2

---------------------------------------------------------------------------
(* The recursions along the graph.                                               *)

Before(A) == [i \in A |-> before(i, A)]

\* Along the dependencies among active items, recursion is grounded.
LEMMA BeforeGrounded ==
  ASSUME depends \in [Items -> SUBSET Items], validate_acyclic, NEW A \in SUBSET Items
  PROVE  /\ IsFiniteSet(A) /\ Before(A) \in [A -> SUBSET A] /\ Grounded(A, Before(A))
         /\ \A i \in A : IsFiniteSet(before(i, A)) /\ before(i, A) \in SUBSET A
<1>1. IsFiniteSet(A)
  BY BacklogSize, FS_Subset
<1>2. \A i \in A : before(i, A) \in SUBSET A
  BY DEF before
<1>3. \A i \in A : IsFiniteSet(before(i, A))
  BY <1>1, <1>2, FS_Subset
<1>4. Before(A) \in [A -> SUBSET A]
  BY <1>2 DEF Before
<1>5. ASSUME NEW U \in SUBSET A, U # {} PROVE \E i \in U : Before(A)[i] \cap U = {}
  <2>1. PICK i \in U : depends[i] \cap U = {}
    BY <1>5, AcyclicIsGrounded DEF Grounded
  <2>2. QED
    BY <2>1 DEF Before, before
<1>6. QED
  BY <1>1, <1>2, <1>3, <1>4, <1>5 DEF Grounded

\* The distances are natural numbers that satisfy the equation which defines them.
LEMMA Distances ==
  ASSUME depends \in [Items -> SUBSET Items], validate_acyclic, NEW A \in SUBSET Items
  PROVE  /\ _dist(A) \in [A -> Nat]
         /\ \A i \in A : _dist(A)[i] = weight(i) + IF before(i, A) = {} THEN 0
                                       ELSE _dist(A)[greatest(before(i, A), _dist(A))]
<1> DEFINE pre == Before(A)
           value(i, f) == weight(i) + IF before(i, A) = {} THEN 0
                                      ELSE f[greatest(before(i, A), f)]
           Dom == UNION {{<<i, f>> : f \in [pre[i] -> Nat]} : i \in A}
           G == [w \in Dom |-> value(w[1], w[2])]
           Is(f) == f = [i \in A |-> value(i, f)]
           dist == CHOOSE f : Is(f)
<1>1. \A i \in A : pre[i] = before(i, A)
  BY DEF Before
<1>2. ASSUME NEW i \in A, NEW f, \A x \in before(i, A) : f[x] \in Nat
      PROVE  value(i, f) \in Nat
  <2>1. CASE before(i, A) = {}
    BY <2>1, WeightType
  <2>2. CASE before(i, A) # {}
    <3>1. f[greatest(before(i, A), f)] \in Nat
      BY <1>2, <2>2, BeforeGrounded, Greatest
    <3>2. QED
      BY <2>2, <3>1, WeightType
  <2>3. QED
    BY <2>1, <2>2
<1> HIDE DEF value, pre
<1>3. ASSUME NEW i \in A, NEW f \in [pre[i] -> Nat]
      PROVE  G[<<i, f>>] = value(i, f) /\ G[<<i, f>>] \in Nat
  <2>1. <<i, f>> \in Dom
    <3>1. <<i, f>> \in {<<i, g>> : g \in [pre[i] -> Nat]}
      OBVIOUS
    <3>2. QED
      BY <3>1
  <2>2. G[<<i, f>>] = value(i, f)
    BY <2>1
  <2> HIDE DEF G, Dom
  <2>3. QED
    BY <1>1, <1>2, <2>2
<1> HIDE DEF G, Dom
<1>4. Steps(A, pre, Nat, G)
  BY <1>3 DEF Steps
<1>5. PICK D : Solution(A, pre, Nat, G, D)
  <2>1. IsFiniteSet(A) /\ pre \in [A -> SUBSET A] /\ Grounded(A, pre)
    BY BeforeGrounded DEF pre
  <2>2. QED
    BY <1>4, <2>1, Recursion
<1>6. D \in [A -> Nat] /\ \A i \in A : D[i] = G[<<i, Part(D, pre[i])>>]
  BY <1>5 DEF Solution
<1>7. \A i \in A : D[i] = value(i, D)
  <2> SUFFICES ASSUME NEW i \in A PROVE D[i] = value(i, D)
    OBVIOUS
  <2>1. before(i, A) \in SUBSET A
    BY BeforeGrounded
  <2>2. Part(D, pre[i]) \in [pre[i] -> Nat]
    BY <1>1, <1>6, <2>1 DEF Part
  <2>3. D[i] = value(i, Part(D, before(i, A)))
    BY <1>1, <1>3, <1>6, <2>2
  <2>4. value(i, Part(D, before(i, A))) = value(i, D)
    <3>1. CASE before(i, A) = {}
      BY <3>1 DEF value
    <3>2. CASE before(i, A) # {}
      <4>1. greatest(before(i, A), D) \in before(i, A)
        BY <1>6, <2>1, <3>2, BeforeGrounded, Greatest
      <4>2. Part(D, before(i, A))[greatest(before(i, A), D)] = D[greatest(before(i, A), D)]
        BY <4>1 DEF Part
      <4>3. QED
        BY <4>2, GreatestOfPart DEF value
    <3>3. QED
      BY <3>1, <3>2
  <2>5. QED
    BY <2>3, <2>4
<1>8. Is(D)
  BY <1>6, <1>7
<1>9. Is(dist)
  BY <1>8
<1>10. _dist(A) = dist
  BY DEF _dist, value
<1> HIDE DEF dist
<1>11. \A i \in A : dist[i] = value(i, dist)
  BY <1>9
<1>12. dist \in [A -> Nat]
  <2> DEFINE Bad == {i \in A : dist[i] \notin Nat}
  <2>1. SUFFICES Bad = {}
    BY <1>9
  <2>2. SUFFICES ASSUME Bad # {} PROVE FALSE
    OBVIOUS
  <2>3. PICK i \in Bad : pre[i] \cap Bad = {}
    <3>1. Bad \in SUBSET A
      OBVIOUS
    <3> HIDE DEF Bad
    <3>2. QED
      BY <2>2, <3>1, BeforeGrounded DEF Grounded, pre
  <2>4. \A x \in before(i, A) : dist[x] \in Nat
    BY <1>1, <2>3, BeforeGrounded
  <2>5. QED
    BY <1>2, <1>11, <2>4
<1>13. QED
  BY <1>10, <1>11, <1>12 DEF value

\* The paths to the items, by the same recursion.
LEMMA Paths ==
  ASSUME depends \in [Items -> SUBSET Items], validate_acyclic, NEW A \in SUBSET Items
  PROVE  /\ _path(A) \in [A -> Seq(A)]
         /\ \A i \in A : _path(A)[i]
              = Append(IF before(i, A) = {} THEN <<>>
                       ELSE _path(A)[greatest(before(i, A), _dist(A))], i)
<1> DEFINE pre == Before(A)
           last(i) == greatest(before(i, A), _dist(A))
           value(i, f) == Append(IF before(i, A) = {} THEN <<>> ELSE f[last(i)], i)
           T == Seq(A)
           Dom == UNION {{<<i, f>> : f \in [pre[i] -> T]} : i \in A}
           G == [w \in Dom |-> value(w[1], w[2])]
           Is(f) == f = [i \in A |-> value(i, f)]
           path == CHOOSE f : Is(f)
<1>1. \A i \in A : pre[i] = before(i, A)
  BY DEF Before
<1>2. \A i \in A : before(i, A) # {} => last(i) \in before(i, A)
  <2>1. _dist(A) \in [A -> Nat]
    BY Distances
  <2>2. QED
    BY <2>1, BeforeGrounded, Greatest
<1> HIDE DEF last
<1>3. ASSUME NEW i \in A, NEW f, \A x \in before(i, A) : f[x] \in T
      PROVE  value(i, f) \in T
  <2>1. CASE before(i, A) = {}
    BY <2>1
  <2>2. CASE before(i, A) # {}
    <3>1. f[last(i)] \in Seq(A)
      BY <1>2, <1>3, <2>2
    <3>2. Append(f[last(i)], i) \in Seq(A)
      BY <3>1
    <3>3. QED
      BY <2>2, <3>2
  <2>3. QED
    BY <2>1, <2>2
<1> HIDE DEF value, pre, T
<1>4. ASSUME NEW i \in A, NEW f \in [pre[i] -> T]
      PROVE  G[<<i, f>>] = value(i, f) /\ G[<<i, f>>] \in T
  <2>1. <<i, f>> \in Dom
    <3>1. <<i, f>> \in {<<i, g>> : g \in [pre[i] -> T]}
      OBVIOUS
    <3>2. QED
      BY <3>1
  <2>2. G[<<i, f>>] = value(i, f)
    BY <2>1
  <2> HIDE DEF G, Dom
  <2>3. QED
    BY <1>1, <1>3, <2>2
<1> HIDE DEF G, Dom
<1>5. Steps(A, pre, T, G)
  BY <1>4 DEF Steps
<1>6. PICK P : Solution(A, pre, T, G, P)
  <2>1. IsFiniteSet(A) /\ pre \in [A -> SUBSET A] /\ Grounded(A, pre)
    BY BeforeGrounded DEF pre
  <2>2. QED
    BY <1>5, <2>1, Recursion
<1>7. P \in [A -> T] /\ \A i \in A : P[i] = G[<<i, Part(P, pre[i])>>]
  BY <1>6 DEF Solution
<1>8. \A i \in A : P[i] = value(i, P)
  <2> SUFFICES ASSUME NEW i \in A PROVE P[i] = value(i, P)
    OBVIOUS
  <2>1. before(i, A) \in SUBSET A
    BY BeforeGrounded
  <2>2. Part(P, pre[i]) \in [pre[i] -> T]
    BY <1>1, <1>7, <2>1 DEF Part
  <2>3. P[i] = value(i, Part(P, before(i, A)))
    BY <1>1, <1>4, <1>7, <2>2
  <2>4. before(i, A) # {} => Part(P, before(i, A))[last(i)] = P[last(i)]
    BY <1>2 DEF Part
  <2>5. QED
    BY <2>3, <2>4 DEF value
<1>9. Is(P)
  BY <1>7, <1>8
<1>10. Is(path)
  BY <1>9
<1>11. _path(A) = path
  BY DEF _path, value, last
<1> HIDE DEF path
<1>12. \A i \in A : path[i] = value(i, path)
  BY <1>10
<1>13. path \in [A -> T]
  <2> DEFINE Bad == {i \in A : path[i] \notin T}
  <2>1. SUFFICES Bad = {}
    BY <1>10
  <2>2. SUFFICES ASSUME Bad # {} PROVE FALSE
    OBVIOUS
  <2>3. PICK i \in Bad : pre[i] \cap Bad = {}
    <3>1. Bad \in SUBSET A
      OBVIOUS
    <3> HIDE DEF Bad
    <3>2. QED
      BY <2>2, <3>1, BeforeGrounded DEF Grounded, pre
  <2>4. \A x \in before(i, A) : path[x] \in T
    BY <1>1, <2>3, BeforeGrounded
  <2>5. QED
    BY <1>3, <1>12, <2>4
<1>14. QED
  BY <1>11, <1>12, <1>13 DEF value, T, last

---------------------------------------------------------------------------
(* Loads of chains.                                                              *)

\* S is the weight of the first n items of p, for every n.
Sums(p, S) ==
  S \in [0..Len(p) -> Nat] /\ S[0] = 0 /\ \A n \in 1..Len(p) : S[n] = S[n - 1] + weight(p[n])

LEMMA LoadSums ==
  ASSUME NEW p \in Seq(Items)
  PROVE  \E S : Sums(p, S) /\ load(p) = S[Len(p)]
<1> DEFINE L == Len(p)
           G == [w \in (1..L) \X Nat |-> w[2] + weight(p[w[1]])]
           Is(f) == f = [n \in 0..L |-> IF n = 0 THEN 0 ELSE f[n - 1] + weight(p[n])]
           upto == CHOOSE f : Is(f)
<1>1. L \in Nat /\ \A n \in 1..L : p[n] \in Items /\ weight(p[n]) \in Nat
  BY WeightType
<1>2. \A n \in 1..L : \A x \in Nat : G[<<n, x>>] = x + weight(p[n]) /\ G[<<n, x>>] \in Nat
  BY <1>1
<1>3. load(p) = upto[L]
  BY DEF load
<1> HIDE DEF G, L
<1>4. PICK D : Counted(L, Nat, 0, G, D)
  BY <1>1, <1>2, Counting
<1>5. D \in [0..L -> Nat] /\ D[0] = 0 /\ \A n \in 1..L : D[n] = D[n - 1] + weight(p[n])
  <2>1. D \in [0..L -> Nat] /\ D[0] = 0 /\ \A n \in 1..L : D[n] = G[<<n, D[n - 1]>>]
    BY <1>4 DEF Counted
  <2>2. \A n \in 1..L : D[n - 1] \in Nat
    BY <1>1, <2>1
  <2>3. QED
    BY <1>2, <2>1, <2>2
<1>6. Is(D)
  BY <1>1, <1>5
<1>7. Is(upto)
  BY <1>6
<1> HIDE DEF upto
<1>8. upto[0] = 0 /\ DOMAIN upto = 0..L /\ \A n \in 1..L : upto[n] = upto[n - 1] + weight(p[n])
  BY <1>1, <1>7
<1>9. ASSUME NEW n \in 0..L PROVE upto[n] \in Nat
  <2> DEFINE Bad == {m \in 0..L : upto[m] \notin Nat}
  <2>1. SUFFICES ASSUME Bad # {} PROVE FALSE
    OBVIOUS
  <2>2. PICK m \in Bad : \A l \in Bad : m <= l
    <3>1. Bad \in SUBSET Nat
      OBVIOUS
    <3> HIDE DEF Bad
    <3>2. QED
      BY <2>1, <3>1, Least
  <2>3. m # 0 /\ m \in 0..L
    BY <1>8
  <2>4. m \in 1..L /\ m - 1 \in 0..L /\ m - 1 \notin Bad
    BY <1>1, <2>2, <2>3
  <2>5. QED
    BY <1>1, <1>8, <2>4
<1>10. upto \in [0..L -> Nat]
  BY <1>7, <1>9
<1>11. QED
  BY <1>3, <1>8, <1>10 DEF Sums, L

\* Sequences that begin alike have the same sums over what they share.
LEMMA SumsAgree ==
  ASSUME NEW p \in Seq(Items), NEW q \in Seq(Items), NEW S, NEW R, Sums(p, S), Sums(q, R),
         NEW k \in Nat, k <= Len(p), k <= Len(q), \A n \in 1..k : p[n] = q[n]
  PROVE  S[k] = R[k]
<1> DEFINE Bad == {m \in 0..k : S[m] # R[m]}
<1>1. SUFFICES ASSUME Bad # {} PROVE FALSE
  OBVIOUS
<1>2. PICK m \in Bad : \A l \in Bad : m <= l
  <2>1. Bad \in SUBSET Nat
    OBVIOUS
  <2> HIDE DEF Bad
  <2>2. QED
    BY <1>1, <2>1, Least
<1>3. m # 0
  BY DEF Sums
<1>4. m \in 1..k /\ m - 1 \in 0..k /\ m - 1 \notin Bad
  BY <1>2, <1>3
<1>5. S[m] = S[m - 1] + weight(p[m]) /\ R[m] = R[m - 1] + weight(q[m])
  BY <1>4 DEF Sums
<1>6. QED
  BY <1>4, <1>5

\* Loads are natural numbers, and the empty chain weighs nothing.
LEMMA LoadType ==
  ASSUME NEW p \in Seq(Items)
  PROVE  load(p) \in Nat
<1>1. PICK S : Sums(p, S) /\ load(p) = S[Len(p)]
  BY LoadSums
<1>2. QED
  BY <1>1 DEF Sums

LEMMA LoadEmpty == load(<<>>) = 0
<1>1. <<>> \in Seq(Items) /\ Len(<<>>) = 0
  OBVIOUS
<1>2. PICK S : Sums(<<>>, S) /\ load(<<>>) = S[Len(<<>>)]
  BY <1>1, LoadSums
<1>3. QED
  BY <1>1, <1>2 DEF Sums

\* One more item, and its weight.
LEMMA LoadOneMore ==
  ASSUME NEW p \in Seq(Items), NEW q \in Seq(Items), Len(q) = Len(p) + 1,
         \A n \in 1..Len(p) : q[n] = p[n]
  PROVE  load(q) = load(p) + weight(q[Len(q)])
<1>1. PICK S : Sums(p, S) /\ load(p) = S[Len(p)]
  BY LoadSums
<1>2. PICK R : Sums(q, R) /\ load(q) = R[Len(q)]
  BY LoadSums
<1>3. Len(p) \in Nat /\ Len(p) <= Len(p) /\ Len(p) <= Len(q)
  OBVIOUS
<1>4. S[Len(p)] = R[Len(p)]
  BY <1>1, <1>2, <1>3, SumsAgree
<1>5. R[Len(q)] = R[Len(p)] + weight(q[Len(q)])
  <2>1. Len(q) \in 1..Len(q) /\ Len(q) - 1 = Len(p)
    BY <1>3
  <2>2. QED
    BY <1>2, <2>1 DEF Sums
<1>6. QED
  BY <1>1, <1>2, <1>4, <1>5

---------------------------------------------------------------------------
(* Chains.                                                                       *)

\* A chain of an acyclic graph is no longer than the backlog: it comes back to no item.
LEMMA ChainsAreShort ==
  ASSUME depends \in [Items -> SUBSET Items], validate_acyclic, NEW p \in Seq(Items), chain(p)
  PROVE  Len(p) <= N
<1> DEFINE L == Len(p)
<1>1. L \in Nat /\ p \in [1..L -> Items] /\ DOMAIN p = 1..L
  OBVIOUS
<1>2. \A k \in 1..(L - 1) : p[k] \in depends[p[k + 1]]
  BY DEF chain
<1> HIDE DEF L
<1>3. ASSUME NEW l \in 1..L, NEW m \in 1..L, l < m
      PROVE  p[m] \in descendants({p[l]})
  <2> DEFINE Bad == {k \in (l + 1)..L : p[k] \notin descendants({p[l]})}
  <2>1. l \in Nat /\ m \in Nat /\ m \in (l + 1)..L
    BY <1>1, <1>3
  <2>2. SUFFICES ASSUME Bad # {} PROVE FALSE
    BY <2>1
  <2>3. PICK k \in Bad : \A h \in Bad : k <= h
    <3>1. Bad \in SUBSET Nat
      BY <1>1, <2>1
    <3> HIDE DEF Bad
    <3>2. QED
      BY <2>2, <3>1, Least
  <2>4. k \in (l + 1)..L /\ k - 1 \in 1..(L - 1) /\ p[k] \in Items /\ p[k - 1] \in depends[p[k]]
    <3>1. k \in (l + 1)..L /\ k - 1 \in 1..(L - 1) /\ (k - 1) + 1 = k /\ k \in 1..L
      BY <1>1, <2>1
    <3>2. p[k - 1] \in depends[p[k]]
      BY <1>2, <3>1
    <3>3. QED
      BY <1>1, <3>1, <3>2
  <2>5. CASE k - 1 = l
    BY <2>4, <2>5, DependencyReaches
  <2>6. CASE k - 1 # l
    <3>1. k - 1 \in (l + 1)..L
      BY <1>1, <2>1, <2>4, <2>6
    <3>2. ~(k <= k - 1)
      BY <1>1, <2>1, <2>4
    <3>3. k - 1 \notin Bad
      BY <2>3, <3>2
    <3>4. p[k - 1] \in descendants({p[l]})
      BY <3>1, <3>3
    <3>5. p[k - 1] \in predecessors(p[k])
      BY <2>4 DEF predecessors
    <3>6. p[k] \in descendants({p[l]})
      BY <2>4, <3>4, <3>5, Reached DEF Closed
    <3>7. QED
      BY <3>6
  <2>7. QED
    BY <2>5, <2>6
<1>4. p \in Injection(1..L, Items)
  <2>1. ASSUME NEW l \in 1..L, NEW m \in 1..L, p[l] = p[m] PROVE l = m
    <3>1. \A i \in Items : i \notin descendants({i})
      BY DEF validate_acyclic
    <3>2. ~(l < m) /\ ~(m < l)
      BY <1>1, <1>3, <2>1, <3>1
    <3>3. QED
      BY <1>1, <3>2
  <2>2. QED
    BY <1>1, <2>1 DEF Injection, IsInjective
<1>5. Cardinality(1..L) <= Cardinality(Items)
  <2>1. IsFiniteSet(Items) /\ IsFiniteSet(1..L)
    BY <1>1, BacklogSize, FS_Interval
  <2>2. QED
    BY <1>4, <2>1, FS_Injection
<1>6. Cardinality(1..L) = L
  <2>1. 1 \in Int /\ L \in Int /\ ~(1 > L + 1) /\ L - 1 + 1 = L
    BY <1>1
  <2>2. Cardinality(1..L) = IF 1 > L THEN 0 ELSE L - 1 + 1
    BY <2>1, FS_Interval
  <2>3. QED
    BY <1>1, <2>2
<1>7. QED
  BY <1>1, <1>5, <1>6, BacklogSize DEF L

\* The path to an item is a chain that ends there, as heavy as its distance says.
LEMMA PathIsChain ==
  ASSUME depends \in [Items -> SUBSET Items], validate_acyclic,
         NEW A \in SUBSET Items, NEW i \in A
  PROVE  LET p == _path(A)[i]
         IN  /\ p \in Seq(A) /\ chain(p) /\ Len(p) >= 1 /\ p[Len(p)] = i
             /\ load(p) = _dist(A)[i]
<1> DEFINE P == _path(A)
           D == _dist(A)
           Good(j) == /\ P[j] \in Seq(A) /\ chain(P[j]) /\ Len(P[j]) >= 1 /\ P[j][Len(P[j])] = j
                      /\ load(P[j]) = D[j]
           Bad == {j \in A : ~Good(j)}
<1>1. D \in [A -> Nat] /\ P \in [A -> Seq(A)]
  BY Distances, Paths
<1>2. SUFFICES ASSUME Bad # {} PROVE FALSE
  OBVIOUS
<1>3. PICK j \in Bad : Before(A)[j] \cap Bad = {}
  <2>1. Bad \in SUBSET A
    OBVIOUS
  <2> HIDE DEF Bad
  <2>2. QED
    BY <1>2, <2>1, BeforeGrounded DEF Grounded
<1>4. /\ D[j] = weight(j) + IF before(j, A) = {} THEN 0 ELSE D[greatest(before(j, A), D)]
      /\ P[j] = Append(IF before(j, A) = {} THEN <<>> ELSE P[greatest(before(j, A), D)], j)
  BY Distances, Paths
<1> HIDE DEF P, D
<1>5. j \in A /\ j \in Items /\ weight(j) \in Nat
  BY WeightType
<1>6. CASE before(j, A) = {}
  <2>1. P[j] = <<j>> /\ D[j] = weight(j)
    BY <1>4, <1>5, <1>6
  <2>2. <<j>> \in Seq(A) /\ <<j>> \in Seq(Items) /\ Len(<<j>>) = 1 /\ <<j>>[1] = j
    BY <1>5
  <2>3. chain(<<j>>)
    BY <2>2 DEF chain
  <2>4. load(<<j>>) = weight(j)
    <3>1. <<>> \in Seq(Items) /\ Len(<<j>>) = Len(<<>>) + 1 /\ \A n \in 1..Len(<<>>) : <<j>>[n] = <<>>[n]
      OBVIOUS
    <3>2. load(<<j>>) = load(<<>>) + weight(<<j>>[Len(<<j>>)])
      BY <2>2, <3>1, LoadOneMore
    <3>3. QED
      BY <1>5, <2>2, <3>2, LoadEmpty
  <2>5. Good(j)
    BY <2>1, <2>2, <2>3, <2>4
  <2> HIDE DEF Good
  <2>6. QED
    BY <2>5
<1>7. CASE before(j, A) # {}
  <2> DEFINE b == greatest(before(j, A), D)
             q == P[b]
  <2>1. b \in before(j, A)
    BY <1>1, <1>7, BeforeGrounded, Greatest
  <2> HIDE DEF b
  <2>2. b \in before(j, A) /\ b \in A /\ b \in Items /\ b \in depends[j]
    BY <2>1 DEF before
  <2>3. Good(b)
    <3>1. b \notin Bad
      BY <1>3, <2>2 DEF Before
    <3> HIDE DEF Good
    <3>2. QED
      BY <2>2, <3>1
  <2>4. P[j] = Append(q, j) /\ D[j] = weight(j) + D[b]
    BY <1>4, <1>7 DEF b
  <2>5. q \in Seq(A) /\ chain(q) /\ Len(q) >= 1 /\ q[Len(q)] = b /\ load(q) = D[b]
    BY <2>3
  <2> HIDE DEF q, b
  <2> DEFINE p == Append(q, j)
  <2>6. /\ q \in Seq(Items) /\ p \in Seq(A) /\ p \in Seq(Items) /\ Len(q) \in Nat
        /\ Len(p) = Len(q) + 1 /\ p[Len(p)] = j /\ \A n \in 1..Len(q) : p[n] = q[n]
    BY <1>5, <2>5
  <2> HIDE DEF p
  <2>7. chain(p)
    <3> SUFFICES ASSUME NEW n \in 1..(Len(p) - 1) PROVE p[n] \in depends[p[n + 1]]
      BY DEF chain
    <3>1. CASE n = Len(q)
      BY <2>2, <2>5, <2>6, <3>1
    <3>2. CASE n # Len(q)
      <4>1. n \in 1..(Len(q) - 1) /\ n + 1 \in 1..Len(q) /\ n \in 1..Len(q)
        BY <2>6, <3>2
      <4>2. QED
        BY <2>5, <2>6, <4>1 DEF chain
    <3>3. QED
      BY <3>1, <3>2
  <2>8. load(p) = load(q) + weight(j)
    BY <2>6, LoadOneMore
  <2>9. load(p) = D[j] /\ D[b] \in Nat
    BY <1>1, <1>5, <2>2, <2>4, <2>5, <2>8
  <2>10. P[j] = p
    BY <2>4 DEF p
  <2>11. QED
    BY <2>5, <2>6, <2>7, <2>9, <2>10
<1>8. QED
  BY <1>6, <1>7

\* No chain to an item is heavier than its distance.
LEMMA ChainsAreLighter ==
  ASSUME depends \in [Items -> SUBSET Items], validate_acyclic,
         NEW A \in SUBSET Items, NEW p \in Seq(A), chain(p), Len(p) >= 1
  PROVE  load(p) <= _dist(A)[p[Len(p)]]
<1> DEFINE D == _dist(A)
           Ends(j) == {q \in Seq(A) : chain(q) /\ Len(q) >= 1 /\ q[Len(q)] = j}
           Bad == {j \in A : \E q \in Ends(j) : ~(load(q) <= D[j])}
<1>1. D \in [A -> Nat]
  BY Distances
<1>2. p[Len(p)] \in A /\ p \in Ends(p[Len(p)])
  OBVIOUS
<1>3. SUFFICES ASSUME Bad # {} PROVE FALSE
  BY <1>2
<1>4. PICK j \in Bad : Before(A)[j] \cap Bad = {}
  <2>1. Bad \in SUBSET A
    OBVIOUS
  <2> HIDE DEF Bad
  <2>2. QED
    BY <1>3, <2>1, BeforeGrounded DEF Grounded
<1>5. PICK q \in Ends(j) : ~(load(q) <= D[j])
  OBVIOUS
<1>6. D[j] = weight(j) + IF before(j, A) = {} THEN 0 ELSE D[greatest(before(j, A), D)]
  BY Distances
<1> HIDE DEF D
<1>7. /\ j \in Items /\ weight(j) \in Nat
      /\ q \in Seq(A) /\ q \in Seq(Items) /\ chain(q) /\ Len(q) \in Nat /\ Len(q) >= 1 /\ q[Len(q)] = j
  BY <1>5, WeightType
<1>8. CASE Len(q) = 1
  <2>1. <<>> \in Seq(Items) /\ Len(q) = Len(<<>>) + 1 /\ \A n \in 1..Len(<<>>) : q[n] = <<>>[n]
    BY <1>8
  <2>2. load(q) = load(<<>>) + weight(j)
    BY <1>7, <2>1, LoadOneMore
  <2>3. load(q) = weight(j)
    BY <1>7, <2>2, LoadEmpty
  <2>4. D[j] >= weight(j)
    <3>1. CASE before(j, A) = {}
      BY <1>6, <1>7, <3>1
    <3>2. CASE before(j, A) # {}
      <4>1. greatest(before(j, A), D) \in A
        BY <1>1, <3>2, BeforeGrounded, Greatest
      <4>2. D[greatest(before(j, A), D)] \in Nat
        BY <1>1, <4>1
      <4>3. QED
        BY <1>6, <1>7, <3>2, <4>2
    <3>3. QED
      BY <3>1, <3>2
  <2>5. QED
    BY <1>1, <1>5, <1>7, <2>3, <2>4
<1>9. CASE Len(q) # 1
  <2> DEFINE L == Len(q) - 1
             s == [n \in 1..L |-> q[n]]
             d == q[L]
  <2>1. L \in Nat /\ L >= 1 /\ Len(q) = L + 1
    <3>1. \A n \in Nat : n >= 1 /\ n # 1 => n - 1 \in Nat /\ n - 1 >= 1 /\ n = (n - 1) + 1
      OBVIOUS
    <3> HIDE DEF L
    <3>2. QED
      BY <1>7, <1>9, <3>1 DEF L
  <2> HIDE DEF L
  <2>2. s \in Seq(A) /\ s \in Seq(Items) /\ Len(s) = L /\ \A n \in 1..L : s[n] = q[n]
    <3>1. \A n \in 1..L : q[n] \in A
      BY <1>7, <2>1
    <3>2. s \in [1..L -> A] /\ s \in [1..L -> Items]
      BY <3>1
    <3> HIDE DEF s
    <3>3. s \in Seq(A) /\ s \in Seq(Items)
      BY <2>1, <3>2
    <3>4. Len(s) = L
      BY <2>1, <3>2, <3>3
    <3>5. QED
      BY <3>3, <3>4 DEF s
  <2> HIDE DEF s
  <2>3. chain(s)
    <3> SUFFICES ASSUME NEW n \in 1..(Len(s) - 1) PROVE s[n] \in depends[s[n + 1]]
      BY DEF chain
    <3>1. n \in 1..L /\ n + 1 \in 1..L /\ n \in 1..(Len(q) - 1)
      BY <2>1, <2>2
    <3>2. q[n] \in depends[q[n + 1]]
      BY <1>7, <3>1 DEF chain
    <3>3. QED
      BY <2>2, <3>1, <3>2
  <2>4. d \in depends[j] /\ d \in A /\ s[Len(s)] = d
    <3>1. L \in 1..(Len(q) - 1) /\ L \in 1..L
      BY <2>1
    <3>2. q[L] \in depends[q[L + 1]]
      BY <1>7, <3>1 DEF chain
    <3>3. QED
      BY <1>7, <2>1, <2>2, <3>1, <3>2
  <2>5. d \in before(j, A)
    BY <2>4 DEF before
  <2>6. s \in Ends(d)
    BY <2>1, <2>2, <2>3, <2>4
  <2>7. load(s) <= D[d]
    <3>1. d \notin Bad
      BY <1>4, <2>5 DEF Before
    <3>2. QED
      BY <2>4, <2>6, <3>1
  <2>8. load(q) = load(s) + weight(j)
    <3>1. load(q) = load(s) + weight(q[Len(q)])
      BY <1>7, <2>1, <2>2, LoadOneMore
    <3>2. QED
      BY <1>7, <3>1
  <2>9. D[d] <= D[greatest(before(j, A), D)] /\ greatest(before(j, A), D) \in A
    BY <1>1, <2>5, BeforeGrounded, Greatest
  <2>10. D[j] = weight(j) + D[greatest(before(j, A), D)]
    BY <1>6, <2>5
  <2>11. load(s) \in Nat /\ load(q) \in Nat /\ D[d] \in Nat /\ D[greatest(before(j, A), D)] \in Nat
    BY <1>1, <1>7, <2>2, <2>4, <2>9, LoadType
  <2> HIDE DEF d, L
  <2>12. load(q) <= D[j]
    BY <1>7, <2>7, <2>8, <2>9, <2>10, <2>11
  <2>13. QED
    BY <1>5, <2>12
<1>10. QED
  BY <1>8, <1>9

---------------------------------------------------------------------------

\* What CriticalPathIsLongest says of one file.
Longest(f) ==
  LET chains == {p \in UNION {[1..n -> Items] : n \in 1..N} : chain(p)}
  IN  /\ f.path = <<>> \/ f.path \in chains
      /\ free(f, f.path)
      /\ \A p \in chains : free(f, p) => load(p) <= load(f.path)

\* The path of every snapshot is the longest, by PathIsChain and ChainsAreLighter.
LEMMA SnapshotLongest ==
  ASSUME depends \in [Items -> SUBSET Items], validate_acyclic, NEW r, NEW labels
  PROVE  Longest(snapshot(r, labels))
<1> DEFINE f == snapshot(r, labels)
           A == Items \ _blocked_closure(r)
           chains == {p \in UNION {[1..n -> Items] : n \in 1..N} : chain(p)}
<1>1. f.read = r /\ f.path = _longest_weighted_bl_path(r)
  BY DEF snapshot
<1>2. f.path = IF A = {} THEN <<>> ELSE _path(A)[greatest(A, _dist(A))]
  BY <1>1 DEF _longest_weighted_bl_path
<1>3. A \in SUBSET Items /\ N \in Nat
  BY BacklogSize
<1>4. \A i \in Items : i \in A
        <=> \A b \in Items : r[b] = "BLOCKED" => b # i /\ i \notin descendants({b})
  BY BlockedClosure
<1> HIDE DEF f, A
<1>5. \A p \in Seq(Items) : free(f, p) <=> \A n \in DOMAIN p : p[n] \in A
  <2> SUFFICES ASSUME NEW p \in Seq(Items)
               PROVE  free(f, p) <=> \A n \in DOMAIN p : p[n] \in A
    OBVIOUS
  <2>1. \A n \in DOMAIN p : p[n] \in Items
    OBVIOUS
  <2>2. QED
    BY <1>1, <1>4, <2>1 DEF free
<1>6. \A p \in chains : p \in Seq(Items) /\ Len(p) >= 1 /\ chain(p)
  <2> SUFFICES ASSUME NEW p \in chains PROVE p \in Seq(Items) /\ Len(p) >= 1
    OBVIOUS
  <2>1. PICK n \in 1..N : p \in [1..n -> Items]
    OBVIOUS
  <2>2. p \in Seq(Items)
    BY <1>3, <2>1
  <2>3. Len(p) = n
    BY <1>3, <2>1, <2>2
  <2>4. QED
    BY <1>3, <2>2, <2>3
<1>7. \A p \in chains : free(f, p) => p \in Seq(A)
  <2> SUFFICES ASSUME NEW p \in Seq(Items), \A n \in DOMAIN p : p[n] \in A PROVE p \in Seq(A)
    BY <1>5, <1>6
  <2>1. QED
    OBVIOUS
<1>8. CASE A = {}
  <2>1. f.path = <<>> /\ <<>> \in Seq(Items) /\ DOMAIN <<>> = {}
    BY <1>2, <1>8
  <2>2. free(f, f.path)
    BY <2>1 DEF free
  <2>3. \A p \in chains : ~free(f, p)
    <3> SUFFICES ASSUME NEW p \in chains, free(f, p) PROVE FALSE
      OBVIOUS
    <3>1. p \in Seq(A) /\ Len(p) >= 1
      BY <1>6, <1>7
    <3>2. p[1] \in A
      BY <3>1
    <3>3. QED
      BY <1>8, <3>2
  <2>4. QED
    BY <2>1, <2>2, <2>3 DEF Longest, f
<1>9. CASE A # {}
  <2> DEFINE e == greatest(A, _dist(A))
  <2>1. e \in A /\ \A i \in A : _dist(A)[i] <= _dist(A)[e]
    <3>1. IsFiniteSet(A) /\ _dist(A) \in [A -> Nat]
      BY <1>3, BeforeGrounded, Distances
    <3>2. QED
      BY <1>9, <3>1, Greatest
  <2>2. f.path = _path(A)[e]
    BY <1>2, <1>9
  <2> HIDE DEF e
  <2>3. /\ f.path \in Seq(A) /\ chain(f.path) /\ Len(f.path) >= 1
        /\ load(f.path) = _dist(A)[e]
    BY <1>3, <2>1, <2>2, PathIsChain
  <2>4. f.path \in Seq(Items) /\ \A n \in DOMAIN f.path : f.path[n] \in A
    BY <1>3, <2>3
  <2>5. f.path \in chains
    <3>1. Len(f.path) \in 1..N /\ f.path \in [1..Len(f.path) -> Items]
      BY <1>3, <2>3, <2>4, ChainsAreShort
    <3>2. QED
      BY <2>3, <3>1
  <2>6. free(f, f.path)
    BY <1>5, <2>4
  <2>7. ASSUME NEW p \in chains, free(f, p) PROVE load(p) <= load(f.path)
    <3>1. p \in Seq(A) /\ p \in Seq(Items) /\ Len(p) >= 1 /\ chain(p) /\ p[Len(p)] \in A
      BY <1>6, <1>7, <2>7
    <3>2. load(p) <= _dist(A)[p[Len(p)]]
      BY <1>3, <3>1, ChainsAreLighter
    <3>3. _dist(A)[p[Len(p)]] <= _dist(A)[e]
      BY <2>1, <3>1
    <3>4. load(p) \in Nat /\ _dist(A)[p[Len(p)]] \in Nat /\ _dist(A)[e] \in Nat
      BY <1>3, <2>1, <3>1, LoadType, Distances
    <3>5. QED
      BY <2>3, <3>2, <3>3, <3>4
  <2>8. QED
    BY <2>5, <2>6, <2>7 DEF Longest, f
<1>10. QED
  BY <1>8, <1>9

\* The critical path in planning.json is a chain of dependencies that no blocked item
\* reaches, and none of these is heavier, for every graph and all sizes
\* (WavePlanner._longest_weighted_bl_path).
THEOREM CriticalPathPublished == PlanningSpec => []CriticalPathIsLongest
<1>1. Planned => CriticalPathIsLongest
  <2> SUFFICES ASSUME Planned, NEW f \in Published PROVE Longest(f)
    BY DEF CriticalPathIsLongest, Longest, N
  <2>1. f = snapshot(cmd.read, cmd.labels) /\ cmd.pc = "md"
    BY DEF Published, Planned, Snapped
  <2>2. depends \in [Items -> SUBSET Items] /\ validate_acyclic
    BY <2>1 DEF Planned, PlanningTypes, Acyclic
  <2>3. QED
    BY <2>1, <2>2, SnapshotLongest
<1>2. QED
  BY <1>1, PlanningTyped, PTL
================================================================================
