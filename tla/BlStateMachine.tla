--------------------------- MODULE BlStateMachine ----------------------------
(***************************************************************************)
(* BlStateMachine.transition over the SQLite store, called by several      *)
(* processes (forge run, forge revert, forge repair-state, the scheduler's *)
(* workers): each reads the status and checks the request outside any      *)
(* transaction, then opens BEGIN IMMEDIATE, reads the status again, and    *)
(* writes the new status, the iteration and the journal event without      *)
(* checking again.                                                         *)
(*                                                                         *)
(* The journal is kept per backlog item, as list_events filtered on bl_id  *)
(* gives it; the order of events of different items is not used here.      *)
(***************************************************************************)
EXTENDS BlTransitions, Naturals, Sequences, FiniteSets

CONSTANTS
    Bls,            \* backlog item identifiers
    Callers,        \* processes sharing the state database
    Unregistered,   \* no row in bl_status yet
    Idle,           \* a caller outside transition()
    MaxEvents       \* bound on the events of one item, pending ones included

ASSUME MachineAssumption ==
    /\ Unregistered \notin Status
    /\ MaxEvents \in Nat

VARIABLES
    status,         \* bl_status.status of each item
    iteration,      \* iterations.iteration of each item
    journal,        \* the transition events of each item, oldest first
    call            \* per caller: the checked, not yet committed transition

vars == <<status, iteration, journal, call>>

\* A transition that passed its check: the item, the status it was checked
\* against, and the request.
Pending == [bl : Bls, seen : Status, request : TransitionRequest]

\* A journal row of a transition.
Event ==
    [type : TransitionEvents, from : Status, to : Status,
     no_go : BOOLEAN, privileged_reopen : BOOLEAN]

PendingOn(b) == {c \in Callers : call[c] # Idle /\ call[c].bl = b}

Init ==
    /\ status = [b \in Bls |-> Unregistered]
    /\ iteration = [b \in Bls |-> 0]
    /\ journal = [b \in Bls |-> <<>>]
    /\ call = [c \in Callers |-> Idle]

\* register_bl: the status row and the first iteration, in one commit.
register_bl(b) ==
    /\ status[b] = Unregistered
    /\ status' = [status EXCEPT ![b] = "TODO"]
    /\ iteration' = [iteration EXCEPT ![b] = 1]
    /\ UNCHANGED <<journal, call>>

\* Mutant of permitted: the two flags are not examined.
Bug_flags_ignored(b, r) ==
    r.privileged_reopen \/ r.target \in LEGAL_TRANSITIONS[status[b]]

\* The check of transition(), against the row read outside any transaction.
permitted(b, r) == can_transition(status[b], r)

\* First half of transition(): read the row, refuse an illegal request (the
\* refusal raises and changes nothing), keep the rest for the commit.
transition(c, b, r) ==
    /\ call[c] = Idle
    /\ status[b] # Unregistered
    /\ permitted(b, r)
    /\ Len(journal[b]) + Cardinality(PendingOn(b)) < MaxEvents
    /\ call' =
           [call EXCEPT ![c] = [bl |-> b, seen |-> status[b], request |-> r]]
    /\ UNCHANGED <<status, iteration, journal>>

\* Mutants of event_row: from_status is the status of the check; the event is
\* named after the target status.
Bug_from_stale_read(seen, current, r) ==
    [type |-> event_type_for_transition(seen, r), from |-> seen,
     to |-> r.target, no_go |-> r.no_go,
     privileged_reopen |-> r.privileged_reopen]

Bug_event_named_after_status(seen, current, r) ==
    [type |-> r.target, from |-> current,
     to |-> r.target, no_go |-> r.no_go,
     privileged_reopen |-> r.privileged_reopen]

\* The journal row: its type comes from the status that was checked, its
\* from_status from the status read again inside the transaction.
event_row(seen, current, r) ==
    [type |-> event_type_for_transition(seen, r),
     from |-> current,
     to |-> r.target,
     no_go |-> r.no_go,
     privileged_reopen |-> r.privileged_reopen]

\* Mutant of next_iteration: unblocking an item counts as a correction.
Bug_unblock_counts(n, current, target) ==
    IF target = "IN_PROGRESS" /\ current \notin {"TODO", "READY"}
    THEN n + 1 ELSE n

\* The iterations row after a transition written from status current.
next_iteration(n, current, target) ==
    IF target = "IN_PROGRESS" /\ current \in NO_GO_SOURCES THEN n + 1 ELSE n

\* Second half, one transaction: status, iteration and event together.
transition_bl_status(c) ==
    /\ call[c] # Idle
    /\ LET b       == call[c].bl
           r       == call[c].request
           current == status[b]
       IN  /\ status' = [status EXCEPT ![b] = r.target]
           /\ iteration' =
                  [iteration EXCEPT ![b] = next_iteration(@, current, r.target)]
           /\ journal' =
                  [journal EXCEPT
                     ![b] = Append(@, event_row(call[c].seen, current, r))]
    /\ call' = [call EXCEPT ![c] = Idle]

\* The process dies, or SQLite refuses the lock, before the commit.
Abort(c) ==
    /\ call[c] # Idle
    /\ call' = [call EXCEPT ![c] = Idle]
    /\ UNCHANGED <<status, iteration, journal>>

Next ==
    \/ \E b \in Bls : register_bl(b)
    \/ \E c \in Callers, b \in Bls, r \in TransitionRequest : transition(c, b, r)
    \/ \E c \in Callers : transition_bl_status(c)
    \/ \E c \in Callers : Abort(c)

Spec == Init /\ [][Next]_vars

-----------------------------------------------------------------------------
(***************************************************************************)
(* Properties.                                                             *)
(***************************************************************************)

\* Every variable has its type.
TypeOK ==
    /\ status \in [Bls -> Status \cup {Unregistered}]
    /\ iteration \in [Bls -> Nat]
    /\ journal \in [Bls -> Seq(Event)]
    /\ call \in [Callers -> Pending \cup {Idle}]

\* A log of transition events replays to status s: each event starts where the
\* previous one ended, the first at TODO, and the last one ends at s.
Replays(log, s) ==
    /\ \A i \in 1..Len(log) :
           log[i].from = IF i = 1 THEN "TODO" ELSE log[i - 1].to
    /\ IF s = Unregistered
       THEN Len(log) = 0
       ELSE s = IF Len(log) = 0 THEN "TODO" ELSE log[Len(log)].to

\* The journal replays to the persisted status, whatever callers interleave
\* (EXG-ETA-02: the state views are projections of the journal).
JournalIsChain == \A b \in Bls : Replays(journal[b], status[b])

\* The events of a log that leave test or review for development.
Returns(log) ==
    {i \in 1..Len(log) :
        log[i].to = "IN_PROGRESS" /\ log[i].from \in NO_GO_SOURCES}

\* The iterations table, updated beside the journal, never drifts from what the
\* journal says: one more than the returns to development it records.
IterationMatchesJournal ==
    \A b \in Bls :
        status[b] # Unregistered =>
            iteration[b] = Cardinality(Returns(journal[b])) + 1

\* An event's edge is legal for the flags written beside it.
LegalEvent(e) ==
    can_transition(e.from,
        [target |-> e.to, no_go |-> e.no_go,
         privileged_reopen |-> e.privileged_reopen])

\* The journal holds legal transitions only.  The code promises it ("Apply a
\* legal status transition and persist it transactionally"); it takes the
\* assumption that calls do not overlap to prove it.
JournalIsLegal ==
    \A b \in Bls : \A i \in DOMAIN journal[b] : LegalEvent(journal[b][i])

\* An illegal status change is never the fault of the check itself: some call
\* on that item was checked against a status that has changed since.
IllegalOnlyByRace ==
    [][\A b \in Bls :
         Len(journal'[b]) > Len(journal[b]) =>
             \/ LegalEvent(journal'[b][Len(journal'[b])])
             \/ \E c \in PendingOn(b) : call[c].seen # status[b]]_vars

\* Overlapping calls are impossible when one process alone uses the database.
OneCaller == \A c, d \in Callers : c = d

\* The abstract life cycle, over the same status and iteration.
Lifecycle == INSTANCE BlLifecycle
=============================================================================
