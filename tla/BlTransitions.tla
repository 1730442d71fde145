---------------------------- MODULE BlTransitions ----------------------------
(***************************************************************************)
(* The transition table of a backlog item (BL) and the pure functions of   *)
(* src/src/state/machine.py that read it.  No variable lives here: the     *)
(* abstract life cycle, the state machine over SQLite and the executor all *)
(* share these definitions.                                                *)
(***************************************************************************)

\* The lifecycle statuses of a backlog item.
Status ==
    {"TODO", "READY", "IN_PROGRESS", "IN_TEST", "IN_REVIEW", "BLOCKED", "DONE"}

\* Ordinary targets of each status; DONE has none.
LEGAL_TRANSITIONS ==
    [s \in Status |->
        CASE s = "TODO"        -> {"READY", "IN_PROGRESS", "BLOCKED"}
          [] s = "READY"       -> {"IN_PROGRESS", "BLOCKED", "TODO"}
          [] s = "IN_PROGRESS" -> {"IN_TEST", "BLOCKED"}
          [] s = "IN_TEST"     -> {"IN_REVIEW", "IN_PROGRESS", "BLOCKED"}
          [] s = "IN_REVIEW"   -> {"DONE", "IN_PROGRESS", "BLOCKED"}
          [] s = "BLOCKED"     -> {"IN_PROGRESS"}
          [] s = "DONE"        -> {}]

\* Statuses a NO GO verdict may send back to IN_PROGRESS.
NO_GO_SOURCES == {"IN_TEST", "IN_REVIEW"}

\* Statuses a cycle is left in when its process stops.
INTERRUPTED_STATUSES == {"IN_PROGRESS", "IN_TEST", "IN_REVIEW"}

\* A request for a transition: target status and the two flags of the source.
TransitionRequest ==
    [target : Status, no_go : BOOLEAN, privileged_reopen : BOOLEAN]

\* An ordinary request, a NO GO return and a reopening of a DONE item.
Plain(target) ==
    [target |-> target, no_go |-> FALSE, privileged_reopen |-> FALSE]

NoGo == [target |-> "IN_PROGRESS", no_go |-> TRUE, privileged_reopen |-> FALSE]

Reopen(target) ==
    [target |-> target, no_go |-> FALSE, privileged_reopen |-> TRUE]

\* Whether request r is legal from status current.  The flag for a reopening
\* replaces the table; a NO GO return and an ordinary return to IN_PROGRESS
\* exclude each other.
can_transition(current, r) ==
    IF r.privileged_reopen
    THEN current = "DONE" /\ r.target \in {"IN_PROGRESS", "TODO", "BLOCKED"}
    ELSE /\ r.target \in LEGAL_TRANSITIONS[current]
         /\ r.no_go <=> (current \in NO_GO_SOURCES /\ r.target = "IN_PROGRESS")

\* The journal event of a transition that was checked from status current; the
\* source returns at the first condition that holds.
event_type_for_transition(current, r) ==
    IF r.privileged_reopen /\ current = "DONE" THEN "ROLLED_BACK"
    ELSE IF r.target = "BLOCKED" THEN "BL_BLOCKED"
    ELSE IF r.no_go /\ current = "IN_TEST" THEN "TEST_NO_GO"
    ELSE IF r.no_go /\ current = "IN_REVIEW" THEN "REVIEW_NO_GO"
    ELSE IF r.target = "IN_REVIEW" THEN "TEST_GO"
    ELSE IF r.target = "DONE" THEN "MERGED"
    ELSE IF r.target = "IN_PROGRESS" /\ current \in {"TODO", "READY"}
         THEN "BL_ASSIGNED"
    ELSE IF r.target = "IN_TEST" THEN "DEV_COMPLETED"
    ELSE "BL_STATUS_CHANGED"

\* Every event type a transition can write.
TransitionEvents ==
    {"ROLLED_BACK", "BL_BLOCKED", "TEST_NO_GO", "REVIEW_NO_GO", "TEST_GO",
     "MERGED", "BL_ASSIGNED", "DEV_COMPLETED", "BL_STATUS_CHANGED"}

\* The NO GO events, which the iteration cap counts.
NO_GO_EVENT_TYPES == {"TEST_NO_GO", "REVIEW_NO_GO"}
=============================================================================
