----------------------------- MODULE BlLifecycle -----------------------------
(***************************************************************************)
(* What the state machine of src/src/state/machine.py promises: the status *)
(* of a backlog item moves only along legal transitions, each one atomic,  *)
(* and its iteration number counts the returns to development.  Nothing is *)
(* said of how a transition is checked and written.                        *)
(***************************************************************************)
EXTENDS BlTransitions, Naturals

CONSTANTS
    Bls,            \* backlog item identifiers
    Unregistered    \* no row in bl_status yet

VARIABLES
    status,         \* bl_status.status
    iteration       \* iterations.iteration, 0 before registration

lifecycleVars == <<status, iteration>>

Init ==
    /\ status = [b \in Bls |-> Unregistered]
    /\ iteration = [b \in Bls |-> 0]

\* A backlog item enters the run as TODO, in its first iteration.
Register(b) ==
    /\ status[b] = Unregistered
    /\ status' = [status EXCEPT ![b] = "TODO"]
    /\ iteration' = [iteration EXCEPT ![b] = 1]

\* Leaving test or review for development starts a new iteration.
IterationAfter(n, from, to) ==
    IF to = "IN_PROGRESS" /\ from \in NO_GO_SOURCES THEN n + 1 ELSE n

\* One legal transition, checked and applied in one step.
Transition(b, r) ==
    /\ status[b] # Unregistered
    /\ can_transition(status[b], r)
    /\ status' = [status EXCEPT ![b] = r.target]
    /\ iteration' =
           [iteration EXCEPT ![b] = IterationAfter(@, status[b], r.target)]

Next ==
    \E b \in Bls :
        \/ Register(b)
        \/ \E r \in TransitionRequest : Transition(b, r)

Spec == Init /\ [][Next]_lifecycleVars
=============================================================================
