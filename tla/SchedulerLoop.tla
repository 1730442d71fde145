---------------------------- MODULE SchedulerLoop ----------------------------
(***************************************************************************)
(* The asyncio worker pool of forge run --workers N                        *)
(* (src/src/scheduler/loop.py), assembled as run_scheduler of the command  *)
(* line assembles it: eligibility scoring and the provider limiter at      *)
(* work, no paused target and no recorded contention.                      *)
(*                                                                         *)
(* The loop is one coroutine, each worker another; a step runs from one    *)
(* await to the next, and the workers and the SIGINT handler run in        *)
(* between.                                                                *)
(***************************************************************************)
EXTENDS Naturals, Sequences, FiniteSets

CONSTANTS
    N,              \* backlog items, numbered in the lexicographic order of ids
    Dependencies,   \* depends_on of each item
    Overlapping,    \* the pairs of items whose scopes overlap
    Score,          \* eligibility score of each item when it overlaps nothing
    Threshold,      \* score below which an item is deferred
    Workers,        \* concurrent workers
    Cap,            \* slots of the provider
    Results         \* how run_bl may end in a worker

Items == 1..N

\* The item is merged; it is blocked; it waits for an approval; ForgeCliError,
\* which the exhaustion of every provider raises after a merge as well.
RunResults == {"merged", "blocked", "awaiting", "error", "merged_exhausted"}

ASSUME SchedulerAssumption ==
    /\ N \in Nat
    /\ Dependencies \in [Items -> SUBSET Items]
    /\ Overlapping \subseteq SUBSET Items
    /\ Score \in [Items -> Nat] /\ Threshold \in Nat
    /\ Workers \in Nat \ {0} /\ Cap \in Nat \ {0}
    /\ Results \subseteq RunResults

VARIABLES
    pc,             \* where the loop's coroutine stands
    statuses,       \* _statuses: the loop's own view of each item
    outcomes,       \* outcome per item, "none" before it has finished
    running,        \* items assigned and not collected
    launchable,     \* what is left to launch in this pass
    current,        \* the item being assigned while BL_ASSIGNED is written, or 0
    started,        \* items in the order they were assigned
    finished,       \* tasks asyncio.wait returned, still to be collected
    task,           \* where each worker's coroutine stands
    result,         \* what its run_bl returned
    merged,         \* items whose persisted status is DONE
    stop            \* the stop event

vars == <<pc, statuses, outcomes, running, launchable, current, started,
          finished, task, result, merged, stop>>

loopState == <<statuses, outcomes, running, launchable, current, started, finished>>

ViewStatus == {"TODO", "DONE", "BLOCKED", "INTERRUPTED"}

\* A run starts from any persisted statuses; the graph is not consulted by
\* forge run --bl, so an item may be done before its dependencies.
Init ==
    /\ pc = "select"
    /\ statuses \in [Items -> ViewStatus]
    /\ outcomes = [b \in Items |-> "none"]
    /\ running = {}
    /\ launchable = {}
    /\ current = 0
    /\ started = <<>>
    /\ finished = {}
    /\ task = [b \in Items |-> "idle"]
    /\ result = [b \in Items |-> "none"]
    /\ merged = {b \in Items : statuses[b] = "DONE"}
    /\ stop = FALSE

-----------------------------------------------------------------------------
(* Selection *)

dependencies_satisfied(b) == \A d \in Dependencies[b] : statuses[d] = "DONE"

is_backlog_item_runnable(b) == statuses[b] = "TODO" /\ dependencies_satisfied(b)

\* Mutant of ready: what runs is not left out.
Bug_runs_again ==
    {b \in Items : is_backlog_item_runnable(b) /\ outcomes[b] = "none"}

\* The list is recomputed without what runs and what has an outcome.
ready ==
    {b \in Items :
        /\ is_backlog_item_runnable(b)
        /\ b \notin running
        /\ outcomes[b] = "none"}

scopes_overlap(b, c) == {b, c} \in Overlapping

\* Score zero, so never eligible, next to a running item of the same scope.
eligible(b) ==
    /\ \A r \in running : ~scopes_overlap(b, r)
    /\ Score[b] >= Threshold

\* The least risky item, the first of them in the order of the list.
best_of(items) ==
    {b \in items :
        \A c \in items : Score[b] > Score[c] \/ (Score[b] = Score[c] /\ b <= c)}

\* Mutant of _launchable: nothing goes alone.
Bug_no_solo == {b \in ready : eligible(b)}

\* Nothing eligible and nothing running: one item goes alone.
_launchable ==
    LET chosen == {b \in ready : eligible(b)}
    IN  IF chosen = {} /\ running = {} /\ ready # {}
        THEN best_of(ready) ELSE chosen

-----------------------------------------------------------------------------
(* The pool *)

Active == {"created", "provision", "slot", "run"}

\* Mutant of in_flight: finished tasks are not counted.
Bug_only_live == {b \in Items : task[b] \in Active}

\* A finished task stays in flight until the loop collects it.
in_flight == {b \in Items : task[b] \notin {"idle", "gone"}}

in_use == Cardinality({b \in Items : task[b] = "run"})

_provider_saturated == in_use >= Cap

\* Mutant of _overlapping_runner: the list is trusted as it was computed.
Bug_no_second_look(b) == FALSE

\* An item claimed in this very pass is in running as well.
_overlapping_runner(b) == \E r \in running : scopes_overlap(b, r)

\* Mutant of may_launch: the ceiling is off by one.
Bug_one_worker_too_many ==
    /\ launchable # {}
    /\ Cardinality(in_flight) <= Workers
    /\ ~_provider_saturated

\* Whether one more item of the pass may be launched.
may_launch ==
    /\ launchable # {}
    /\ Cardinality(in_flight) < Workers
    /\ ~_provider_saturated

\* The stop event is read here, once for the whole pass.
select ==
    /\ pc = "select"
    /\ launchable' = IF stop THEN {} ELSE _launchable
    /\ pc' = "launch"
    /\ UNCHANGED <<statuses, outcomes, running, current, started, finished,
                   task, result, merged, stop>>

\* The head of the list overlaps an item launched in this pass.
serialise(b) ==
    /\ pc = "launch" /\ may_launch
    /\ b \in launchable /\ \A c \in launchable : b <= c
    /\ _overlapping_runner(b)
    /\ launchable' = launchable \ {b}
    /\ UNCHANGED <<pc, statuses, outcomes, running, current, started, finished,
                   task, result, merged, stop>>

\* The head of the list is claimed, then BL_ASSIGNED is written: an await.
assign(b) ==
    /\ pc = "launch" /\ may_launch
    /\ b \in launchable /\ \A c \in launchable : b <= c
    /\ ~_overlapping_runner(b)
    /\ launchable' = launchable \ {b}
    /\ running' = running \cup {b}
    /\ started' = Append(started, b)
    /\ current' = b
    /\ pc' = "assigning"
    /\ UNCHANGED <<statuses, outcomes, finished, task, result, merged, stop>>

create_task ==
    /\ pc = "assigning"
    /\ task' = [task EXCEPT ![current] = "created"]
    /\ current' = 0
    /\ pc' = "launch"
    /\ UNCHANGED <<statuses, outcomes, running, launchable, started, finished,
                   result, merged, stop>>

\* Mutant of exhausted: the loop stays as long as an item is ready.
Bug_waits_for_ready == in_flight = {} /\ ready = {}

\* The loop leaves when no worker is in flight, and waits for one otherwise.
exhausted == in_flight = {}

leave ==
    /\ pc = "launch" /\ ~may_launch
    /\ pc' = IF exhausted THEN "ended" ELSE "waiting"
    /\ UNCHANGED <<loopState, task, result, merged, stop>>

\* asyncio.wait returns every task that is done when the loop wakes up.
wake ==
    /\ pc = "waiting"
    /\ \E b \in in_flight : task[b] \notin Active
    /\ finished' = {b \in in_flight : task[b] \notin Active}
    /\ pc' = "collect"
    /\ UNCHANGED <<statuses, outcomes, running, launchable, current, started,
                   task, result, merged, stop>>

\* Mutant of outcome_of: a run that raised is taken for a finished one.
Bug_error_is_done(r) == IF r = "blocked" THEN "BLOCKED" ELSE "DONE"

\* _SchedulerBlRunner.run: not blocked is done, a ForgeCliError is blocked.
outcome_of(r) ==
    IF r \in {"blocked", "error", "merged_exhausted"} THEN "BLOCKED" ELSE "DONE"

\* One finished task, in any order of the set; WORKER_STOPPED is written after
\* each.  An exception of the worker is raised here.
collect(b) ==
    /\ pc = "collect" /\ b \in finished
    /\ finished' = finished \ {b}
    /\ running' = running \ {b}
    /\ task' = [task EXCEPT ![b] = "gone"]
    /\ IF task[b] = "raised"
       THEN /\ pc' = "cancel"
            /\ UNCHANGED <<outcomes, statuses>>
       ELSE /\ pc' = IF finished' = {} THEN "select" ELSE "collect"
            /\ outcomes' = [outcomes EXCEPT ![b] = outcome_of(result[b])]
            /\ statuses' = [statuses EXCEPT ![b] = outcome_of(result[b])]
    /\ UNCHANGED <<launchable, current, started, result, merged, stop>>

\* The finally clause: the siblings are cancelled, then gathered.
cancel_siblings ==
    /\ pc = "cancel"
    /\ task' = [b \in Items |-> IF task[b] \in Active THEN "cancelled" ELSE task[b]]
    /\ pc' = "gather"
    /\ UNCHANGED <<loopState, result, merged, stop>>

\* Mutant of gathered: the cancelled workers are not awaited.
Bug_not_gathered == TRUE

\* gather returns when every cancelled worker has unwound.
gathered == \A b \in Items : task[b] \notin Active \cup {"cancelled"}

raise ==
    /\ pc = "gather" /\ gathered
    /\ pc' = "failed"
    /\ UNCHANGED <<loopState, task, result, merged, stop>>

-----------------------------------------------------------------------------
(* One worker: _run_one *)

moves(b, to) ==
    /\ task' = [task EXCEPT ![b] = to]
    /\ UNCHANGED <<pc, loopState, stop>>

\* WORKER_STARTED is written; the database may refuse.
worker_started(b) ==
    /\ task[b] = "created"
    /\ moves(b, "provision") \/ moves(b, "raised")
    /\ UNCHANGED <<result, merged>>

\* The worktree is found or created; git may refuse.
provision(b) ==
    /\ task[b] = "provision"
    /\ moves(b, "slot") \/ moves(b, "raised")
    /\ UNCHANGED <<result, merged>>

\* The semaphore of the provider.
slot_free == in_use < Cap

acquire_slot(b) ==
    /\ task[b] = "slot" /\ slot_free
    /\ moves(b, "run")
    /\ UNCHANGED <<result, merged>>

\* The cycle of the item ends, the slot and the worktree are released.
run(b, r) ==
    /\ task[b] = "run"
    /\ moves(b, "returned")
    /\ result' = [result EXCEPT ![b] = r]
    /\ merged' = IF r \in {"merged", "merged_exhausted"} THEN merged \cup {b} ELSE merged

\* An exception that is not a ForgeCliError leaves the runner.
run_raises(b) ==
    task[b] = "run" /\ moves(b, "raised") /\ UNCHANGED <<result, merged>>

\* A cancelled worker releases what it holds.
unwind(b) ==
    task[b] = "cancelled" /\ moves(b, "returned") /\ UNCHANGED <<result, merged>>

\* SIGINT
stop_signal ==
    /\ ~stop
    /\ stop' = TRUE
    /\ UNCHANGED <<pc, loopState, task, result, merged>>

loopStep ==
    \/ select
    \/ \E b \in Items : serialise(b) \/ assign(b) \/ collect(b)
    \/ create_task \/ leave \/ wake \/ cancel_siblings \/ raise

workerStep(b) ==
    \/ worker_started(b)
    \/ provision(b)
    \/ acquire_slot(b)
    \/ \E r \in Results : run(b, r)
    \/ run_raises(b)
    \/ unwind(b)

Next == loopStep \/ (\E b \in Items : workerStep(b)) \/ stop_signal

\* The event loop runs every coroutine that can run, and a role that a worker
\* waits for ends by its timeout.
Fairness == WF_vars(loopStep) /\ \A b \in Items : WF_vars(workerStep(b))

Spec == Init /\ [][Next]_vars /\ Fairness
-----------------------------------------------------------------------------
(* Properties *)

TaskState == Active \cup {"idle", "returned", "raised", "cancelled", "gone"}

\* Every variable keeps its type, and a task exists exactly for the running items
\* other than the one being assigned (in_flight and running agree).
TypeOK ==
    /\ pc \in {"select", "launch", "assigning", "waiting", "collect", "cancel",
              "gather", "ended", "failed"}
    /\ statuses \in [Items -> ViewStatus]
    /\ outcomes \in [Items -> {"none", "DONE", "BLOCKED"}]
    /\ running \subseteq Items /\ launchable \subseteq Items
    /\ finished \subseteq Items /\ merged \subseteq Items
    /\ current \in Items \cup {0} /\ (current # 0 <=> pc = "assigning")
    /\ started \in Seq(Items)
    /\ task \in [Items -> TaskState]
    /\ result \in [Items -> RunResults \cup {"none"}]
    /\ stop \in BOOLEAN
    /\ in_flight = running \ {current}

\* No worker touches an item before each of its dependencies is merged: the view
\* the loop keeps in _statuses is fed by outcomes and never re-read from the
\* database, so it must not run ahead of what the runner did.
DependenciesMerged ==
    \A b \in Items :
        task[b] \in Active \cup {"returned", "raised", "cancelled"} =>
            Dependencies[b] \subseteq merged

\* Whatever the runner comes to, a dependency that is not merged when a worker
\* touches an item awaits the approval of its merge: of the results that the runner
\* reports as done (_SchedulerBlRunner.run) no other leaves the item unmerged.
DependenciesMergedOrHeld ==
    \A b \in Items :
        task[b] \in Active \cup {"returned", "raised", "cancelled"} =>
            \A d \in Dependencies[b] : d \in merged \/ result[d] = "awaiting"

\* Two items of overlapping scopes are never in flight together, though both may
\* be eligible when a pass starts.
ScopesSerialised ==
    \A b, c \in running : b # c => ~scopes_overlap(b, c)

\* Never more tasks than workers, nor more cycles than the provider has slots,
\* though several items are launched before the first of them takes a slot.
WithinCeilings == Cardinality(in_flight) <= Workers /\ in_use <= Cap

\* An item is assigned at most once in the life of a pool, while its persisted
\* status and the view of the loop lag behind its worker.
AssignedOnce ==
    \A i, j \in 1..Len(started) : started[i] = started[j] => i = j

\* Whichever way the loop ends, no worker outlives it; and when it ends by
\* itself every assigned item has been accounted for.
NoWorkerOutlives ==
    /\ pc \in {"ended", "failed"} =>
           \A b \in Items : task[b] \notin Active \cup {"cancelled"}
    /\ pc = "ended" => \A i \in 1..Len(started) : outcomes[started[i]] # "none"

\* A pool that was not stopped ends only when nothing more could run: deferred
\* items are run alone rather than starved.
NothingReadyIsLeft == pc = "ended" /\ ~stop => ready = {}

\* The pool comes to an end.
PoolTerminates == <>(pc \in {"ended", "failed"})
=============================================================================
