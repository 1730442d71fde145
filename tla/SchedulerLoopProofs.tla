------------------------- MODULE SchedulerLoopProofs -------------------------
(***************************************************************************)
(* The worker pool, for any backlog, any scopes and any number of workers: *)
(* the types, at most one assignment per item, overlapping scopes one at a *)
(* time, the ceilings of workers and slots, how the pool ends, and, before *)
(* an item is touched, dependencies merged or waiting for the approval of  *)
(* their merge.                                                            *)
(***************************************************************************)
EXTENDS SchedulerLoop, SequenceTheorems, FiniteSetTheorems, WellFoundedInduction, TLAPS

\* What the loop has claimed is neither listed again nor finished.
Claimed ==
    /\ current # 0 => current \in running
    /\ \A b \in launchable : b \notin running /\ outcomes[b] = "none"

\* Only finished tasks are collected, and only a failing loop cancels.
Collected ==
    /\ \A b \in finished : b \in in_flight /\ task[b] \in {"returned", "raised"}
    /\ \A b \in Items : task[b] = "cancelled" => pc \in {"gather", "failed"}

\* Until the loop fails, every assigned item runs or has an outcome.
Accounted ==
    pc \notin {"cancel", "gather", "failed"} =>
        \A i \in 1..Len(started) :
            started[i] \in running \/ outcomes[started[i]] # "none"

\* A task that returned by itself has a result, and a merge is a fact.
Resulted ==
    /\ \A b \in Items : task[b] = "returned" /\ pc \notin {"gather", "failed"} =>
                            result[b] \in Results
    /\ \A b \in Items : result[b] = "merged" => b \in merged
    /\ \A b \in Items : result[b] \in Results \cup {"none"}

\* What is merged, or will be when it is approved, and is not touched again.
Settled(b) ==
    b \in merged \/ (result[b] = "awaiting" /\ task[b] \in {"returned", "gone"})

\* What the loop believes done is settled, and it claims on that belief.
Met ==
    /\ \A b \in Items : statuses[b] = "DONE" => Settled(b)
    /\ \A b \in running \cup launchable : \A d \in Dependencies[b] : Settled(d)

\* A task is made for an item that had none.
Untouched ==
    /\ current # 0 => outcomes[current] = "none"
    /\ \A b \in Items : task[b] = "gone" =>
           outcomes[b] # "none" \/ pc \in {"cancel", "gather", "failed"}

Structure == TypeOK /\ Claimed /\ Collected

\* The items of a pass are ready when the pass is computed.
LEMMA LaunchableIsReady == _launchable \subseteq ready
  BY DEF _launchable, best_of

LEMMA StructureInit == Init => Structure
  <1> SUFFICES ASSUME Init PROVE Structure
    OBVIOUS
  <1>1. started \in Seq(Items)
    BY DEF Init
  <1>2. in_flight = running \ {current}
    BY DEF Init, in_flight
  <1> QED
    BY <1>1, <1>2, SchedulerAssumption
       DEF Init, Structure, TypeOK, Claimed, Collected, TaskState, Active, Items

\* A worker that moves from one state of its task to another leaves the books of
\* the loop alone.
LEMMA WorkerMoves ==
    ASSUME Structure, NEW b \in Items, NEW to \in TaskState \ {"idle", "gone", "cancelled"},
           task[b] \in Active \cup {"cancelled"}, moves(b, to),
           result' \in [Items -> RunResults \cup {"none"}], merged' \subseteq Items
    PROVE  Structure'
  <1> USE DEF Structure
  <1>1. /\ task' = [task EXCEPT ![b] = to]
        /\ UNCHANGED <<pc, statuses, outcomes, running, launchable, current, started,
                       finished, stop>>
    BY DEF moves, loopState
  <1>2. task' \in [Items -> TaskState]
    BY <1>1 DEF TypeOK
  <1>3. \A c \in Items : task'[c] = IF c = b THEN to ELSE task[c]
    BY <1>1 DEF TypeOK
  <1>4. in_flight' = in_flight
    BY <1>3 DEF in_flight, Active
  <1>5. TypeOK'
    BY <1>1, <1>2, <1>4 DEF TypeOK
  <1>6. Claimed'
    BY <1>1 DEF Claimed
  <1>7. Collected'
    <2>1. b \notin finished
      BY DEF Collected, Active
    <2>2. \A c \in finished' : c \in Items /\ c # b
      BY <1>1, <2>1 DEF TypeOK
    <2> QED
      BY <1>1, <1>3, <1>4, <2>2 DEF Collected
  <1> QED
    BY <1>5, <1>6, <1>7

LEMMA WorkerStep ==
    ASSUME Structure, NEW b \in Items, workerStep(b) PROVE Structure'
  <1>1. /\ result \in [Items -> RunResults \cup {"none"}] /\ merged \subseteq Items
        /\ Results \subseteq RunResults
    BY SchedulerAssumption DEF Structure, TypeOK
  <1>2. PICK to \in TaskState \ {"idle", "gone", "cancelled"} :
            /\ task[b] \in Active \cup {"cancelled"} /\ moves(b, to)
            /\ result' \in [Items -> RunResults \cup {"none"}] /\ merged' \subseteq Items
    <2>1. CASE worker_started(b)
      BY <1>1, <2>1 DEF worker_started, TaskState, Active
    <2>2. CASE provision(b)
      BY <1>1, <2>2 DEF provision, TaskState, Active
    <2>3. CASE acquire_slot(b)
      BY <1>1, <2>3 DEF acquire_slot, TaskState, Active
    <2>4. ASSUME NEW r \in Results, run(b, r)
          PROVE  /\ task[b] \in Active /\ moves(b, "returned")
                 /\ result' \in [Items -> RunResults \cup {"none"}] /\ merged' \subseteq Items
      BY <1>1, <2>4 DEF run, Active
    <2>5. CASE run_raises(b)
      BY <1>1, <2>5 DEF run_raises, TaskState, Active
    <2>6. CASE unwind(b)
      BY <1>1, <2>6 DEF unwind, TaskState, Active
    <2> QED
      BY <2>1, <2>2, <2>3, <2>4, <2>5, <2>6 DEF workerStep, TaskState
  <1> QED
    BY <1>2, WorkerMoves

LEMMA LoopStep == Structure /\ loopStep => Structure'
  <1> SUFFICES ASSUME Structure, loopStep PROVE Structure'
    OBVIOUS
  <1> USE DEF Structure
  <1>0. 0 \notin Items
    BY DEF Items
  <1>1. CASE select
    <2>1. launchable' \subseteq ready
      BY <1>1, LaunchableIsReady DEF select
    <2>2. UNCHANGED <<statuses, outcomes, running, current, started, finished, task,
                      result, merged, stop>> /\ pc = "select" /\ pc' = "launch"
      BY <1>1 DEF select
    <2>3. in_flight' = in_flight
      BY <2>2 DEF in_flight
    <2>4. TypeOK'
      BY <2>1, <2>2, <2>3 DEF TypeOK, ready
    <2>5. Claimed'
      BY <2>1, <2>2 DEF Claimed, ready
    <2>6. Collected'
      BY <2>2, <2>3 DEF Collected
    <2> QED
      BY <2>4, <2>5, <2>6
  <1>2. ASSUME NEW b \in Items, serialise(b) PROVE Structure'
    <2>1. in_flight' = in_flight
      BY <1>2 DEF serialise, in_flight
    <2> QED
      BY <1>2, <2>1 DEF serialise, TypeOK, Claimed, Collected
  <1>3. ASSUME NEW b \in Items, assign(b) PROVE Structure'
    <2>1. /\ b \in launchable /\ launchable' = launchable \ {b}
          /\ running' = running \cup {b} /\ current' = b /\ pc = "launch"
          /\ pc' = "assigning" /\ started' = Append(started, b)
          /\ UNCHANGED <<statuses, outcomes, finished, task, result, merged, stop>>
      BY <1>3 DEF assign
    <2>2. current = 0 /\ b \notin running /\ b # 0
      BY <1>0, <2>1 DEF TypeOK, Claimed
    <2>3. in_flight' = in_flight
      BY <2>1 DEF in_flight
    <2>4. in_flight' = running' \ {current'}
      BY <1>0, <2>1, <2>2, <2>3 DEF TypeOK
    <2>5. started' \in Seq(Items)
      BY <2>1 DEF TypeOK
    <2>6. TypeOK'
      BY <2>1, <2>2, <2>4, <2>5 DEF TypeOK
    <2>7. Claimed'
      BY <2>1 DEF Claimed
    <2>8. Collected'
      BY <2>1, <2>3 DEF Collected
    <2> QED
      BY <2>6, <2>7, <2>8
  <1>4. CASE create_task
    <2>1. /\ pc = "assigning" /\ pc' = "launch" /\ current' = 0
          /\ task' = [task EXCEPT ![current] = "created"]
          /\ UNCHANGED <<statuses, outcomes, running, launchable, started, finished,
                         result, merged, stop>>
      BY <1>4 DEF create_task
    <2>2. current \in Items /\ current \in running
      BY <2>1 DEF TypeOK, Claimed
    <2>3. \A c \in Items : task'[c] = IF c = current THEN "created" ELSE task[c]
      BY <2>1 DEF TypeOK
    <2>4. in_flight' = running' \ {current'}
      BY <1>0, <2>1, <2>2, <2>3 DEF TypeOK, in_flight
    <2>5. task' \in [Items -> TaskState]
      BY <2>1 DEF TypeOK, TaskState, Active
    <2>6. TypeOK'
      BY <2>1, <2>4, <2>5 DEF TypeOK
    <2>7. Collected'
      <3>1. current \notin finished
        BY DEF TypeOK, Collected
      <3>2. \A c \in finished' : c \in Items /\ c # current
        BY <2>1, <3>1 DEF TypeOK
      <3>3. \A c \in finished' : c \in in_flight'
        BY <2>1, <2>3, <3>2 DEF Collected, in_flight
      <3>4. \A c \in Items : task'[c] # "cancelled"
        BY <2>1, <2>3 DEF Collected
      <3> QED
        BY <2>1, <2>3, <3>2, <3>3, <3>4 DEF Collected
    <2> QED
      BY <2>1, <2>6, <2>7 DEF Claimed
  <1>5. CASE leave
    <2>1. in_flight' = in_flight
      BY <1>5 DEF leave, in_flight, loopState
    <2> QED
      BY <1>5, <2>1 DEF leave, loopState, TypeOK, Claimed, Collected
  <1>6. CASE wake
    <2>1. in_flight' = in_flight
      BY <1>6 DEF wake, in_flight
    <2>2. \A b \in in_flight : task[b] \notin Active => task[b] \in {"returned", "raised"}
      BY <1>6 DEF wake, in_flight, TypeOK, TaskState, Collected
    <2>3. in_flight \subseteq Items
      BY DEF in_flight
    <2> QED
      BY <1>6, <2>1, <2>2, <2>3 DEF wake, TypeOK, Claimed, Collected
  <1>7. ASSUME NEW b \in Items, collect(b) PROVE Structure'
    <2>1. /\ pc = "collect" /\ b \in finished /\ finished' = finished \ {b}
          /\ running' = running \ {b} /\ task' = [task EXCEPT ![b] = "gone"]
          /\ UNCHANGED <<launchable, current, started, result, merged, stop>>
          /\ pc' \in {"cancel", "select", "collect"}
      BY <1>7 DEF collect
    <2>2. \/ UNCHANGED <<outcomes, statuses>>
          \/ \E o \in {"DONE", "BLOCKED"} :
                 /\ outcomes' = [outcomes EXCEPT ![b] = o]
                 /\ statuses' = [statuses EXCEPT ![b] = o]
      BY <1>7 DEF collect, outcome_of
    <2>3. \A c \in Items : task'[c] = IF c = b THEN "gone" ELSE task[c]
      BY <2>1 DEF TypeOK
    <2>4. b \in running /\ current = 0
      BY <2>1 DEF TypeOK, Collected
    <2>5. in_flight' = in_flight \ {b}
      BY <2>3 DEF in_flight
    <2>6. TypeOK'
      <3>1. outcomes' \in [Items -> {"none", "DONE", "BLOCKED"}] /\ statuses' \in [Items -> ViewStatus]
        BY <2>2 DEF TypeOK, ViewStatus
      <3>2. task' \in [Items -> TaskState]
        BY <2>1 DEF TypeOK, TaskState
      <3>3. in_flight' = running' \ {current'}
        BY <1>0, <2>1, <2>4, <2>5 DEF TypeOK
      <3> QED
        BY <2>1, <2>4, <3>1, <3>2, <3>3 DEF TypeOK
    <2>7. Claimed'
      <3>1. \A c \in launchable : c \in Items /\ c # b
        BY <2>4 DEF TypeOK, Claimed
      <3>2. \A c \in launchable : outcomes'[c] = outcomes[c]
        BY <2>2, <3>1 DEF TypeOK
      <3> QED
        BY <2>1, <2>4, <3>2 DEF Claimed
    <2>8. Collected'
      BY <2>1, <2>3, <2>5 DEF Collected, TypeOK
    <2> QED
      BY <2>6, <2>7, <2>8
  <1>8. CASE cancel_siblings
    <2>1. /\ pc = "cancel" /\ pc' = "gather"
          /\ UNCHANGED <<statuses, outcomes, running, launchable, current, started,
                         finished, result, merged, stop>>
          /\ task' = [c \in Items |-> IF task[c] \in Active THEN "cancelled" ELSE task[c]]
      BY <1>8 DEF cancel_siblings, loopState
    <2>2. in_flight' = in_flight
      BY <2>1 DEF in_flight, Active
    <2>3. task' \in [Items -> TaskState]
      BY <2>1 DEF TypeOK, TaskState
    <2>4. TypeOK'
      BY <2>1, <2>2, <2>3 DEF TypeOK
    <2>5. Collected'
      <3>1. \A c \in finished' : c \in Items /\ task'[c] = task[c]
        BY <2>1 DEF Collected, TypeOK, Active
      <3> QED
        BY <2>1, <2>2, <3>1 DEF Collected
    <2> QED
      BY <2>1, <2>4, <2>5 DEF Claimed
  <1>9. CASE raise
    <2>1. in_flight' = in_flight
      BY <1>9 DEF raise, in_flight, loopState
    <2> QED
      BY <1>9, <2>1 DEF raise, loopState, TypeOK, Claimed, Collected
  <1> QED
    BY <1>1, <1>2, <1>3, <1>4, <1>5, <1>6, <1>7, <1>8, <1>9 DEF loopStep

LEMMA StructureNext == Structure /\ [Next]_vars => Structure'
  <1> SUFFICES ASSUME Structure, [Next]_vars PROVE Structure'
    OBVIOUS
  <1>1. CASE stop_signal \/ UNCHANGED vars
    <2>1. in_flight' = in_flight
      BY <1>1 DEF stop_signal, vars, in_flight
    <2> QED
      BY <1>1, <2>1 DEF stop_signal, vars, loopState, Structure, TypeOK, Claimed, Collected
  <1> QED
    BY <1>1, LoopStep, WorkerStep DEF Next

\* The variables keep their types, and the tasks in flight are exactly the items
\* in running other than the one being assigned.
THEOREM TypeCorrect == Spec => []TypeOK
  <1>1. Structure => TypeOK
    BY DEF Structure
  <1> QED
    BY <1>1, StructureInit, StructureNext, PTL DEF Spec
-----------------------------------------------------------------------------
\* Only assign lets an item in, and it looks at what runs at that moment.
LEMMA ScopesNext ==
    Structure /\ ScopesSerialised /\ [Next]_vars => ScopesSerialised'
  <1> SUFFICES ASSUME Structure, ScopesSerialised, [Next]_vars,
                      NEW b \in running', NEW c \in running', b # c
               PROVE  {b, c} \notin Overlapping
    BY DEF ScopesSerialised, scopes_overlap
  <1>1. ASSUME NEW e \in Items, assign(e) PROVE {b, c} \notin Overlapping
    <2>1. running' = running \cup {e} /\ \A r \in running : {e, r} \notin Overlapping
      BY <1>1 DEF assign, _overlapping_runner, scopes_overlap
    <2>2. CASE b \in running /\ c \in running
      BY <2>2 DEF ScopesSerialised, scopes_overlap
    <2>3. CASE b = e /\ c \in running
      BY <2>1, <2>3
    <2>4. CASE c = e /\ b \in running
      <3>1. {b, c} = {e, b}
        BY <2>4
      <3> QED
        BY <2>1, <2>4, <3>1
    <2> QED
      BY <2>1, <2>2, <2>3, <2>4
  <1>2. ASSUME running' \subseteq running PROVE {b, c} \notin Overlapping
    BY <1>2 DEF ScopesSerialised, scopes_overlap
  <1>3. (\E e \in Items : assign(e)) \/ running' \subseteq running
    BY DEF Next, vars, loopState, loopStep, workerStep, moves, stop_signal, select,
           serialise, create_task, leave, wake, collect, cancel_siblings, raise,
           worker_started, provision, acquire_slot, run, run_raises, unwind
  <1> QED
    BY <1>1, <1>2, <1>3

\* Items of overlapping scopes are never in flight together, however many are
\* launched in one pass.
THEOREM ScopesAreSerialised == Spec => []ScopesSerialised
  <1>1. Init => ScopesSerialised
    BY DEF Init, ScopesSerialised
  <1> QED
    BY <1>1, StructureInit, StructureNext, ScopesNext, PTL DEF Spec

-----------------------------------------------------------------------------
Once == Accounted /\ AssignedOnce

\* A pass lists what neither runs nor has an outcome, hence nothing assigned before.
LEMMA OnceNext ==
    Structure /\ Once /\ [Next]_vars /\ pc \notin {"cancel", "gather", "failed"} => Once'
  <1> SUFFICES ASSUME Structure, Once, [Next]_vars, pc \notin {"cancel", "gather", "failed"}
               PROVE  Once'
    OBVIOUS
  <1>0. started \in Seq(Items)
    BY DEF Structure, TypeOK
  <1>1. ASSUME NEW e \in Items, assign(e) PROVE Once'
    <2>1. /\ started' = Append(started, e) /\ running' = running \cup {e}
          /\ outcomes' = outcomes /\ e \notin running /\ outcomes[e] = "none"
      BY <1>1 DEF assign, Structure, Claimed
    <2>2. /\ Len(started') = Len(started) + 1 /\ started'[Len(started) + 1] = e
          /\ \A i \in 1..Len(started) : started'[i] = started[i]
          /\ Len(started) \in Nat
      BY <1>0, <2>1
    <2>3. \A i \in 1..Len(started') : i \in 1..Len(started) \/ i = Len(started) + 1
      BY <2>2
    <2>4. \A i \in 1..Len(started) : started[i] # e
      BY <2>1 DEF Once, Accounted
    <2>5. AssignedOnce'
      BY <2>2, <2>3, <2>4 DEF Once, AssignedOnce
    <2>6. Accounted'
      BY <2>1, <2>2, <2>3 DEF Once, Accounted
    <2> QED
      BY <2>5, <2>6 DEF Once
  <1>2. ASSUME NEW e \in Items, collect(e) PROVE Once'
    <2>1. /\ started' = started /\ running' = running \ {e}
          /\ \/ pc' = "cancel"
             \/ outcomes' = [outcomes EXCEPT ![e] = outcome_of(result[e])]
      BY <1>2 DEF collect
    <2>2. outcome_of(result[e]) # "none"
      BY DEF outcome_of
    <2>3. AssignedOnce'
      BY <2>1 DEF Once, AssignedOnce
    <2>4. CASE pc' = "cancel"
      BY <2>3, <2>4 DEF Once, Accounted
    <2>5. CASE outcomes' = [outcomes EXCEPT ![e] = outcome_of(result[e])]
      <3>1. \A c \in Items : outcomes'[c] # "none" <=> (outcomes[c] # "none" \/ c = e)
        BY <2>2, <2>5 DEF Structure, TypeOK
      <3>2. \A i \in 1..Len(started) : started[i] \in Items
        BY <1>0
      <3>3. \A i \in 1..Len(started) :
                started[i] \in running' \/ outcomes'[started[i]] # "none"
        BY <2>1, <3>1, <3>2 DEF Once, Accounted
      <3>4. Accounted'
        BY <2>1, <3>3 DEF Accounted
      <3> QED
        BY <2>3, <3>4 DEF Once
    <2> QED
      BY <2>1, <2>4, <2>5
  <1>3. ASSUME UNCHANGED <<started, running, outcomes>> PROVE Once'
    <2>1. pc \notin {"cancel", "gather", "failed"}
      OBVIOUS
    <2> QED
      BY <1>3, <2>1 DEF Once, Accounted, AssignedOnce
  <1>4. \/ \E e \in Items : assign(e) \/ collect(e)
        \/ UNCHANGED <<started, running, outcomes>>
    BY DEF Next, vars, loopState, loopStep, workerStep, moves, stop_signal, select,
           serialise, create_task, leave, wake, cancel_siblings, raise,
           worker_started, provision, acquire_slot, run, run_raises, unwind
  <1> QED
    BY <1>1, <1>2, <1>3, <1>4

\* A failing loop assigns nothing and never selects again.
LEMMA OnceFailing ==
    Once /\ [Next]_vars /\ pc \in {"cancel", "gather", "failed"} => Once'
  <1> SUFFICES ASSUME Once, [Next]_vars, pc \in {"cancel", "gather", "failed"}
               PROVE  Once'
    OBVIOUS
  <1>1. started' = started /\ pc' \in {"cancel", "gather", "failed"}
    BY DEF Next, vars, loopState, loopStep, workerStep, moves, stop_signal, select,
           serialise, assign, create_task, leave, wake, collect, cancel_siblings, raise,
           worker_started, provision, acquire_slot, run, run_raises, unwind
  <1> QED
    BY <1>1 DEF Once, Accounted, AssignedOnce

\* An item is assigned at most once in the life of a pool.
THEOREM ItemsAssignedOnce == Spec => []AssignedOnce
  <1>1. Init => Once
    BY DEF Init, Once, Accounted, AssignedOnce
  <1>2. Once => AssignedOnce
    BY DEF Once
  <1>3. Structure /\ Once /\ [Next]_vars => Once'
    BY OnceNext, OnceFailing
  <1> QED
    BY <1>1, <1>2, <1>3, StructureInit, StructureNext, PTL DEF Spec

-----------------------------------------------------------------------------
\* A task that returned by itself has a result, and a recorded merge is a fact.
LEMMA ResultedNext == Structure /\ Resulted /\ [Next]_vars => Resulted'
  <1> SUFFICES ASSUME Structure, Resulted, [Next]_vars PROVE Resulted'
    OBVIOUS
  <1> USE DEF Structure
  <1>1. ASSUME NEW e \in Items, NEW r \in Results, run(e, r) PROVE Resulted'
    <2>1. /\ task' = [task EXCEPT ![e] = "returned"] /\ pc' = pc
          /\ result' = [result EXCEPT ![e] = r]
          /\ merged' = IF r \in {"merged", "merged_exhausted"} THEN merged \cup {e} ELSE merged
      BY <1>1 DEF run, moves
    <2>2. \A c \in Items : /\ task'[c] = IF c = e THEN "returned" ELSE task[c]
                           /\ result'[c] = IF c = e THEN r ELSE result[c]
      BY <2>1 DEF TypeOK
    <2> QED
      BY <2>1, <2>2 DEF Resulted
  <1>2. ASSUME UNCHANGED <<result, merged>>,
               \A c \in Items : task'[c] = "returned" /\ pc' \notin {"gather", "failed"} =>
                                    task[c] = "returned" /\ pc \notin {"gather", "failed"}
        PROVE  Resulted'
    BY <1>2 DEF Resulted
  <1>3. ASSUME NEW e \in Items, NEW to \in TaskState, moves(e, to),
               UNCHANGED <<result, merged>>,
               to = "returned" => pc \in {"gather", "failed"}
        PROVE  Resulted'
    <2>1. \A c \in Items : task'[c] = IF c = e THEN to ELSE task[c]
      BY <1>3 DEF moves, TypeOK
    <2>2. pc' = pc
      BY <1>3 DEF moves
    <2> QED
      BY <1>2, <1>3, <2>1, <2>2
  <1>4. ASSUME NEW e \in Items, workerStep(e) PROVE Resulted'
    <2>1. CASE worker_started(e)
      BY <1>3, <2>1 DEF worker_started, TaskState, Active
    <2>2. CASE provision(e)
      BY <1>3, <2>2 DEF provision, TaskState, Active
    <2>3. CASE acquire_slot(e)
      BY <1>3, <2>3 DEF acquire_slot, TaskState, Active
    <2>4. CASE run_raises(e)
      BY <1>3, <2>4 DEF run_raises, TaskState, Active
    <2>5. CASE unwind(e)
      <3>1. pc \in {"gather", "failed"}
        BY <2>5 DEF unwind, Collected
      <3> QED
        BY <1>3, <2>5, <3>1 DEF unwind, TaskState
    <2> QED
      BY <1>1, <1>4, <2>1, <2>2, <2>3, <2>4, <2>5 DEF workerStep
  <1>5. CASE create_task
    <2>1. \A c \in Items : task'[c] = "returned" => task[c] = "returned"
      BY <1>5 DEF create_task, TypeOK
    <2> QED
      BY <1>2, <1>5, <2>1 DEF create_task
  <1>6. ASSUME NEW e \in Items, collect(e) PROVE Resulted'
    <2>1. \A c \in Items : task'[c] = "returned" => task[c] = "returned"
      BY <1>6 DEF collect, TypeOK
    <2> QED
      BY <1>2, <1>6, <2>1 DEF collect
  <1>7. CASE cancel_siblings
    BY <1>2, <1>7 DEF cancel_siblings
  <1>8. ASSUME UNCHANGED <<result, merged, task>>,
               pc' \in {"gather", "failed"} \/ pc \notin {"gather", "failed"}
        PROVE  Resulted'
    BY <1>2, <1>8
  <1>9. \/ UNCHANGED vars \/ stop_signal \/ select \/ leave \/ wake \/ raise
        \/ \E e \in Items : serialise(e) \/ assign(e)
        => /\ UNCHANGED <<result, merged, task>>
           /\ pc' \in {"gather", "failed"} \/ pc \notin {"gather", "failed"}
    BY DEF vars, stop_signal, select, leave, wake, raise, serialise, assign, loopState
  <1> QED
    BY <1>1, <1>4, <1>5, <1>6, <1>7, <1>8, <1>9 DEF Next, loopStep

LEMMA UntouchedNext == Structure /\ Untouched /\ [Next]_vars => Untouched'
  <1> SUFFICES ASSUME Structure, Untouched, [Next]_vars PROVE Untouched'
    OBVIOUS
  <1> USE DEF Structure
  <1>1. ASSUME NEW e \in Items, assign(e) PROVE Untouched'
    BY <1>1 DEF assign, Claimed, Untouched
  <1>2. ASSUME NEW e \in Items, collect(e) PROVE Untouched'
    <2>1. /\ pc = "collect" /\ current' = current /\ task' = [task EXCEPT ![e] = "gone"]
          /\ \/ pc' = "cancel" /\ outcomes' = outcomes
             \/ outcomes' = [outcomes EXCEPT ![e] = outcome_of(result[e])]
      BY <1>2 DEF collect
    <2>2. current = 0
      BY <2>1 DEF TypeOK
    <2>3. \A c \in Items : task'[c] = IF c = e THEN "gone" ELSE task[c]
      BY <2>1 DEF TypeOK
    <2>4. CASE pc' = "cancel"
      BY <2>1, <2>2, <2>4 DEF Untouched
    <2>5. CASE outcomes' = [outcomes EXCEPT ![e] = outcome_of(result[e])]
      <3>1. outcome_of(result[e]) # "none"
        BY DEF outcome_of
      <3>2. \A c \in Items :
                outcomes'[c] = IF c = e THEN outcome_of(result[e]) ELSE outcomes[c]
        BY <2>5 DEF TypeOK
      <3> QED
        BY <2>1, <2>2, <2>3, <3>1, <3>2 DEF Untouched
    <2> QED
      BY <2>1, <2>4, <2>5
  <1>3. ASSUME outcomes' = outcomes, current' \in {current, 0},
               \A c \in Items : task'[c] = "gone" => task[c] = "gone",
               pc \in {"cancel", "gather", "failed"} =>
                   pc' \in {"cancel", "gather", "failed"}
        PROVE  Untouched'
    BY <1>3 DEF Untouched
  <1>4. ASSUME NEW e \in Items, workerStep(e) PROVE Untouched'
    <2>1. PICK to \in {"provision", "slot", "run", "returned", "raised"} : moves(e, to)
      BY <1>4 DEF workerStep, worker_started, provision, acquire_slot, run, run_raises,
                  unwind
    <2>2. \A c \in Items : task'[c] = IF c = e THEN to ELSE task[c]
      BY <2>1 DEF moves, TypeOK
    <2> QED
      BY <1>3, <2>1, <2>2 DEF moves, loopState
  <1>5. CASE create_task
    <2>1. \A c \in Items : task'[c] = "gone" => task[c] = "gone"
      BY <1>5 DEF create_task, TypeOK
    <2> QED
      BY <1>3, <1>5, <2>1 DEF create_task
  <1>6. CASE cancel_siblings
    <2>1. \A c \in Items : task'[c] = "gone" => task[c] = "gone"
      BY <1>6 DEF cancel_siblings
    <2> QED
      BY <1>3, <1>6, <2>1 DEF cancel_siblings, loopState
  <1>7. \/ UNCHANGED vars \/ stop_signal \/ select \/ leave \/ wake \/ raise
        \/ \E e \in Items : serialise(e)
        => /\ UNCHANGED <<outcomes, current, task>>
           /\ pc \in {"cancel", "gather", "failed"} => pc' \in {"cancel", "gather", "failed"}
    BY DEF vars, stop_signal, select, leave, wake, raise, serialise, loopState
  <1> QED
    BY <1>1, <1>2, <1>3, <1>4, <1>5, <1>6, <1>7 DEF Next, loopStep

\* What is settled stays so: no task is made anew for an item whose run has returned.
LEMMA SettledStays ==
    ASSUME Structure, Untouched, [Next]_vars, NEW b \in Items, Settled(b)
    PROVE  Settled(b)'
  <1> USE DEF Structure
  <1>1. merged \subseteq merged'
    BY DEF Next, vars, loopState, loopStep, workerStep, moves, stop_signal, select,
           serialise, assign, create_task, leave, wake, collect, cancel_siblings, raise,
           worker_started, provision, acquire_slot, run, run_raises, unwind
  <1>2. SUFFICES ASSUME result[b] = "awaiting", task[b] \in {"returned", "gone"}
                 PROVE  result'[b] = "awaiting" /\ task'[b] \in {"returned", "gone"}
    BY <1>1 DEF Settled
  <1>3. ASSUME NEW e \in Items, workerStep(e)
        PROVE  result'[b] = "awaiting" /\ task'[b] \in {"returned", "gone"}
    <2>1. task[e] \in Active \cup {"cancelled"} /\ e # b
      BY <1>2, <1>3 DEF workerStep, worker_started, provision, acquire_slot, run,
                        run_raises, unwind, Active
    <2>2. result' = result \/ \E r \in Results : result' = [result EXCEPT ![e] = r]
      BY <1>3 DEF workerStep, worker_started, provision, acquire_slot, run, run_raises,
                  unwind
    <2>3. \E to \in TaskState : task' = [task EXCEPT ![e] = to]
      BY <1>3 DEF workerStep, worker_started, provision, acquire_slot, run, run_raises,
                  unwind, moves, TaskState, Active
    <2> QED
      BY <1>2, <2>1, <2>2, <2>3 DEF TypeOK
  <1>4. CASE create_task
    <2>1. pc = "assigning" /\ current \in Items /\ current # 0 /\ result' = result
          /\ task' = [task EXCEPT ![current] = "created"]
      BY <1>4 DEF create_task, TypeOK, Claimed
    <2>2. current \notin in_flight
      BY DEF TypeOK
    <2>3. task[current] \in {"idle", "gone"}
      BY <2>1, <2>2 DEF in_flight
    <2>4. b # current
      BY <1>2, <2>1, <2>3 DEF Untouched
    <2> QED
      BY <1>2, <2>1, <2>4 DEF TypeOK
  <1>5. ASSUME NEW e \in Items, collect(e)
        PROVE  result'[b] = "awaiting" /\ task'[b] \in {"returned", "gone"}
    BY <1>2, <1>5 DEF collect, TypeOK
  <1>6. CASE cancel_siblings
    BY <1>2, <1>6 DEF cancel_siblings, Active
  <1>7. \/ UNCHANGED vars \/ stop_signal \/ select \/ leave \/ wake \/ raise
        \/ \E e \in Items : serialise(e) \/ assign(e)
        => UNCHANGED <<result, task>>
    BY DEF vars, stop_signal, select, leave, wake, raise, serialise, assign, loopState
  <1> QED
    BY <1>2, <1>3, <1>4, <1>5, <1>6, <1>7 DEF Next, loopStep

LEMMA MetNext ==
    Structure /\ Resulted /\ Untouched /\ Met /\ [Next]_vars => Met'
  <1> SUFFICES ASSUME Structure, Resulted, Untouched, Met, [Next]_vars PROVE Met'
    OBVIOUS
  <1> USE DEF Structure
  <1>1. \A c \in Items : Settled(c) => Settled(c)'
    BY SettledStays
  <1>2. \A b \in Items : Dependencies[b] \subseteq Items
    BY SchedulerAssumption
  <1>3. ASSUME statuses' = statuses,
               running' \cup launchable' \subseteq running \cup launchable
        PROVE  Met'
    <2>1. running \cup launchable \subseteq Items
      BY DEF TypeOK
    <2> QED
      BY <1>1, <1>2, <1>3, <2>1 DEF Met
  <1>4. ASSUME NEW e \in Items, collect(e) PROVE Met'
    <2>1. /\ pc = "collect" /\ e \in finished
          /\ running' = running \ {e} /\ UNCHANGED <<launchable, result>>
          /\ task' = [task EXCEPT ![e] = "gone"]
          /\ \/ statuses' = statuses
             \/ /\ task[e] # "raised"
                /\ statuses' = [statuses EXCEPT ![e] = outcome_of(result[e])]
      BY <1>4 DEF collect
    <2>2. CASE statuses' = statuses
      BY <1>3, <2>1, <2>2
    <2>3. CASE task[e] # "raised" /\ statuses' = [statuses EXCEPT ![e] = outcome_of(result[e])]
      <3>1. result[e] \in Results /\ task[e] = "returned"
        BY <2>1, <2>3 DEF Collected, Resulted
      <3>2. outcome_of(result[e]) = "DONE" => result[e] \in {"merged", "awaiting"}
        BY <3>1, SchedulerAssumption DEF outcome_of, RunResults
      <3>3. outcome_of(result[e]) = "DONE" => Settled(e)
        BY <3>1, <3>2 DEF Resulted, Settled
      <3>4. \A c \in Items :
                statuses'[c] = IF c = e THEN outcome_of(result[e]) ELSE statuses[c]
        BY <2>3 DEF TypeOK
      <3>5. \A c \in Items : statuses'[c] = "DONE" => Settled(c)'
        BY <1>1, <3>3, <3>4 DEF Met
      <3>6. \A c \in running' \cup launchable' : \A d \in Dependencies[c] : Settled(d)'
        BY <1>1, <1>2, <2>1 DEF Met, TypeOK
      <3> QED
        BY <3>5, <3>6 DEF Met
    <2> QED
      BY <2>1, <2>2, <2>3
  <1>5. CASE select
    <2>1. launchable' \subseteq ready /\ UNCHANGED <<statuses, running>>
      BY <1>5, LaunchableIsReady DEF select
    <2>2. \A b \in ready : \A d \in Dependencies[b] : d \in Items /\ Settled(d)
      BY <1>2 DEF ready, is_backlog_item_runnable, dependencies_satisfied, Met
    <2>3. \A b \in running : \A d \in Dependencies[b] : d \in Items /\ Settled(d)
      BY <1>2 DEF Met, TypeOK
    <2>4. \A c \in Items : statuses'[c] = "DONE" => Settled(c)'
      BY <1>1, <2>1 DEF Met
    <2> QED
      BY <1>1, <2>1, <2>2, <2>3, <2>4 DEF Met
  <1>6. \/ select \/ \E e \in Items : collect(e)
        \/ /\ statuses' = statuses
           /\ running' \cup launchable' \subseteq running \cup launchable
    BY DEF Next, vars, loopState, loopStep, workerStep, moves, stop_signal,
           serialise, assign, create_task, leave, wake, cancel_siblings, raise,
           worker_started, provision, acquire_slot, run, run_raises, unwind
  <1> QED
    BY <1>3, <1>4, <1>5, <1>6

Fed == Structure /\ Resulted /\ Untouched /\ Met

LEMMA FedHolds == Spec => []Fed
  <1>1. Init => Resulted /\ Untouched /\ Met
    <2> SUFFICES ASSUME Init PROVE Resulted /\ Untouched /\ Met
      OBVIOUS
    <2>1. Met
      BY SchedulerAssumption DEF Init, Met, Settled
    <2> QED
      BY <2>1 DEF Init, Resulted, Untouched
  <1> QED
    BY <1>1, StructureInit, StructureNext, ResultedNext, UntouchedNext, MetNext, PTL
       DEF Spec, Fed

\* Whatever the runs come to, a worker touches an item only when each dependency is
\* merged or its merge awaits an approval: nothing else is reported as done.
THEOREM DependenciesFirstOrHeld == Spec => []DependenciesMergedOrHeld
  <1>1. Fed => DependenciesMergedOrHeld
    <2> SUFFICES ASSUME Fed, NEW b \in Items,
                        task[b] \in Active \cup {"returned", "raised", "cancelled"},
                        NEW d \in Dependencies[b]
                 PROVE  d \in merged \/ result[d] = "awaiting"
      BY DEF DependenciesMergedOrHeld
    <2>1. b \in running
      BY DEF Fed, Structure, TypeOK, in_flight, Active
    <2> QED
      BY <2>1 DEF Fed, Met, Settled
  <1> QED
    BY <1>1, FedHolds, PTL

\* No merge of the run waits for an approval.
NoApproval == "awaiting" \notin Results

\* When no merge of the run has to wait for an approval, every item a worker
\* touches has its dependencies merged: an outcome the loop reads as done is one.
THEOREM DependenciesFirst == ASSUME NoApproval PROVE Spec => []DependenciesMerged
  <1>1. NoApproval /\ Fed /\ DependenciesMergedOrHeld => DependenciesMerged
    <2> SUFFICES ASSUME NoApproval, Fed, DependenciesMergedOrHeld, NEW b \in Items,
                        task[b] \in Active \cup {"returned", "raised", "cancelled"},
                        NEW d \in Dependencies[b]
                 PROVE  d \in merged
      BY DEF DependenciesMerged
    <2>1. d \in Items
      BY SchedulerAssumption
    <2>2. result[d] # "awaiting"
      BY <2>1 DEF Fed, Resulted, NoApproval
    <2> QED
      BY <2>2 DEF DependenciesMergedOrHeld
  <1> QED
    BY <1>1, FedHolds, DependenciesFirstOrHeld, PTL

-----------------------------------------------------------------------------
\* The ceilings, and room for the task the loop is about to create.
Ceilings ==
    /\ Cardinality(in_flight) <= Workers
    /\ pc = "assigning" => Cardinality(in_flight) < Workers
    /\ in_use <= Cap

LEMMA SubsetsFinite ==
  ASSUME NEW S \in SUBSET Items
  PROVE  IsFiniteSet(S) /\ Cardinality(S) \in Nat
  <1>1. IsFiniteSet(Items)
    BY SchedulerAssumption, FS_Interval DEF Items
  <1>2. IsFiniteSet(S)
    BY <1>1, FS_Subset
  <1> QED
    BY <1>2, FS_CardinalityType

\* The tasks in flight grow by create_task only, and by the task it creates.
LEMMA InFlightGrows ==
    Structure /\ [Next]_vars =>
        \/ in_flight' \subseteq in_flight /\ (pc' = "assigning" => pc = "assigning")
        \/ in_flight' = in_flight /\ may_launch
        \/ in_flight' = in_flight \cup {current} /\ pc = "assigning" /\ pc' = "launch"
  <1> SUFFICES ASSUME Structure, [Next]_vars
               PROVE  \/ in_flight' \subseteq in_flight /\ (pc' = "assigning" => pc = "assigning")
                      \/ in_flight' = in_flight /\ may_launch
                      \/ /\ in_flight' = in_flight \cup {current}
                         /\ pc = "assigning" /\ pc' = "launch"
    OBVIOUS
  <1> USE DEF Structure
  <1>1. ASSUME NEW b \in Items, workerStep(b)
        PROVE  in_flight' \subseteq in_flight /\ pc' = pc
    <2>1. PICK to \in TaskState : task[b] \in Active \cup {"cancelled"} /\ moves(b, to)
      BY <1>1 DEF workerStep, worker_started, provision, acquire_slot, run, run_raises,
                  unwind, TaskState, Active
    <2>2. \A c \in Items : task'[c] = IF c = b THEN to ELSE task[c]
      BY <2>1 DEF moves, TypeOK
    <2> QED
      BY <2>1, <2>2 DEF in_flight, Active, moves
  <1>2. ASSUME NEW b \in Items, assign(b) PROVE in_flight' = in_flight /\ may_launch
    BY <1>2 DEF assign, in_flight
  <1>3. CASE create_task
    <2>1. \A c \in Items : task'[c] = IF c = current THEN "created" ELSE task[c]
      BY <1>3 DEF create_task, TypeOK
    <2>2. current \in Items
      BY <1>3 DEF create_task, TypeOK
    <2> QED
      BY <1>3, <2>1, <2>2 DEF create_task, in_flight
  <1>4. ASSUME NEW b \in Items, collect(b)
        PROVE  in_flight' \subseteq in_flight /\ pc' # "assigning"
    <2>1. \A c \in Items : task'[c] = IF c = b THEN "gone" ELSE task[c]
      BY <1>4 DEF collect, TypeOK
    <2> QED
      BY <1>4, <2>1 DEF collect, in_flight
  <1>5. CASE cancel_siblings
    BY <1>5 DEF cancel_siblings, in_flight, Active, TypeOK
  <1>6. ASSUME UNCHANGED task, pc' # "assigning" \/ pc' = pc
        PROVE  in_flight' \subseteq in_flight /\ (pc' = "assigning" => pc = "assigning")
    BY <1>6 DEF in_flight
  <1>7. \/ UNCHANGED vars \/ stop_signal \/ select \/ leave \/ wake \/ raise
        \/ \E b \in Items : serialise(b)
        => UNCHANGED task /\ (pc' # "assigning" \/ pc' = pc)
    BY DEF vars, stop_signal, select, leave, wake, raise, serialise
  <1> QED
    BY <1>1, <1>2, <1>3, <1>4, <1>5, <1>6, <1>7 DEF Next, loopStep

\* The slots in use grow by acquire_slot only.
LEMMA SlotsGrow ==
    ASSUME Structure, [Next]_vars, in_use <= Cap PROVE in_use' <= Cap
  <1> DEFINE Running == {b \in Items : task[b] = "run"}
  <1> USE DEF Structure
  <1>1. IsFiniteSet(Running) /\ in_use \in Nat /\ in_use = Cardinality(Running)
    BY SubsetsFinite DEF in_use
  <1>2. IsFiniteSet(Running') /\ in_use' = Cardinality(Running')
    BY SubsetsFinite DEF in_use
  <1>3. ASSUME NEW b \in Items, acquire_slot(b) PROVE in_use' <= Cap
    <2>1. \A c \in Items : task'[c] = IF c = b THEN "run" ELSE task[c]
      BY <1>3 DEF acquire_slot, moves, TypeOK
    <2>2. Running' = Running \cup {b}
      BY <2>1
    <2>3. in_use < Cap
      BY <1>3 DEF acquire_slot, slot_free
    <2>4. Cardinality(Running \cup {b}) <= in_use + 1
      <3>1. Cardinality(Running \cup {b}) =
                IF b \in Running THEN Cardinality(Running) ELSE Cardinality(Running) + 1
        BY <1>1, FS_AddElement
      <3> HIDE DEF Running
      <3> QED
        BY <1>1, <3>1
    <2>5. in_use' <= in_use + 1 /\ in_use' \in Nat
      BY <1>2, <2>2, <2>4, FS_CardinalityType
    <2> HIDE DEF Running
    <2> QED
      BY <1>1, <2>3, <2>5, SchedulerAssumption
  <1>4. ASSUME \A c \in Items : task'[c] = "run" => task[c] = "run" PROVE in_use' <= Cap
    <2>1. Running' \subseteq Running
      BY <1>4
    <2>2. Cardinality(Running') <= Cardinality(Running)
      BY <1>1, <2>1, FS_Subset
    <2>3. Cardinality(Running') \in Nat
      BY SubsetsFinite
    <2> QED
      BY <1>1, <1>2, <2>2, <2>3, SchedulerAssumption
  <1>5. ASSUME NEW b \in Items, workerStep(b), ~acquire_slot(b)
        PROVE  \A c \in Items : task'[c] = "run" => task[c] = "run"
    BY <1>5 DEF workerStep, worker_started, provision, run, run_raises, unwind, moves, TypeOK
  <1>6. loopStep => \A c \in Items : task'[c] = "run" => task[c] = "run"
    BY DEF loopStep, select, serialise, assign, collect, create_task, leave, wake,
           cancel_siblings, raise, TypeOK
  <1>7. stop_signal \/ UNCHANGED vars => \A c \in Items : task'[c] = "run" => task[c] = "run"
    BY DEF stop_signal, vars
  <1> QED
    BY <1>3, <1>4, <1>5, <1>6, <1>7 DEF Next

LEMMA CeilingsNext == Structure /\ Ceilings /\ [Next]_vars => Ceilings'
  <1> SUFFICES ASSUME Structure, Ceilings, [Next]_vars PROVE Ceilings'
    OBVIOUS
  <1>1. in_flight \in SUBSET Items /\ in_flight' \in SUBSET Items
    BY DEF in_flight
  <1>2. /\ IsFiniteSet(in_flight) /\ Cardinality(in_flight) \in Nat
        /\ IsFiniteSet(in_flight') /\ Cardinality(in_flight') \in Nat
    BY <1>1, SubsetsFinite
  <1>3. in_use' <= Cap
    BY SlotsGrow DEF Ceilings
  <1>4. CASE in_flight' \subseteq in_flight /\ (pc' = "assigning" => pc = "assigning")
    <2>1. Cardinality(in_flight') <= Cardinality(in_flight)
      BY <1>2, <1>4, FS_Subset
    <2> QED
      BY <1>2, <1>3, <1>4, <2>1, SchedulerAssumption DEF Ceilings
  <1>5. CASE in_flight' = in_flight /\ may_launch
    BY <1>2, <1>3, <1>5, SchedulerAssumption DEF Ceilings, may_launch
  <1>6. CASE in_flight' = in_flight \cup {current} /\ pc = "assigning" /\ pc' = "launch"
    <2>1. Cardinality(in_flight') <= Cardinality(in_flight) + 1
      BY <1>2, <1>6, FS_AddElement
    <2> QED
      BY <1>2, <1>3, <1>6, <2>1, SchedulerAssumption DEF Ceilings
  <1> QED
    BY <1>4, <1>5, <1>6, InFlightGrows

\* Never more tasks in flight than workers, nor more cycles than slots.
THEOREM CeilingsHold == Spec => []WithinCeilings
  <1>1. Init => Ceilings
    <2> SUFFICES ASSUME Init PROVE Ceilings
      OBVIOUS
    <2>1. in_flight = {} /\ {b \in Items : task[b] = "run"} = {}
      BY DEF Init, in_flight
    <2>2. Cardinality(in_flight) = 0 /\ in_use = 0 /\ pc # "assigning"
      BY <2>1, FS_EmptySet DEF Init, in_use
    <2> QED
      BY <2>2, SchedulerAssumption DEF Ceilings
  <1>2. Ceilings => WithinCeilings
    BY DEF Ceilings, WithinCeilings
  <1> QED
    BY <1>1, <1>2, CeilingsNext, StructureInit, StructureNext, PTL DEF Spec
-----------------------------------------------------------------------------
\* A pool that ended by itself has nothing in flight, one that failed gathered.
Over ==
    /\ pc = "ended" => in_flight = {}
    /\ pc = "failed" => gathered

LEMMA OverNext == Structure /\ Over /\ [Next]_vars => Over'
  <1> SUFFICES ASSUME Structure, Over, [Next]_vars PROVE Over'
    OBVIOUS
  <1>1. ASSUME NEW b \in Items, workerStep(b) PROVE Over'
    <2>1. pc' = pc /\ task[b] \in Active \cup {"cancelled"}
      BY <1>1 DEF workerStep, worker_started, provision, acquire_slot, run, run_raises,
                  unwind, moves, Active
    <2>2. b \in in_flight /\ ~gathered
      BY <2>1 DEF in_flight, gathered, Active
    <2> QED
      BY <2>1, <2>2 DEF Over
  <1>2. CASE leave
    BY <1>2 DEF leave, exhausted, loopState, Over, in_flight
  <1>3. CASE raise
    BY <1>3 DEF raise, Over, gathered
  <1>4. ASSUME loopStep, ~leave, ~raise PROVE Over'
    BY <1>4 DEF loopStep, select, serialise, assign, create_task, wake, collect,
                cancel_siblings, Over
  <1>5. CASE stop_signal \/ UNCHANGED vars
    BY <1>5 DEF stop_signal, vars, Over, in_flight, gathered
  <1> QED
    BY <1>1, <1>2, <1>3, <1>4, <1>5 DEF Next

\* However the pool ends, no worker outlives it, and a pool that ends by itself has
\* an outcome for every item it assigned.
THEOREM NoWorkerOutlivesThePool == Spec => []NoWorkerOutlives
  <1>1. Init => Over /\ Once
    BY DEF Init, Over, Once, Accounted, AssignedOnce
  <1>2. Structure /\ Over /\ Once => NoWorkerOutlives
    <2> SUFFICES ASSUME Structure, Over, Once PROVE NoWorkerOutlives
      OBVIOUS
    <2>1. pc = "ended" => \A b \in Items : task[b] \notin Active \cup {"cancelled"}
      BY DEF Over, in_flight, Active
    <2>2. pc = "failed" => \A b \in Items : task[b] \notin Active \cup {"cancelled"}
      BY DEF Over, gathered
    <2>3. pc = "ended" => running = {}
      BY DEF Structure, TypeOK, Over, Items
    <2>4. pc = "ended" => \A i \in 1..Len(started) : outcomes[started[i]] # "none"
      BY <2>3 DEF Once, Accounted
    <2> QED
      BY <2>1, <2>2, <2>4 DEF NoWorkerOutlives
  <1>3. Structure /\ Once /\ [Next]_vars => Once'
    BY OnceNext, OnceFailing
  <1> QED
    BY <1>1, <1>2, <1>3, OverNext, StructureInit, StructureNext, PTL DEF Spec

-----------------------------------------------------------------------------
\* A set of numbers that is not empty has a least one.
LEMMA Least ==
  ASSUME NEW S \in SUBSET Nat, S # {}
  PROVE  \E n \in S : \A m \in S : n <= m
  <1>1. PICK x \in S : \A y \in S : ~(<<y, x>> \in OpToRel(<, Nat))
    BY WFMin, NatLessThanWellFounded
  <1>2. \A y \in S : ~(y < x)
    BY <1>1 DEF OpToRel
  <1> QED
    BY <1>2

\* Among items that are not nothing, one is the least risky: the least k for which
\* some items up to k have no best one would leave items up to k - 1 without one.
LEMMA BestExists ==
  ASSUME NEW S \in SUBSET Items, S # {} PROVE best_of(S) # {}
  <1> DEFINE Poor == {k \in Nat : \E T \in SUBSET Items :
                          T # {} /\ best_of(T) = {} /\ \A t \in T : t <= k}
  <1> SUFFICES ASSUME best_of(S) = {} PROVE FALSE
    OBVIOUS
  <1>1. N \in Poor
    BY SchedulerAssumption DEF Items
  <1>2. PICK k \in Poor : \A j \in Poor : k <= j
    BY <1>1, Least
  <1>3. PICK T \in SUBSET Items : T # {} /\ best_of(T) = {} /\ \A t \in T : t <= k
    BY <1>2
  <1>4. k \in T
    <2> SUFFICES ASSUME k \notin T PROVE FALSE
      OBVIOUS
    <2>1. \A t \in T : t <= k - 1
      BY <1>2, <1>3 DEF Items
    <2>2. k - 1 \in Nat
      <3>1. PICK t \in T : TRUE
        BY <1>3
      <3>2. t \in Nat \ {0} /\ t <= k /\ k \in Nat
        BY <1>2, <1>3 DEF Items
      <3> QED
        BY <3>2
    <2>3. k - 1 \in Poor
      BY <1>3, <2>1, <2>2
    <2> QED
      BY <1>2, <2>2, <2>3
  <1>5. \A b \in Items : Score[b] \in Nat /\ b \in Nat \ {0}
    BY SchedulerAssumption DEF Items
  <1>6. T \ {k} # {}
    BY <1>3, <1>4, <1>5 DEF best_of
  <1>7. best_of(T \ {k}) # {}
    <2>1. \A t \in T \ {k} : t <= k - 1
      BY <1>2, <1>3, <1>5
    <2>2. k - 1 \in Nat
      BY <1>2, <1>4, <1>5
    <2>3. k - 1 \notin Poor
      BY <1>2, <2>2
    <2> QED
      BY <1>3, <1>6, <2>1, <2>2, <2>3
  <1>8. PICK b \in T \ {k} :
            \A c \in T \ {k} : Score[b] > Score[c] \/ (Score[b] = Score[c] /\ b <= c)
    BY <1>7 DEF best_of
  <1>9. CASE Score[k] > Score[b]
    <2>1. \A c \in T : Score[k] > Score[c] \/ (Score[k] = Score[c] /\ k <= c)
      <3> SUFFICES ASSUME NEW c \in T, c # k PROVE Score[k] > Score[c]
        BY <1>4, <1>5
      <3> QED
        BY <1>3, <1>4, <1>5, <1>8, <1>9
    <2> QED
      BY <1>3, <1>4, <2>1 DEF best_of
  <1>10. CASE ~(Score[k] > Score[b])
    <2>1. Score[b] > Score[k] \/ (Score[b] = Score[k] /\ b <= k)
      BY <1>3, <1>4, <1>5, <1>8, <1>10
    <2> QED
      BY <1>3, <1>8, <2>1 DEF best_of
  <1> QED
    BY <1>9, <1>10

\* What a pass leaves: nothing to launch and nothing running means nothing ready.
Served ==
    ~stop => /\ pc = "launch" /\ launchable = {} /\ running = {} => ready = {}
             /\ pc = "ended" => ready = {}

LEMMA ServedNext == Structure /\ Served /\ [Next]_vars => Served'
  <1> SUFFICES ASSUME Structure, Served, [Next]_vars, ~stop' PROVE Served'
    BY DEF Served
  <1> USE DEF Structure
  <1>0. ~stop
    BY DEF Next, vars, loopStep, workerStep, moves, stop_signal, select, serialise,
           assign, create_task, leave, wake, collect, cancel_siblings, raise,
           worker_started, provision, acquire_slot, run, run_raises, unwind
  <1>1. ASSUME UNCHANGED <<pc, launchable, running, statuses, outcomes>> PROVE Served'
    BY <1>0, <1>1 DEF Served, ready, is_backlog_item_runnable, dependencies_satisfied
  <1>2. ASSUME NEW b \in Items, workerStep(b) PROVE Served'
    BY <1>1, <1>2 DEF workerStep, worker_started, provision, acquire_slot, run,
                      run_raises, unwind, moves, loopState
  <1>3. CASE select
    <2>1. launchable' = _launchable /\ pc' = "launch"
          /\ UNCHANGED <<running, statuses, outcomes>>
      BY <1>0, <1>3 DEF select
    <2>2. _launchable = {} /\ running = {} => ready = {}
      BY BestExists DEF _launchable, ready
    <2>3. ready' = ready
      BY <2>1 DEF ready, is_backlog_item_runnable, dependencies_satisfied
    <2> QED
      BY <2>1, <2>2, <2>3 DEF Served
  <1>4. ASSUME NEW b \in Items, serialise(b) PROVE Served'
    BY <1>4 DEF serialise, _overlapping_runner, Served
  <1>5. CASE create_task
    BY <1>5 DEF create_task, TypeOK, Claimed, Served
  <1>6. CASE leave
    <2>1. /\ pc = "launch" /\ ~may_launch /\ pc' = IF exhausted THEN "ended" ELSE "waiting"
          /\ UNCHANGED <<running, statuses, outcomes>>
      BY <1>6 DEF leave, loopState
    <2>2. ASSUME exhausted PROVE ready' = {}
      <3>1. in_flight = {} /\ running = {}
        BY <2>1, <2>2 DEF exhausted, TypeOK, Items
      <3>2. {b \in Items : task[b] = "run"} = {}
        BY <3>1 DEF in_flight
      <3>3. Cardinality(in_flight) = 0 /\ in_use = 0
        BY <3>1, <3>2, FS_EmptySet DEF in_use
      <3>4. Cardinality(in_flight) < Workers /\ ~_provider_saturated
        BY <3>3, SchedulerAssumption DEF _provider_saturated
      <3>5. launchable = {}
        BY <2>1, <3>4 DEF may_launch
      <3> QED
        BY <1>0, <2>1, <3>1, <3>5
           DEF Served, ready, is_backlog_item_runnable, dependencies_satisfied
    <2> QED
      BY <2>1, <2>2 DEF Served
  <1>7. ASSUME loopStep, pc' \notin {"launch", "ended"} PROVE Served'
    BY <1>7 DEF Served
  <1>8. CASE stop_signal \/ UNCHANGED vars
    BY <1>1, <1>8 DEF stop_signal, vars, loopState
  <1>9. \/ wake \/ cancel_siblings \/ raise \/ \E b \in Items : assign(b) \/ collect(b)
        => pc' \notin {"launch", "ended"}
    BY DEF wake, cancel_siblings, raise, assign, collect
  <1> QED
    BY <1>2, <1>3, <1>4, <1>5, <1>6, <1>7, <1>8, <1>9 DEF Next, loopStep

\* A pool that was not stopped ends only when no item is left ready, whatever the
\* scores and the scopes: a deferred item runs alone rather than never.
THEOREM NothingReadyLeft == Spec => []NothingReadyIsLeft
  <1>1. Init => Served
    BY DEF Init, Served
  <1>2. Served => NothingReadyIsLeft
    BY DEF Served, NothingReadyIsLeft
  <1> QED
    BY <1>1, <1>2, ServedNext, StructureInit, StructureNext, PTL DEF Spec
=============================================================================
