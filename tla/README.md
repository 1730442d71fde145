# AI-Forge in TLA+

AI-Forge (`src/src`, Python) drives backlog items (BL) from specification to merged
pull request: each item goes through development, gates, a tester, a reviewer and a
merge, played by external command-line providers; an SQLite database keeps the status
of each item and a journal of events, and everything that must survive a crash is
derived from that journal. Around this cycle stand a scheduler, the phases that write
the specifications, a planner, releases, and the commands with which an operator
repairs, reverts and cleans. This directory models the parts of the program where
order, crashes and concurrency decide whether it is right, checks them with TLC, and
proves what holds of them for every value of the constants with TLAPS.

## 1. The system

| Part | State it keeps | Operations | What is hard |
|---|---|---|---|
| State machine (`state/machine.py`, `state/db.py`) | `bl_status`, `iterations`, `events` | register, transition | the check is made outside the transaction that commits |
| Sequential executor (`phases/execute.py`, `roles/`, `gates/`) | a correction epoch and a baseline in memory; all else in the journal, git and GitHub | the eight steps, NO GO, cap, escalation, merge gate | a crash between an effect and its event; what counts as done after a correction or a restart |
| Command line (`cli.py`) | `run_id` file | run, resume, approve, revert, and one command per part below | it decides who may run again, from journal order |
| Recovery (`state/recovery.py`) | none | adopt effects missing from the journal, reset worktrees | idempotence, a probe that fails |
| Approval queue (`policy/`) | `pending_actions` | gate, enqueue, approve | the gate is passed again by later processes |
| Locks (`state/lock_manager.py`) | `locks` | acquire, reenter, release, recover orphans | expiry under a slow owner, time read before the transaction |
| Scheduler loop (`scheduler/loop.py`, `limits.py`, `eligibility_score.py`, `planner/graph_updates.py`) | a view of statuses, running set, tasks, semaphores | select, launch, collect, cancel | coroutines interleave at each await; SIGINT; failing workers; starvation |
| Quota, assignment, failover, exhaustion (`quota/`, `scheduler/assignment.py`, `failover.py`, `shutdown.py`) | `provider_state`; `BL_ASSIGNED`, `RUN_STOPPED`, `RESUMED` events | assign roles, call, mark exhausted, switch, stop, resume | other processes and the clock move between two reads; partial output of an exhausted provider |
| Worktrees (`workspace/`) | `worktrees`, directories, branches | create, remove, clean, reset, rebase | rows and git drift apart; what may be deleted |
| Releases, rollback, repair (`phases/release.py`, `state/rollback.py`, `version_rollback.py`, `reconciliation.py`) | statuses, tags, releases, journal, ADRs | gate, release, revert, roll back, repair | many effects, any of which may fail; approvals given one at a time and kept by library |
| Planner (`planner/`) | `planning.json`, `planning.md` | cycles, waves, critical path, publish | statuses move while they are read |
| Specification phases (`phases/architect.py`, `specify.py`, `close_spec.py`, `core/specparser.py`) | the documents, the git index | produce, review, write, commit, close | review before write; files written one by one; people edit them |

They interact through the database and the repository. The loop starts one `run_bl` per
item in a worktree; `run_bl` moves the item to IN_PROGRESS, assigns its roles and runs
the executor; each role call goes through the failover; the executor calls the state
machine for each status change, appends its own events, asks the approval queue before
the merge and the integrator to merge; the exhaustion of every provider appends
`RUN_STOPPED`, which refuses later runs until `forge resume`. Releases, rollbacks and
repairs read and move the same statuses from outside the cycle. `PROJECT.json` lists
every component, modelled or not, and every hazard at its line.

What makes each part right: a journal that replays to the statuses (state machine);
nothing merged that the gates, the tester, the reviewer and, where asked, a human have
not passed (executor); effects on GitHub made and journaled once (recovery); leases
that exclude each other (locks); no item before its dependencies, no two overlapping
items together, no ceiling exceeded, no item left behind (scheduler); a fresh start for
the next provider and roles kept apart (quota); rows that follow directories and no
unmerged commit deleted (worktrees); complete versions released, dependents reopened,
approvals first (versions); layers and longest chains (planner); reviewed before
written, the last proposal whole at HEAD, closed from below (specifications).

## 2. Modules

| Module | Models | Used by |
|---|---|---|
| `BlTransitions` | the transition table, `can_transition`, the event of a transition | all modules about items |
| `BlLifecycle` | abstract: an item moves along legal transitions, atomically, and counts its iterations | refined by the two below |
| `BlStateMachine` | `BlStateMachine.transition` called by several processes | `MCBlStateMachine`, `BacklogProofs` |
| `Roles` | what a command, a gate, a role call can come to | `SequentialExecutor` |
| `SequentialExecutor` | one item: `run_bl`, `execute`, resume, approve, revert | `MCSequentialExecutor`, `SequentialExecutorProofs` |
| `LockManager` | the persisted locks and provider slots | `MCLockManager`, `LockManagerProofs` |
| `SchedulerLoop` | `SchedulerLoop.run` and its workers as `run_scheduler` assembles them | `MCSchedulerLoop`, `SchedulerLoopProofs` |
| `QuotaFailover` | several `forge run` sharing the quota state: assignment, failover, exhaustion stop, resume | `MCQuotaFailover`, `QuotaFailoverProofs` |
| `Workspace` | worktrees: the workers' provisioning, cleanup-orphans, resume, rebase of siblings | `MCWorkspace`, `WorkspaceProofs` |
| `Versions` | release, revert, rollback-version, repair-state, their approvals | `MCVersions`, `VersionsProofs` |
| `Planning` | the graph, waves, critical path and publication of `forge plan` | `MCPlanning`, `BacklogProofs` |
| `Specification` | `forge architect`, `forge spec`, `forge close-spec` | `MCSpecification`, `SpecificationProofs` |

Each `MC` module instantiates its component for TLC; each `Proofs` module holds its
theorems, and `BacklogProofs` those of two components that share no state, the state
machine and the planning. Definitions whose name begins with `Bug_` are plausible mistakes in the
definition that follows them; no action uses them. `PROJECT.json` says which property
refutes which.

### BlStateMachine

`status`, `iteration` and `journal` are the three tables, per item; `call` is what a
process has checked and not yet committed. `transition` is the first half of the method
(read, check, choose the event's type), `transition_bl_status` the transaction
(`from_status` and the iteration are taken from the row as read inside it), `Abort` a
death or an SQLite refusal in between. The journal keeps transition events only; other
events do not enter its properties.

### SequentialExecutor and Roles

`journal` has the events of the item and the stops of its run, with the one detail that
tells two events of a type apart (`by`). `world` is the branch, the pull request and the
number of issues; `approval` what the manifest asks for, then the row in
`pending_actions`; `proc` the position of the process and its epoch; `code` which
development pass each stage has seen, and the last pass whose commits leave the declared
scope. One action per durable effect: a crash can fall between any two.
`crash_or_raise` stands for a kill and for every exception of a role, a gate, git or gh,
since both leave the same state. `Roles` works out which outcomes a development, a gate
suite, a tester and a reviewer can have, from the results of commands and provider
replies, retries and refusals included; the executor draws from those sets.

Assumptions: one process at a time works on an item, and forge resume and forge revert
are run when none does; nobody deletes the branch or the pull request behind the
program's back; the probe of the branch is truthful, that of the pull request may fail;
`gh pr create` prints a number; no dry run. The two appends of a revert are one action;
its pull request, approval and dependents are in `Versions`. `forge approve` may come at
any time. The merge and the deletion of the branch are one effect: repeating it is what
the code tolerates.

### LockManager

`locks` is the table, `asked` the call in progress (slots left to try, time to live, the
time it read), `held` the records given to each owner and not released. Every operation
is one `BEGIN IMMEDIATE` transaction, so one action, but the time it compares with was
read before: between `request` and `acquire` the clock may tick. An owner makes one call
at a time and releases its latest record first. `release` on behalf of another owner is
not modelled. Nothing in `src/src` outside this class and the orphan cleaner uses it
yet: the module states what callers may rely on.

### SchedulerLoop

`pc` is where the loop's coroutine stands, `task` where each worker's does; an action
runs from one await to the next. `statuses` is the loop's own view, `merged` what the
database says; scopes are a relation of overlap, scores numbers. `run` is a whole
`run_bl` with one of its possible results; `merged_exhausted` is the merge followed by
the exhaustion stop, which raises. `stop_signal` is SIGINT. Left out: deferral events,
the figures of the report, a database that refuses one of the loop's own journal writes.
There is no pause and no contention because `run_scheduler` installs a fresh
`PauseController` and a policy to which nothing reports contention.

### QuotaFailover

`cool` is the table of provider states, as the ticks left before recharge. The journal
is kept as what its readers ask: whether a stop was lifted, and which items and stops
have events since; plus the order of assignments. `stage` counts the roles of an item
whose success is journaled, `tree` what an interrupted writing role left in the
worktree. A process reads availability (`read_available`), chooses and journals
(`assign_roles`), calls (`start_role`, `answer`), and on exhaustion marks, selects and
switches; at the end it looks at the providers one by one and may stop the run. The
executor's own steps between two roles are `SequentialExecutor`'s and appear as one
step here. Time is counted in ticks that any step may follow; `Cooldown` is the same
for all providers.

### Workspace

`registered` is the table, `tree` the directories and what is in them, `branch` and
`behind` the feature branches. `worker` is the scheduler's worker of an item between
`WorktreeManager.get` and the end of its `run_bl`, whose edits, commits, merge and
blocking are kept; `op` is the command in progress with everything it has read. The row
and the directory are separate effects, in both directions. `Alone` says that operators
type commands when no worker runs; it is an assumption, and `ActiveTreeKept` fails
without it (the cleaner reads statuses at its start). `NamedBy` is what
`bl_id_from_feature_branch` reads in a branch name: it misreads a hyphenated library.
The squash merge leaves a branch that `git branch --merged` does not list. `git worktree
add` may fail for reasons of its own, with or without the branch it creates first. A
rebase that is killed may leave the worktree in the middle of one; the next one either
reports a conflict there (unmerged files) or fails and tries again, and aborts in both
cases.

### Versions

`status` and `markers` are the item's row and those of its events that a repair looks
at; `real` what GitHub shows; `tag`, `corrective`, `release`, `journaled` a version's
life; `approval` the latest action of each kind under an item (revert) or under the
library (rollback-version, whatever the version: `cli.py:1128`); `cmd` the command in
progress. Workers and people on GitHub move items meanwhile (`start` .. `drift`); an item
of `Astray` may from the start show a branch or a pull request that no event of it
explains. Commands are sequences of effects, each of which a crash may follow: the tag,
its push, the publication, `TAGGED` and `RELEASED` are five. A `gh` that refuses or a
probe that raises ends its command. A listing reads one item at a time. `touched` records
which items workers moved since the command was typed: the properties about a command's
result except those. One maintenance command runs at a time. Approvals are asked for one
at a time, and in one behaviour by one item or by the library: their rows have different
keys, and the run needs no state in which both have some. No proof uses this bound.

### Planning

`depends` is chosen in `Init` among all graphs; `state` is the database, `json` and
`md` the files. `statuses_from_state` reads one row per step while `worker` moves items;
`write_json` and `write_md` are two effects, and `crash` may leave either torn, or cut
inside a character: `load_planning_metadata` reads a torn `planning.json` as an absent
one, and cannot decode the other, so that every later plan fails until it is removed.
`_done` follows the rounds of `compute_waves`, one after another; `_dist` and `_path` are
defined along the dependencies among active items, which is what a pass in topological
order computes; `descendants` is the least set closed under the edges. Where `max` has
equals to choose from, `greatest` takes any.

### Specification

`docs` is the tree of UC, FEAT and BL files, each absent, torn or whole, with its parent
and whether it is DONE; `tree`, `staged` and `head` are the files of the architecture on
disk, in the index and committed, each torn or whole, with the proposal that wrote it.
`produced` numbers proposals and batches, `approved` those a review accepted, `committed`
is the proposal that was committed last: all three are history variables. The texts are
left out: a proposal is a set of libraries, a batch a parent for each identifier. Files are written one by
one, kinds in the order of the code (`rank`) and files of one kind in any order, and a
kill may cut any write of any command. `forge spec` only wants a document of the library
to be there, so that it may come before, after or without `forge architect`. `edit` is a
person with an editor, at any time. Use cases are written before any review, as in the
code; that the reviewer is the other AI is not modelled.

## 3. Runs

| Run | Bounds | Shows |
|---|---|---|
| `bl_machine` | 2 processes (symmetric), 1 item, 6 events | the journal replays to the status and agrees with the iteration under every interleaving; an illegal transition needs a race |
| `executor` | 3 starts, 1 stop, 1 revert, 2 corrections before the cap | the safety of the cycle, termination, refinement of `BlLifecycle` |
| `locks` | 2 owners (symmetric), 2 slots, time to live 2, clock to 4, 2 nested records | exclusion and no leaked depth |
| `scheduler` | 5 items, 2 workers, 1 slot, every starting view and result of a run | order, exclusion, ceilings, once, no orphan task, nothing ready left, termination |
| `quota` | 2 processes on 2 items, 2 and 1 starts, 2 providers | a switch starts clean, roles apart, every process ends |
| `workspace` | 2 items, 2 launches each, 3 commands | rows follow directories, nothing unmerged lost, active trees kept, no rebase left open |
| `versions` | 3 items in a chain, 2 versions (of two items and of one), 1 item astray, 2 commands, 1 step of a worker, L1 and safe mode | approvals first, dependents reopened, releases complete and in order, repairs settle |
| `planning` | all graphs on 3 items, 2 versions, 2 plans, 1 step of a worker | waves and critical path against their definitions |
| `specification` | 2 libraries, 2 UC, 2 FEAT, 2 BL, 2 review iterations, 2 commands, 2 edits | reviewed first, the last proposal whole at HEAD, closed from below |
| `executor_lost_correction`, `executor_unguarded`, `scheduler_awaiting` | small | the divergences of section 6 |

Why these bounds are enough. A race on a transition needs two calls on one item; six
events let an item go to review, come back twice and be reopened. In the executor a third
start is the first that can follow a start that followed a NO GO; two corrections reach
the cap by both verdicts and exceed it if the count is wrong (`MaxIterations` is 4 in the
code and any positive number here); one revert gives an item a second life. Two owners
and a time to live of two let a lock expire while a call that read the time before waits
for its transaction. In the scheduler the graph has a chain, a join, a pair of
overlapping scopes and an item of low score, and three items compete for two workers and
one slot. Two providers are the least for a failover, and a second start of a process
is the first that can find the commits of an exhausted one below its baseline. Two
launches let an item be reverted and meet its own leftovers; three commands let a
cleaning follow a rebase that followed a cleaning. Two commands let a rollback follow a release and a retry follow a
crash; a second version is what an approval given for the first one can let through; the
item astray is listed and repaired along plans of up to four transitions; a chain of
three items has a dependent that is not direct. Three items have
cycles, joins, chains and items of no version in common; statuses in the graph's initial
vectors are one of each kind that the planner tells apart, and a second plan finds the
files of the first. Two commands let a phase build on what a killed one left.

`MaxRuns`, `MaxStops`, `MaxReverts`, `MaxEvents`, `MaxTime`, `MaxHeld`, `MaxStarts`,
`MaxOps`, `MaxMoves`, `MaxPlans`, `MaxCommands`, `MaxEdits` and `Revertable` are bounds
of the models, named where they are declared and used only in guards.

Deadlock is not checked: an item ends, the clock stops at its bound, a pool ends, the
commands of an operator are counted. That the processes which must end do end is checked
as liveness instead. Symmetry is declared on the callers and on the owners, in the runs
without liveness.

The properties, and the hazard each is for, are listed in `PROJECT.json`. The least
obvious ones:

- `MergedVerified`: what is merged is the last development pass, seen by the gates, the
  tester and the reviewer, through corrections and crashes. It depends on which events
  outlive a correction: the branch and the pull request do, the push does not. It is
  stated for cycles in which no process starts after a NO GO, because of
  `CorrectedBeforeMerge` (section 6).
- `ContinuedOncePerResume`: the right to continue an interrupted item is derived from the
  order of journal events only.
- `EffectsJournaledOnce`: executor and recovery journal one branch and one pull request
  between them.
- `IllegalOnlyByRace`: what the check guarantees when calls overlap.
- `NothingReadyIsLeft`: a deferred item runs alone rather than never.
- `RetryInv`: the provider that replaces an exhausted one finds the worktree as the role
  found it, commits included.
- `WorkKept`: every command that deletes branches or worktrees is also checked not to
  lose commits that were not merged.
- `RepairSettles`: when a repair is done with an item, the item has the status that the
  probe gave, or a worker has moved it.
- `WavesInv`: an item that is in no wave waits for something that is in none either.

Three of the invariants (`RetryInv`, `ApprovalInv`, `ReviewInv`) conjoin the type
invariant of their module with one safety property, and `RegistryInv` is the inductive
invariant itself.

Fairness. `SequentialExecutor` and `QuotaFailover` assume weak fairness of a process's
own steps: a started process is not suspended for ever, and a role call ends by its
answer or its timeout (`providers/runner.py`). A crash, an operator, a tick and SIGINT
are never assumed. `SchedulerLoop` assumes weak fairness of the loop and of each worker:
asyncio runs every coroutine that can run. The other modules state no liveness: their
commands end by themselves or by a kill.

## 4. Proofs

`BacklogProofs`, of the state machine, for any items, callers and bounds:

- `TypeCorrect`: inductive with `PendingRegistered` (a pending call is about an item that
  has a row).
- `ChainInvariant`: the journal replays to the status. Inductive as it stands once
  typing is known: an event's `from_status` is read in the transaction that writes it.
- `IterationInvariant`: by counting the returns of an appended log (`ReturnsAppend`,
  with the library's facts on cardinality).
- `RaceOnly`: an action property, from `PendingChecked` (what is pending passed the
  check against the status it recorded).
- `SerialJournalIsLegal` and `SerialImplementsLifecycle`, under `OneCaller`: nothing
  comes between a check and its commit (`PendingFresh`), so each commit is a legal
  transition of `BlLifecycle`, and every other step stutters.

`BacklogProofs`, of the planning, for any items, graph, sizes, versions, milestones and
bounds:

- `PlanningTyped`: `Planned` is inductive. Beside types it says that only an acyclic graph
  is planned, that nothing is published before every status was read, and that, between
  the two files, `planning.json` is the snapshot of what was read, which stays true as the
  graph does not change under a command.
- `WavesPublished`: the rounds only add (`WavesGrow`), so that an item is in the wave of
  one round and what it waits for in earlier ones (`WaveIsLayer`). After as many rounds as
  there are items one has found nothing, by cardinality, so that what is left out waits
  for something left out (`LeftOutWaits`). The waves of a version keep this order when
  they are numbered anew (`RanksCount`, `WaveOf`).
- `CriticalPathPublished`: in an acyclic graph any set of items has one that depends on
  none of them, the one with the most descendants (`AcyclicIsGrounded`). Hence the
  recursions along dependencies have solutions (`Recursion`, from a largest set on which
  they have one), which are distances and paths (`Distances`, `Paths`), and by the same
  argument each path is a chain as heavy as its distance (`PathIsChain`) and no chain is
  heavier (`ChainsAreLighter`). A chain comes back to no item, so that none is longer than
  the backlog (`ChainsAreShort`).

`SequentialExecutorProofs`, for any cap and any number of runs, stops and reverts:

- `TypeCorrect`: inductive as `Typing`, which adds that a process at work has an item
  with a row.
- `MergesApproved` and `FinishedMerged`, from `MergeInv`: past its gate a process is
  released until it ends, an approval is never taken back, and the only step to DONE
  follows the merge. The steps before the gate are dealt with together: none of them
  leads past it (`BeforeGatePoint`) nor merges (`BeforeGateEffect`).
- `ReturnsCapped`, from `CapInv`: the cap is tested two steps before the transition it
  allows, and no other step of the item, of its operator or of its run writes a NO GO in
  between (`CountSame`) or reaches these two steps (`LeadsElsewhere`).
- `ExecutorImplementsLifecycle`: the refinement of `BlLifecycle`, step by step. A status
  is written only through a checked transition, whose effect on the number of returns is
  the one the abstract step allows (`Legal`), and an item without a row has no return
  (`Fresh`); every other step stutters.
- `EffectsJournaled`, from `Effects`: at the steps that journal a branch or a pull
  request the journal does not show one, and recovery adopts one only then.
- `ContinuationsResumed`, from `Continued`: between the look at the journal and the
  continuation the `RESUMED` that allows it is still the later one.
- `MergesVerified`, from `Verified`. It needs the epoch: what the events since the start
  of a cycle say of the code (`Facts`), what a process at a step has passed (`Passed`),
  and, before the first NO GO, that the whole journal is one epoch (`FirstCycle`), which
  is what a process that starts without an epoch reads. `ControlFlow` and `JournalGrows`
  give, once for all steps, where a process may go and what it may append; the lemmas
  `DevKept` to `IntegrateKept` then go through the stages of the cycle. The property
  excludes `EpochLost`, which is the finding `executor_lost_correction`.

`LockManagerProofs`, for any owners, resources and requests:

- `TypeCorrect`; `LocksNotLeaked`, inductive with typing.
- `LocksExclude`, under `UniformTtl`: the invariant is `Covered`, that the row of a
  resource stands for every unexpired record on it (same owner, an expiry at least as
  late, a depth that counts the record and the later ones). `Covered` needs `Asked` (a
  pending time has passed) and `Dated` (no record outlives one that would be given
  now), which is where one time to live for all is used. All callers use the default.
  With two times to live, an owner that reenters its lock for a shorter time shortens
  the lease of its outer record, and exclusion fails.

`SchedulerLoopProofs`, for any backlog, scopes, number of workers and slots:

- `TypeCorrect`: tasks exist exactly for the running items. Inductive with `Claimed`
  (what is claimed is not listed again) and `Collected` (only finished tasks are
  collected, only a failing loop cancels).
- `ScopesAreSerialised`, from the second look at each launch.
- `ItemsAssignedOnce`, with `Accounted`: until the loop fails, what was assigned runs or
  has an outcome, and a pass lists neither.
- `DependenciesFirstOrHeld`: a dependency of an item that is touched is merged or awaits
  the approval of its merge. `Met`: what the loop believes done is `Settled` in this
  sense, and it claims only on that belief. A run that returned is never run again
  (`Untouched`), so that what is settled stays so (`SettledStays`).
- `DependenciesFirst`: hence, under `NoApproval`, the dependencies are merged. Without
  that assumption it is the finding `scheduler_awaiting`.
- `CeilingsHold`, from `Ceilings`: while the loop assigns there is room for one more
  task, and every task takes its slot before it calls a provider.
- `NoWorkerOutlivesThePool`, from `Over`: a pool that ended had nothing in flight, one
  that failed has gathered.
- `NothingReadyLeft`, from `Served`: a pass that launches nothing with nothing running
  found nothing ready. Its step needs that the choice among ready items always finds one
  (`BestExists`), and that deferred items are launched when they would otherwise starve.

`WorkspaceProofs`, for any items, branch names and bounds:

- `Registry` and `NothingUnregistered`: `RegistryInv` is inductive. It needs that no
  directory exists while its row is inserted or undone, nor between git and the row of a
  removal, and, under `Alone`, that no command runs beside a worker.
- `Kept`, under `Alone`: with `KeptInv`, what a cleaner is about to delete had nothing of
  its own when it was listed and cannot have got any since.
- `Settled` and `ActiveKept`, under `Alone`, from `CommandInv` (`Resetting`, `Rebasing`,
  `Sparing`): what each command knows of the worktrees that it has dealt with, is
  dealing with, or will spare.

`VersionsProofs`, for any graph, versions, criteria, trust level and safe mode:

- `RollbackApproved`: a command that was let through stays approved to its end, whatever
  is queued or approved beside it. It says no more than the code does: the approvals of a
  version rollback are those of its library, and one of them may have been given for
  another version (section 6).
- `ReleaseComplete`: with `Published`, the order of the push, the publication, `TAGGED`
  and `RELEASED`, whichever of them a crash follows and whatever a retry finds; and
  `Covered`, that nothing reopens an item between the gate and the last event. Reopenings
  belong to other commands; workers only move items that are not DONE, and a repair runs
  alone.
- `DependentsAreTransitive`: `transitive_dependents` is the least set of items closed
  under `depends_on` around an item. The recursive function of the module is shown to
  exist (`Iterates`, by the least number at which it would not), and its rounds to have
  reached their fixed point after as many as there are items, by cardinality.
- `ApprovalTypes`: the types are inductive only with what is left of a plan (`Plans`). A
  probe asks for three statuses only (`Divergence`), whatever an item shows, so that the
  longest plan is the four requests from TODO to a review (`PlanLeads`).
- `RevertReopensDependents`, from `Invalidated`: a dependent that is DONE is still to be
  looked at, or a worker finished it since. It needs that a revert has one subject
  (`Single`).
- `RepairsSettle`, from `Dealing`: what is left of the plan of the item under way leads
  to what its probe found, unless a worker has moved it. The plan goes step by step, and
  the workers may move any item between two of its steps.

`QuotaFailoverProofs`, for any providers, processes, items and assignment history:

- `RetriesStartClean`, under `OneItemEach` (no two processes run the same item, as in the
  run; `forge run` takes no lock, so this is left to whoever starts the processes, and
  two of them would share a worktree): `Baseline` says that from the start
  of a writing role to its end, commits that were there at its start are still there, so
  going back to the baseline of the role is always possible. The types need `Knowing`: a
  process calls only once its item has its roles, which it chose from a set that is not
  empty.
- `RolesGoApart`: an action property, without that assumption. `Selected` shows that the
  key of the choice, whose last part is a place in the configuration, always has a
  least provider among the candidates; `Assignments` counts those that are left.

`SpecificationProofs`, for any libraries, identifiers, numbers of commands and edits:

- `ReviewedBeforeWritten`: `ReviewedFirst` with what a command knows at each point
  (`Proposing`, `Deriving`): what is in a plan comes from a batch that was reviewed.
- `HeadIsLastProposal`: `commit` takes the whole index, so the invariant is about the
  index too (`Committed`): its files are whole and reviewed (`Sound`), and older than the
  proposal under way, whatever killed commands have left there (`Proposing`). Once `add`
  has run, the index holds the whole of that proposal (`Latest`). It does not say that
  HEAD is one proposal: libraries that the last one does not name stay from earlier ones.
- `ClosesFromBelow`: an action property, from `Closing`: the tree that close-spec holds
  differs from the tree on disk by what people touched since and by what it has closed.

The assumptions on the constants are those of the `ASSUME`s in the modules.

Where a proof is about a recursive function (`Versions`, `Planning`) the induction is
carried out in it: a least counterexample among the numbers, or an item of a set of
counterexamples that depends on none of them. The induction theorems of the library
take an operator as a parameter, which the provers cannot instantiate.

Only model-checked: liveness under fairness (`RunTerminates`, `PoolTerminates`,
`ProcessesEnd`), which is beyond the prover. Every invariant and every action property
of a run has a theorem. The findings are runs and have no theorem.

## 5. Not modelled

- `PauseController`, `degradation_policy`: `run_scheduler` never changes them.
- `budget/`, `workspace/pinning.py`, `quota/detection.py` (but for the cooldown),
  `gates/ci_watcher.py`, `ci_classification.py`, `doc_gates.py`, `extended_quality.py`,
  `invariant_checks.py`, `context/context_manifest.py`, `republish_planning_after_event`,
  `reset_clean`, `update_run_manifest`: nothing in the program calls them, so there is
  no order of operations to model.
- `audit`, `bootstrap`, `doctor`, `validate-specs`: straight-line file generation and
  read-only checks.
- Texts, prompts, parsing, subprocess wrappers, reports, statistics, logging: no state
  that another part relies on. Where an outcome depends on them (a verdict, a gate, a
  policy decision) `Roles` has the decision.
- Left out of modelled parts: the closing of abandoned pull requests by the cleaner, the
  demotion of READY dependents of a blocked item (nothing but a repair writes READY),
  the score-based assigner (off by default), effects that a third party deletes, dry
  runs, migrations.

## 6. Where documents and code disagree

Each of these is a run whose property states what is written and whose counterexample
shows what the code does.

- `executor_lost_correction`: after a NO GO and a restart, the process has no epoch and
  takes the refused development for done (`phases/execute.py:369`); EXG-EXE-02 has DEV
  run again on the issue.
- `executor_unguarded`: the baseline of the scope checks is read from HEAD at each
  development (`phases/execute.py:408`), so that commits of a rejected or interrupted one
  are below it; they are merged and no check has seen them. BL-forge-016 compares the
  diff of the branch with the scope.
- `scheduler_awaiting`: a merge held for approval counts as done for the pool
  (`cli.py:561`).

Seen while reading, and not runs:

- After a crash that no exhaustion stop preceded, `forge resume` writes no `RESUMED` and
  `forge run` refuses the item (`cli.py:251`), against `docs/troubleshooting.md:63-64`; a
  merge approved after its process ended cannot be continued for the same reason.
- A reverted item that is run again skips every step on the strength of its old events
  and reports the old merge (`phases/execute.py:752`).
- The stop event of the pool is read once per pass (`scheduler/loop.py:194`): SIGINT
  during the journal write of one assignment does not stop the next.
- `forge pause` is journaled, and a later pool does not read it back. The guide says that
  `forge resume` does not lift the stop while every provider is exhausted, and
  `resume_run` does. It also says that `forge run --bl` runs a BLOCKED item again, which
  `run_bl` refuses.
- `ProviderFailover.run` calls the assigned provider without asking whether it is
  available. When a cooldown elapses between a failed failover and the look at all
  providers, the run is not stopped. What the last exhausted provider left in the
  worktree is not reset.
- Approvals of `rollback-version` are kept by library (`cli.py:1128`, `1146`): those given
  for one version let the rollback of every other version through, and an action pending
  for one refuses the others. `execute_version_release` asks for no approval, although
  TAG and RELEASE are sensitive kinds; no command calls it.
- A release that failed between tag and push can never be completed: the next run finds
  the tag, skips the push, and `gh` refuses. After a rollback a new GO creates nothing,
  since tag and yanked release exist, and journals `TAGGED` and `RELEASED` once more.
- A repair raises on BLOCKED and on most ways back along the pipeline, in the middle of
  its pass. A revert that dies after reopening its item cannot be run again, and its
  dependents stay DONE.
- A worktree whose branch has commits and whose directory was cleaned makes every later
  `create` fail, and so does the branch that a failed `git worktree add` leaves, until
  it is cleaned. Beside a running scheduler the cleaner may remove the worktree of an
  item that became active after it read the statuses.
- Tags have no incoming edge in the planning graph, so that cycles through versions and
  milestones are not found although the error message of `planner/dag.py` mentions them.
  A torn `planning.json` loses the labels that people wrote in it. One that is cut inside
  a multi-byte character raises `UnicodeDecodeError` in every later `forge plan`
  (`planner/publish.py:398`), which catches `JSONDecodeError` only, against the comment
  there that recovery regenerates it. The
  `critical_path_weight` of a version counts only the items of that version
  (`planner/publish.py:218`), though its path may begin in an earlier one; its
  documentation says the sum over the path (`planner/publish.py:65`).
- A commit of `forge architect` takes with it what a killed run left in the index: a
  library of a proposal that was never committed is at HEAD beside the last one.
- With `--provider`, the second provider of the architecture phase may review itself
  (EXG-ARC-05). A feature or a use case without children is closed.
- On a timeout the runner waits for ever if a descendant of the killed process keeps the
  pipe open (`providers/runner.py`).
