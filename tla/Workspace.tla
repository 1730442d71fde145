------------------------------ MODULE Workspace ------------------------------
(* The worktrees of a repository: the scheduler provisions one per item           *)
(* (workspace/worktrees.py), siblings are rebased after a merge                   *)
(* (workspace/rebase.py), forge resume resets what a crash left                   *)
(* (state/recovery.py) and forge cleanup-orphans removes what no active item      *)
(* needs (workspace/orphan_cleaner.py).                                           *)
EXTENDS Naturals, FiniteSets

CONSTANTS
  Items,
  NamedBy,   \* the item id that bl_id_from_feature_branch reads in a branch name
  Alone,     \* operators wait for the scheduler to stop before they type a command
  MaxRuns,   \* bound: launches of each item
  MaxOps     \* bound: commands typed

ASSUME NamedByAssumption == DOMAIN NamedBy = Items
ASSUME AloneAssumption == Alone \in BOOLEAN
ASSUME BoundAssumption == MaxRuns \in Nat /\ MaxOps \in Nat

VARIABLES
  status,      \* "ACTIVE" is any of ACTIVE_BL_STATUSES
  registered,  \* rows of the worktrees table
  tree,        \* worktree directories, and what is in them
  branch,      \* feat/<item>: "none", "base" (no commit of its own) or "ahead"
  behind,      \* branches that lack a commit of main
  worker,      \* the scheduler's worker of each item
  runs,        \* launches so far
  op,          \* the operator's command in progress
  ops          \* commands typed so far

git == <<tree, branch, behind>>
vars == <<status, registered, tree, branch, behind, worker, runs, op, ops>>

Idle == [pc |-> "idle", active |-> {}, todo |-> {}, item |-> {}, done |-> {}, failed |-> {},
         tries |-> 0]
ACTIVE_BL_STATUSES == {"ACTIVE"}
DEFAULT_MAX_ATTEMPTS == 2

Commands ==
  [pc : {"idle", "list", "remove", "unregister", "orphans", "merged", "delete",
         "abort", "reset", "next", "rebase", "conflict"},
   active : SUBSET Items, todo : SUBSET Items, item : SUBSET Items, done : SUBSET Items,
   failed : SUBSET Items, tries : 0..DEFAULT_MAX_ATTEMPTS]

TypeOK ==
  /\ status \in [Items -> {"TODO", "ACTIVE", "BLOCKED", "DONE"}]
  /\ registered \subseteq Items
  /\ tree \in [Items -> {"none", "clean", "edits", "rebasing"}]
  /\ branch \in [Items -> {"none", "base", "ahead"}]
  /\ behind \subseteq Items
  /\ worker \in [Items -> {"off", "get", "insert", "add", "undo", "start", "run"}]
  /\ runs \in [Items -> 0..MaxRuns]
  /\ op \in Commands
  /\ ops \in 0..MaxOps

Init ==
  /\ status = [i \in Items |-> "TODO"]
  /\ registered = {}
  /\ tree = [i \in Items |-> "none"]
  /\ branch = [i \in Items |-> "none"]
  /\ behind = {}
  /\ worker = [i \in Items |-> "off"]
  /\ runs = [i \in Items |-> 0]
  /\ op = Idle
  /\ ops = 0

---------------------------------------------------------------------------
(* A worker provisions its worktree, then runs the item in it.                    *)

now(i, pc) == worker' = [worker EXCEPT ![i] = pc]
op_unchanged == UNCHANGED <<op, ops>>

launch(i) ==
  /\ worker[i] = "off" /\ status[i] = "TODO" /\ runs[i] < MaxRuns
  /\ Alone => op.pc = "idle"
  /\ now(i, "get")
  /\ runs' = [runs EXCEPT ![i] = @ + 1]
  /\ UNCHANGED <<status, registered, git>> /\ op_unchanged

\* An existing row is believed: its path is returned as it is.
provision(i) ==
  /\ worker[i] = "get"
  /\ now(i, IF i \in registered THEN "start" ELSE "insert")
  /\ UNCHANGED <<status, registered, git, runs>> /\ op_unchanged

create(i) ==
  /\ worker[i] = "insert"
  /\ registered' = registered \cup {i}
  /\ now(i, "add")
  /\ UNCHANGED <<status, git, runs>> /\ op_unchanged

\* git worktree add -b refuses an existing directory and an existing branch. It may fail
\* for a time too (a lock, a full disk), before or after it has made the branch.
worktree_add(i) ==
  /\ worker[i] = "add"
  /\ \/ /\ tree[i] = "none" /\ branch[i] = "none"
        /\ \/ tree' = [tree EXCEPT ![i] = "clean"] /\ now(i, "start")
           \/ UNCHANGED tree /\ now(i, "undo")
        /\ branch' = [branch EXCEPT ![i] = "base"]
        /\ behind' = behind \ {i}
     \/ now(i, "undo") /\ UNCHANGED git
  /\ UNCHANGED <<status, registered, runs>> /\ op_unchanged

\* The row goes and WorktreeError is raised.
undo(i) ==
  /\ worker[i] = "undo"
  /\ registered' = registered \ {i}
  /\ now(i, "off")
  /\ UNCHANGED <<status, git, runs>> /\ op_unchanged

\* Without a directory the specification is not found and run_bl refuses.
run_bl(i) ==
  /\ worker[i] = "start"
  /\ IF tree[i] = "none"
       THEN now(i, "off") /\ UNCHANGED status
       ELSE now(i, "run") /\ status' = [status EXCEPT ![i] = "ACTIVE"]
  /\ UNCHANGED <<registered, git, runs>> /\ op_unchanged

edit(i) ==
  /\ worker[i] = "run" /\ tree[i] \in {"clean", "edits"}
  /\ tree' = [tree EXCEPT ![i] = "edits"]
  /\ UNCHANGED <<status, registered, branch, behind, worker, runs>> /\ op_unchanged

commit(i) ==
  /\ worker[i] = "run" /\ tree[i] = "edits"
  /\ tree' = [tree EXCEPT ![i] = "clean"]
  /\ branch' = [branch EXCEPT ![i] = "ahead"]
  /\ UNCHANGED <<status, registered, behind, worker, runs>> /\ op_unchanged

\* The squash merge; git keeps the branch when it cannot leave it for main.
merge(i) ==
  /\ worker[i] = "run" /\ branch[i] = "ahead"
  /\ status' = [status EXCEPT ![i] = "DONE"]
  /\ branch' \in {branch, [branch EXCEPT ![i] = "none"]}
  /\ behind' = {j \in Items : branch'[j] # "none"}
  /\ now(i, "off")
  /\ UNCHANGED <<registered, tree, runs>> /\ op_unchanged

block(i) ==
  /\ worker[i] = "run"
  /\ status' = [status EXCEPT ![i] = "BLOCKED"]
  /\ now(i, "off")
  /\ UNCHANGED <<registered, git, runs>> /\ op_unchanged

\* The scheduler dies with all its workers.
crash ==
  /\ \E i \in Items : worker[i] # "off"
  /\ worker' = [i \in Items |-> "off"]
  /\ UNCHANGED <<status, registered, git, runs>> /\ op_unchanged

forge_revert(i) ==
  /\ worker[i] = "off" /\ status[i] = "DONE"
  /\ status' = [status EXCEPT ![i] = "TODO"]
  /\ UNCHANGED <<registered, git, worker, runs>> /\ op_unchanged

---------------------------------------------------------------------------
(* Commands. Each reads what it needs at its start, then works through it.         *)

typed(start) ==
  /\ op.pc = "idle" /\ ops < MaxOps
  /\ Alone => \A i \in Items : worker[i] = "off"
  /\ op' = start
  /\ ops' = ops + 1
  /\ UNCHANGED <<status, registered, git, worker, runs>>

becomes(next) == op' = next /\ UNCHANGED <<status, worker, runs, ops>>
done_with(i) == [op EXCEPT !.todo = @ \ {i}, !.item = {}, !.done = @ \cup {i}, !.tries = 0]

\* The command is killed, with the git rebase that it may be waiting for.
killed ==
  /\ op.pc # "idle" /\ becomes(Idle)
  /\ \/ UNCHANGED tree
     \/ /\ op.pc = "rebase"
        /\ \E i \in op.item \cap behind :
             tree[i] = "clean" /\ tree' = [tree EXCEPT ![i] = "rebasing"]
  /\ UNCHANGED <<registered, branch, behind>>

_active_bl_ids == {i \in Items : status[i] \in ACTIVE_BL_STATUSES}

(* forge cleanup-orphans                                                           *)

forge_cleanup_orphans == typed([Idle EXCEPT !.pc = "list", !.active = _active_bl_ids])

\* Mutant of removable: every registered worktree is an orphan.
Bug_removes_active == registered

removable == registered \ op.active

list_registered ==
  /\ op.pc = "list"
  /\ becomes([op EXCEPT !.pc = "remove", !.todo = removable])
  /\ UNCHANGED <<registered, git>>

\* WorktreeManager.remove: git worktree remove --force, then the row.
remove(i) ==
  /\ op.pc = "remove" /\ i \in op.todo
  /\ tree' = [tree EXCEPT ![i] = "none"]
  /\ becomes([op EXCEPT !.pc = "unregister", !.todo = @ \ {i}, !.item = {i}])
  /\ UNCHANGED <<registered, branch, behind>>

unregister ==
  /\ op.pc = "unregister"
  /\ registered' = registered \ op.item
  /\ becomes([op EXCEPT !.pc = "remove", !.item = {}])
  /\ UNCHANGED git

remove_ends ==
  /\ op.pc = "remove" /\ op.todo = {}
  /\ becomes([op EXCEPT !.pc = "orphans"])
  /\ UNCHANGED <<registered, git>>

\* Mutant of vanished: rows are dropped without a look at the directory.
Bug_drops_all_rows == registered

\* Rows whose directory is not there.
vanished == {i \in registered : tree[i] = "none"}

cleanup_orphans ==
  /\ op.pc = "orphans"
  /\ registered' = registered \ vanished
  /\ becomes([op EXCEPT !.pc = "merged"])
  /\ UNCHANGED git

\* Mutant of merged_branches: every local branch is taken for a merged one.
Bug_all_branches == {i \in Items : branch[i] # "none"}

\* git branch --merged main: nothing of their own; a squashed branch is not one.
merged_branches == {i \in Items : branch[i] = "base"}

\* The item that the name of a branch is read as, which hyphens can mislead.
bl_id_from_feature_branch(i) == NamedBy[i]

\* A branch is protected through that item.
list_branches ==
  /\ op.pc = "merged"
  /\ becomes([op EXCEPT !.pc = "delete",
                        !.todo = {i \in merged_branches :
                                     bl_id_from_feature_branch(i) \notin op.active}])
  /\ UNCHANGED <<registered, git>>

\* git branch -D, which git refuses for a branch that is checked out.
delete_branch(i) ==
  /\ op.pc = "delete" /\ i \in op.todo
  /\ branch' = IF tree[i] = "none" THEN [branch EXCEPT ![i] = "none"] ELSE branch
  /\ behind' = IF tree[i] = "none" THEN behind \ {i} ELSE behind
  /\ becomes(done_with(i))
  /\ UNCHANGED <<registered, tree>>

delete_ends ==
  /\ op.pc = "delete" /\ op.todo = {}
  /\ becomes(Idle)
  /\ UNCHANGED <<registered, git>>

(* forge resume: the worktrees of the interrupted items                            *)

\* A worktree is found by its branch, or by the branch it was rebasing.
_find_residual_worktree(i) == tree[i] # "none" /\ branch[i] # "none"

forge_resume ==
  typed([Idle EXCEPT !.pc = "abort",
                     !.todo = {i \in _active_bl_ids : _find_residual_worktree(i)}])

\* Mutant of aborted: git reset is thought to end a rebase.
Bug_no_abort(content) == content

\* git rebase --abort
aborted(content) == IF content = "rebasing" THEN "clean" ELSE content

abort_rebase(i) ==
  /\ op.pc = "abort" /\ i \in op.todo
  /\ tree' = [tree EXCEPT ![i] = aborted(@)]
  /\ becomes([op EXCEPT !.pc = "reset", !.item = {i}])
  /\ UNCHANGED <<registered, branch, behind>>

\* git reset --hard HEAD, git clean -fd: a rebase in progress would stay.
reset(i) ==
  /\ op.pc = "reset" /\ i \in op.item
  /\ tree' = [tree EXCEPT ![i] = IF @ = "edits" THEN "clean" ELSE @]
  /\ becomes([done_with(i) EXCEPT !.pc = "abort"])
  /\ UNCHANGED <<registered, branch, behind>>

resume_ends ==
  /\ op.pc = "abort" /\ op.todo = {}
  /\ becomes(Idle)
  /\ UNCHANGED <<registered, git>>

(* rebase_siblings, after a merge                                                  *)

rebase_siblings ==
  \E i \in Items :
    /\ status[i] = "DONE"
    /\ typed([Idle EXCEPT !.pc = "next", !.todo = {j \in registered \ {i} : tree[j] # "none"}])

attempts_left == op.tries < DEFAULT_MAX_ATTEMPTS

start_rebase(i) ==
  /\ op.pc = "next" /\ attempts_left
  /\ i \in IF op.item = {} THEN op.todo ELSE op.item
  /\ becomes([op EXCEPT !.pc = "rebase", !.item = {i}, !.tries = @ + 1])
  /\ UNCHANGED <<registered, git>>

\* git rebase main ends, fails at once, or stops on a conflict; it fails on a rebase left by a
\* killed command, which is reported as a conflict when it has unmerged files.
rebase(i) ==
  /\ op.pc = "rebase" /\ i \in op.item
  /\ \/ /\ tree[i] = "clean"
        /\ behind' = behind \ {i}
        /\ becomes([done_with(i) EXCEPT !.pc = "next"])
        /\ UNCHANGED <<tree, branch>>
     \/ /\ becomes([op EXCEPT !.pc = "next"])
        /\ tree' = [tree EXCEPT ![i] = aborted(@)]
        /\ UNCHANGED <<branch, behind>>
     \/ /\ tree[i] = "rebasing" \/ (tree[i] = "clean" /\ i \in behind)
        /\ tree' = [tree EXCEPT ![i] = "rebasing"]
        /\ becomes([op EXCEPT !.pc = "conflict"])
        /\ UNCHANGED <<branch, behind>>
  /\ UNCHANGED registered

reported(i) == [done_with(i) EXCEPT !.pc = "next", !.failed = @ \cup {i}]

conflict(i) ==
  /\ op.pc = "conflict" /\ i \in op.item
  /\ tree' = [tree EXCEPT ![i] = aborted(@)]
  /\ becomes(reported(i))
  /\ UNCHANGED <<registered, branch, behind>>

rebase_failed(i) ==
  /\ op.pc = "next" /\ i \in op.item /\ ~attempts_left
  /\ becomes(reported(i))
  /\ UNCHANGED <<registered, git>>

siblings_end ==
  /\ op.pc = "next" /\ op.todo = {} /\ op.item = {}
  /\ becomes(Idle)
  /\ UNCHANGED <<registered, git>>

---------------------------------------------------------------------------
workerStep(i) ==
  \/ provision(i) \/ create(i) \/ worktree_add(i) \/ undo(i) \/ run_bl(i)

commandStep ==
  \/ list_registered \/ unregister \/ remove_ends \/ cleanup_orphans
  \/ list_branches \/ delete_ends \/ resume_ends \/ siblings_end
  \/ \E i \in Items :
       \/ remove(i) \/ delete_branch(i) \/ abort_rebase(i) \/ reset(i)
       \/ start_rebase(i) \/ rebase(i) \/ conflict(i) \/ rebase_failed(i)

Next ==
  \/ \E i \in Items :
       launch(i) \/ workerStep(i) \/ edit(i) \/ commit(i) \/ merge(i) \/ block(i) \/ forge_revert(i)
  \/ crash
  \/ forge_cleanup_orphans \/ forge_resume \/ rebase_siblings
  \/ commandStep
  \/ killed

Spec == Init /\ [][Next]_vars
---------------------------------------------------------------------------
(* Every worktree directory has its row, through crashes of the scheduler and of  *)
(* the cleaner: create inserts before git, remove deletes after git. A directory   *)
(* without a row would never be cleaned and would refuse the next create.          *)
TreesRegistered == \A i \in Items : tree[i] # "none" => i \in registered

(* What makes it inductive: no directory while its row is inserted or undone, none  *)
(* either between git and the row of a removal, and operators who wait.            *)
RegistryInv ==
  /\ TypeOK
  /\ TreesRegistered
  /\ \A i \in Items : worker[i] \in {"insert", "add", "undo"} => tree[i] = "none"
  /\ \A i \in Items : worker[i] = "add" => i \in registered
  /\ op.pc = "unregister" => \A i \in op.item : tree[i] = "none"
  /\ Alone => op.pc = "idle" \/ \A i \in Items : worker[i] = "off"

(* Commits leave a feature branch only through the merge of their item: whatever   *)
(* cleanup-orphans, resume and the rebase of siblings do, nothing unmerged is      *)
(* deleted with its branch.                                                        *)
WorkKept ==
  [][\A i \in Items : branch[i] = "ahead" /\ branch'[i] # "ahead"
       => status[i] = "ACTIVE" /\ status'[i] = "DONE"]_vars

(* OrphanCleaner: "Remove orphaned workspace artifacts while protecting active     *)
(* backlog items". The worktree of an active item is never removed.                *)
ActiveTreeKept ==
  [][\A i \in Items : status[i] = "ACTIVE" /\ tree[i] # "none" => tree'[i] # "none"]_vars

(* forge resume leaves each interrupted worktree on its branch, without edits; a     *)
(* sibling is left on the new main, or reported as failed; and none of them in the *)
(* middle of a rebase (recovery.py, rebase.py).                                    *)
TreesSettled ==
  /\ op.pc \in {"abort", "reset"} => \A i \in op.done : tree[i] = "clean"
  /\ op.pc \in {"next", "rebase", "conflict"} =>
       \A i \in op.done : tree[i] # "rebasing" /\ (i \in behind => i \in op.failed)
=============================================================================
