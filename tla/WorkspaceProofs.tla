--------------------------- MODULE WorkspaceProofs ----------------------------
(***************************************************************************)
(* As long as operators wait for the scheduler to stop before they type a  *)
(* command, and whatever crashes: every worktree has its row, no step      *)
(* touches a branch that holds unmerged commits but the merge itself, the  *)
(* worktree of an active item is never removed, and commands leave the     *)
(* worktrees they have dealt with settled.                                 *)
(***************************************************************************)
EXTENDS Workspace, TLAPS

\* The parts of RegistryInv that are not about types, by name.
Provisioning ==
  /\ \A i \in Items : worker[i] \in {"insert", "add", "undo"} => tree[i] = "none"
  /\ \A i \in Items : worker[i] = "add" => i \in registered
Removal == op.pc = "unregister" => \A i \in op.item : tree[i] = "none"
Apart == Alone => op.pc = "idle" \/ \A i \in Items : worker[i] = "off"

LEMMA RegistryParts ==
  RegistryInv <=> TypeOK /\ TreesRegistered /\ Provisioning /\ Removal /\ Apart
  BY DEF RegistryInv, Provisioning, Removal, Apart

LEMMA Init_RegistryInv == Init => RegistryInv
  BY BoundAssumption
  DEF Init, RegistryInv, TypeOK, TreesRegistered, Idle, Commands, DEFAULT_MAX_ATTEMPTS

\* Steps of workers and of people leave the command alone.
LEMMA Worker_TypeOK ==
  ASSUME TypeOK, NEW i \in Items,
         launch(i) \/ workerStep(i) \/ edit(i) \/ commit(i) \/ merge(i) \/ block(i)
           \/ forge_revert(i)
  PROVE  TypeOK' /\ op' = op /\ ops' = ops
  <1>1. op' = op /\ ops' = ops
    BY DEF launch, workerStep, provision, create, worktree_add, undo, run_bl, edit, commit,
           merge, block, forge_revert, op_unchanged
  <1>2. op' \in Commands /\ ops' \in 0..MaxOps BY <1>1 DEF TypeOK
  <1>3. registered' \subseteq Items
    BY DEF TypeOK, launch, workerStep, provision, create, worktree_add, undo, run_bl, edit,
           commit, merge, block, forge_revert
  <1>4. behind' \subseteq Items
    BY DEF TypeOK, launch, workerStep, provision, create, worktree_add, undo, run_bl, edit,
           commit, merge, block, forge_revert, git
  <1>5. runs' \in [Items -> 0..MaxRuns]
    BY BoundAssumption
    DEF TypeOK, launch, workerStep, provision, create, worktree_add, undo, run_bl, edit,
           commit, merge, block, forge_revert
  <1>6. status' \in [Items -> {"TODO", "ACTIVE", "BLOCKED", "DONE"}]
    BY DEF TypeOK, launch, workerStep, provision, create, worktree_add, undo, run_bl, edit,
           commit, merge, block, forge_revert
  <1>7. tree' \in [Items -> {"none", "clean", "edits", "rebasing"}]
    BY DEF TypeOK, launch, workerStep, provision, create, worktree_add, undo, run_bl, edit,
           commit, merge, block, forge_revert, git
  <1>8. branch' \in [Items -> {"none", "base", "ahead"}]
    BY DEF TypeOK, launch, workerStep, provision, create, worktree_add, undo, run_bl, edit,
           commit, merge, block, forge_revert, git
  <1>9. worker' \in [Items -> {"off", "get", "insert", "add", "undo", "start", "run"}]
    BY DEF TypeOK, launch, workerStep, provision, create, worktree_add, undo, run_bl, edit,
           commit, merge, block, forge_revert, now
  <1>10. QED BY <1>1, <1>2, <1>3, <1>4, <1>5, <1>6, <1>7, <1>8, <1>9 DEF TypeOK

LEMMA Worker_RegistryInv ==
  ASSUME Alone, RegistryInv, NEW i \in Items,
         launch(i) \/ workerStep(i) \/ edit(i) \/ commit(i) \/ merge(i) \/ block(i)
           \/ forge_revert(i)
  PROVE  RegistryInv'
  <1>1. TypeOK /\ TreesRegistered /\ Provisioning /\ Removal /\ Apart
    BY RegistryParts
  <1>2. TypeOK' /\ op' = op /\ ops' = ops BY <1>1, Worker_TypeOK
  <1>4. TreesRegistered'
    <2>1. CASE worktree_add(i)
      BY <1>1, <2>1 DEF TypeOK, TreesRegistered, Provisioning, worktree_add, git
    <2>2. CASE undo(i)
      BY <1>1, <2>2 DEF TypeOK, TreesRegistered, Provisioning, undo, git
    <2>3. CASE edit(i) \/ commit(i)
      BY <1>1, <2>3 DEF TypeOK, TreesRegistered, edit, commit
    <2>4. CASE launch(i) \/ provision(i) \/ create(i) \/ run_bl(i) \/ merge(i) \/ block(i)
                 \/ forge_revert(i)
      BY <1>1, <2>4
      DEF TreesRegistered, launch, provision, create, run_bl, merge, block, forge_revert, git
    <2>5. QED BY <2>1, <2>2, <2>3, <2>4 DEF workerStep
  <1>5. Provisioning'
    <2>1. CASE launch(i) \/ run_bl(i) \/ block(i) \/ forge_revert(i) \/ merge(i)
      BY <1>1, <2>1
      DEF TypeOK, Provisioning, launch, run_bl, block, forge_revert, merge, now, git
    <2>2. CASE provision(i)
      BY <1>1, <2>2 DEF TypeOK, TreesRegistered, Provisioning, provision, now, git
    <2>3. CASE create(i)
      BY <1>1, <2>3 DEF TypeOK, Provisioning, create, now, git
    <2>4. CASE worktree_add(i)
      <3>1. CASE tree[i] = "none" /\ branch[i] = "none"
        BY <1>1, <2>4, <3>1 DEF TypeOK, Provisioning, worktree_add, now, git
      <3>2. CASE ~(tree[i] = "none" /\ branch[i] = "none")
        BY <1>1, <2>4, <3>2 DEF TypeOK, Provisioning, worktree_add, now, git
      <3>3. QED BY <3>1, <3>2
    <2>5. CASE undo(i)
      BY <1>1, <2>5 DEF TypeOK, Provisioning, undo, now, git
    <2>6. CASE edit(i) \/ commit(i)
      BY <1>1, <2>6 DEF TypeOK, Provisioning, edit, commit
    <2>7. QED BY <2>1, <2>2, <2>3, <2>4, <2>5, <2>6 DEF workerStep
  <1>6. Removal' /\ Apart'
    <2>1. CASE forge_revert(i) BY <1>1, <2>1 DEF Removal, Apart, forge_revert, git, op_unchanged
    <2>2. CASE ~forge_revert(i)
      <3>1. op.pc = "idle"
        BY <1>1, <2>2 DEF Apart, launch, workerStep, provision, create, worktree_add, undo,
           run_bl, edit, commit, merge, block
      <3>2. QED BY <1>2, <3>1 DEF Removal, Apart
    <2>3. QED BY <2>1, <2>2
  <1>7. TypeOK' /\ TreesRegistered' /\ Provisioning' /\ Removal' /\ Apart'
    BY <1>2, <1>4, <1>5, <1>6
  <1>8. QED BY <1>7 DEF RegistryInv, Provisioning, Removal, Apart

\* A crash stops all workers; the rows and the directories stay.
LEMMA Crash_RegistryInv ==
  ASSUME RegistryInv, crash PROVE RegistryInv'
  BY DEF RegistryInv, TypeOK, TreesRegistered, crash, op_unchanged, git

\* The start of a command.
LEMMA Typed_RegistryInv ==
  ASSUME Alone, RegistryInv, forge_cleanup_orphans \/ forge_resume \/ rebase_siblings
  PROVE  RegistryInv'
  <1>0. Idle \in Commands BY DEF Idle, Commands, DEFAULT_MAX_ATTEMPTS
  <1>1. PICK c \in Commands : typed(c) /\ c.pc # "unregister"
    <2>1. CASE forge_cleanup_orphans
      <3>1. [Idle EXCEPT !.pc = "list", !.active = _active_bl_ids] \in Commands
        BY <1>0 DEF Commands, _active_bl_ids
      <3>2. [Idle EXCEPT !.pc = "list", !.active = _active_bl_ids].pc = "list" BY DEF Idle
      <3>3. QED BY <2>1, <3>1, <3>2 DEF forge_cleanup_orphans
    <2>2. CASE forge_resume
      <3> DEFINE S == {i \in _active_bl_ids : _find_residual_worktree(i)}
      <3>0. S \subseteq Items BY DEF _active_bl_ids
      <3> HIDE DEF S
      <3>1. [Idle EXCEPT !.pc = "abort", !.todo = S] \in Commands
        BY <1>0, <3>0 DEF Commands
      <3>2. [Idle EXCEPT !.pc = "abort", !.todo = S].pc = "abort" BY DEF Idle
      <3>3. typed([Idle EXCEPT !.pc = "abort", !.todo = S]) BY <2>2 DEF forge_resume, S
      <3>4. QED BY <3>1, <3>2, <3>3
    <2>3. CASE rebase_siblings
      <3>1. PICK i \in Items :
              typed([Idle EXCEPT !.pc = "next",
                                 !.todo = {j \in registered \ {i} : tree[j] # "none"}])
        BY <2>3 DEF rebase_siblings
      <3> DEFINE S == {j \in registered \ {i} : tree[j] # "none"}
      <3>2. S \subseteq Items BY DEF RegistryInv, TypeOK
      <3>3. typed([Idle EXCEPT !.pc = "next", !.todo = S]) BY <3>1
      <3> HIDE DEF S
      <3>4. [Idle EXCEPT !.pc = "next", !.todo = S] \in Commands
        BY <1>0, <3>2 DEF Commands
      <3>5. [Idle EXCEPT !.pc = "next", !.todo = S].pc = "next" BY DEF Idle
      <3>6. QED BY <3>3, <3>4, <3>5
    <2>4. QED BY <2>1, <2>2, <2>3
  <1>2. TypeOK'
    BY <1>1, BoundAssumption DEF RegistryInv, TypeOK, typed, git
  <1>3. QED BY <1>1, <1>2 DEF RegistryInv, TreesRegistered, typed, git

\* What a step of a command makes of the command: a record of the same type, and a
\* row is next to go only when remove has chosen it.
LEMMA DoneFields ==
  ASSUME op \in Commands, NEW i \in Items
  PROVE  /\ done_with(i) \in Commands /\ done_with(i).pc = op.pc
         /\ [done_with(i) EXCEPT !.pc = "next"] \in Commands
         /\ [done_with(i) EXCEPT !.pc = "next"].pc = "next"
         /\ [done_with(i) EXCEPT !.pc = "abort"] \in Commands
         /\ [done_with(i) EXCEPT !.pc = "abort"].pc = "abort"
         /\ reported(i) \in Commands /\ reported(i).pc = "next"
  <1>1. done_with(i) \in Commands /\ done_with(i).pc = op.pc
    <2>1. PICK T \in SUBSET Items, D \in SUBSET Items :
            done_with(i) = [op EXCEPT !.todo = T, !.item = {}, !.done = D, !.tries = 0]
      <3>1. op.todo \ {i} \in SUBSET Items /\ op.done \cup {i} \in SUBSET Items
        BY DEF Commands
      <3>2. QED BY <3>1 DEF done_with
    <2>2. [op EXCEPT !.todo = T, !.item = {}] \in Commands BY DEF Commands
    <2>3. \A c \in Commands : [c EXCEPT !.done = D] \in Commands BY DEF Commands
    <2>4. \A c \in Commands : [c EXCEPT !.tries = 0] \in Commands
      BY DEF Commands, DEFAULT_MAX_ATTEMPTS
    <2>5. done_with(i).pc = op.pc BY <2>1 DEF Commands
    <2>6. QED BY <2>1, <2>2, <2>3, <2>4, <2>5
  <1>2. /\ [done_with(i) EXCEPT !.pc = "next"] \in Commands
        /\ [done_with(i) EXCEPT !.pc = "next"].pc = "next"
    BY <1>1 DEF Commands
  <1>3. /\ [done_with(i) EXCEPT !.pc = "abort"] \in Commands
        /\ [done_with(i) EXCEPT !.pc = "abort"].pc = "abort"
    BY <1>1 DEF Commands
  <1>4. reported(i) \in Commands /\ reported(i).pc = "next"
    BY <1>1 DEF Commands, reported
  <1>5. QED BY <1>1, <1>2, <1>3, <1>4

LEMMA Cleanup_op ==
  ASSUME TypeOK, NEW i,
         \/ list_registered \/ unregister \/ remove_ends \/ cleanup_orphans
         \/ list_branches \/ delete_ends
         \/ i \in Items /\ (remove(i) \/ delete_branch(i))
  PROVE  op' \in Commands /\ (op'.pc = "unregister" => remove(i) /\ op'.item = {i})
  <1>0. op \in Commands BY DEF TypeOK
  <1>1. CASE list_registered
    <2>1. op' = [op EXCEPT !.pc = "remove", !.todo = removable] /\ removable \subseteq Items
      BY <1>1 DEF list_registered, becomes, removable, TypeOK
    <2> HIDE DEF removable
    <2>2. QED BY <1>0, <2>1 DEF Commands
  <1>2. CASE unregister
    <2>1. op' = [op EXCEPT !.pc = "remove", !.item = {}] BY <1>2 DEF unregister, becomes
    <2>2. QED BY <1>0, <1>2, <2>1 DEF Commands
  <1>3. CASE remove_ends
    <2>1. op' = [op EXCEPT !.pc = "orphans"] BY <1>3 DEF remove_ends, becomes
    <2>2. QED BY <1>0, <2>1 DEF Commands
  <1>4. CASE cleanup_orphans
    <2>1. op' = [op EXCEPT !.pc = "merged"] BY <1>4 DEF cleanup_orphans, becomes
    <2>2. QED BY <1>0, <2>1 DEF Commands
  <1>5. CASE list_branches
    <2>1. PICK S \in SUBSET Items : op' = [op EXCEPT !.pc = "delete", !.todo = S]
      BY <1>5 DEF list_branches, becomes, merged_branches
    <2>2. QED BY <1>0, <2>1 DEF Commands
  <1>6. CASE delete_ends
    <2>1. op' = Idle BY <1>6 DEF delete_ends, becomes
    <2>2. QED BY <2>1 DEF Idle, Commands, DEFAULT_MAX_ATTEMPTS
  <1>7. CASE i \in Items /\ remove(i)
    <2>1. op' = [op EXCEPT !.pc = "unregister", !.todo = @ \ {i}, !.item = {i}]
      BY <1>7 DEF remove, becomes
    <2>2. op' \in Commands /\ op'.item = {i} BY <1>0, <1>7, <2>1 DEF Commands
    <2>3. QED BY <1>7, <2>2
  <1>8. CASE i \in Items /\ delete_branch(i)
    <2>1. op' = done_with(i) /\ op.pc = "delete" BY <1>8 DEF delete_branch, becomes
    <2>2. QED BY <1>0, <1>8, <2>1, DoneFields
  <1>9. QED BY <1>1, <1>2, <1>3, <1>4, <1>5, <1>6, <1>7, <1>8

LEMMA Rebase_op ==
  ASSUME TypeOK, NEW i,
         \/ resume_ends \/ siblings_end
         \/ /\ i \in Items
            /\ \/ abort_rebase(i) \/ reset(i) \/ start_rebase(i) \/ rebase(i) \/ conflict(i)
               \/ rebase_failed(i)
  PROVE  op' \in Commands /\ op'.pc # "unregister"
  <1>0. op \in Commands BY DEF TypeOK
  <1>1. CASE resume_ends \/ siblings_end
    <2>1. op' = Idle BY <1>1 DEF resume_ends, siblings_end, becomes
    <2>2. QED BY <2>1 DEF Idle, Commands, DEFAULT_MAX_ATTEMPTS
  <1>2. CASE i \in Items /\ abort_rebase(i)
    <2>1. op' = [op EXCEPT !.pc = "reset", !.item = {i}] BY <1>2 DEF abort_rebase, becomes
    <2>2. QED BY <1>0, <1>2, <2>1 DEF Commands
  <1>3. CASE i \in Items /\ reset(i)
    <2>1. op' = [done_with(i) EXCEPT !.pc = "abort"] BY <1>3 DEF reset, becomes
    <2>2. QED BY <1>0, <1>3, <2>1, DoneFields
  <1>4. CASE i \in Items /\ start_rebase(i)
    <2>1. /\ op' = [op EXCEPT !.pc = "rebase", !.item = {i}, !.tries = @ + 1]
          /\ op.tries < DEFAULT_MAX_ATTEMPTS
      BY <1>4 DEF start_rebase, becomes, attempts_left
    <2>2. op.tries + 1 \in 0..DEFAULT_MAX_ATTEMPTS
      BY <1>0, <2>1 DEF Commands, DEFAULT_MAX_ATTEMPTS
    <2>3. QED BY <1>0, <1>4, <2>1, <2>2 DEF Commands
  <1>5. CASE i \in Items /\ rebase(i)
    <2>1. \/ op' = [done_with(i) EXCEPT !.pc = "next"]
          \/ op' = [op EXCEPT !.pc = "next"]
          \/ op' = [op EXCEPT !.pc = "conflict"]
      BY <1>5 DEF rebase, becomes
    <2>2. QED BY <1>0, <1>5, <2>1, DoneFields DEF Commands
  <1>6. CASE i \in Items /\ (conflict(i) \/ rebase_failed(i))
    <2>1. op' = reported(i) BY <1>6 DEF conflict, rebase_failed, becomes
    <2>2. QED BY <1>0, <1>6, <2>1, DoneFields
  <1>7. QED BY <1>1, <1>2, <1>3, <1>4, <1>5, <1>6

\* The steps of forge cleanup-orphans: rows go only after their directories.
LEMMA Cleanup_RegistryInv ==
  ASSUME RegistryInv, NEW i,
         \/ list_registered \/ unregister \/ remove_ends \/ cleanup_orphans
         \/ list_branches \/ delete_ends
         \/ i \in Items /\ (remove(i) \/ delete_branch(i))
  PROVE  TypeOK' /\ TreesRegistered' /\ Removal'
  <1>1. TypeOK /\ TreesRegistered /\ Removal BY RegistryParts
  <1>2. op' \in Commands /\ (op'.pc = "unregister" => remove(i) /\ op'.item = {i})
    BY <1>1, Cleanup_op
  <1>3. UNCHANGED <<status, worker, runs, ops>>
    BY DEF becomes, list_registered, unregister, remove_ends, cleanup_orphans,
           list_branches, delete_ends, remove, delete_branch
  <1>4. /\ registered' \subseteq registered
        /\ \A j \in Items : j \in registered /\ j \notin registered' => tree'[j] = "none"
    <2>1. CASE unregister BY <1>1, <2>1 DEF unregister, git, Removal
    <2>2. CASE cleanup_orphans BY <2>2 DEF cleanup_orphans, git, vanished
    <2>3. CASE ~unregister /\ ~cleanup_orphans
      BY <2>3 DEF list_registered, remove_ends, list_branches, delete_ends, remove,
                  delete_branch
    <2>4. QED BY <2>1, <2>2, <2>3
  <1>5. tree' = tree \/ (remove(i) /\ tree' = [tree EXCEPT ![i] = "none"])
    <2>1. CASE remove(i) BY <2>1 DEF remove
    <2>2. CASE ~remove(i)
      BY <2>2 DEF git, list_registered, unregister, remove_ends, cleanup_orphans,
         list_branches, delete_ends, delete_branch
    <2>3. QED BY <2>1, <2>2
  <1>6. /\ branch' \in [Items -> {"none", "base", "ahead"}]
        /\ behind' \subseteq Items
    <2>1. CASE delete_branch(i) BY <1>1, <2>1 DEF TypeOK, delete_branch
    <2>2. CASE ~delete_branch(i)
      BY <1>1, <2>2 DEF TypeOK, git, list_registered, unregister, remove_ends,
         cleanup_orphans, list_branches, delete_ends, remove
    <2>3. QED BY <2>1, <2>2
  <1>7. TypeOK' BY <1>1, <1>2, <1>3, <1>4, <1>5, <1>6 DEF TypeOK
  <1>8. TreesRegistered' BY <1>1, <1>4, <1>5 DEF TypeOK, TreesRegistered
  <1>9. Removal'
    <2>1. remove(i) => tree'[i] = "none" BY <1>1 DEF remove, TypeOK, Commands
    <2>2. QED BY <1>2, <2>1 DEF Removal
  <1>10. QED BY <1>7, <1>8, <1>9

\* The steps of forge resume and of the rebase of siblings: no directory comes or goes.
LEMMA Rebase_RegistryInv ==
  ASSUME RegistryInv, NEW i,
         \/ resume_ends \/ siblings_end
         \/ /\ i \in Items
            /\ \/ abort_rebase(i) \/ reset(i) \/ start_rebase(i) \/ rebase(i) \/ conflict(i)
               \/ rebase_failed(i)
  PROVE  TypeOK' /\ TreesRegistered' /\ Removal'
  <1>1. TypeOK /\ TreesRegistered /\ Removal BY RegistryParts
  <1>2. op' \in Commands /\ op'.pc # "unregister" BY <1>1, Rebase_op
  <1>3. UNCHANGED <<status, registered, branch, worker, runs, ops>>
    BY DEF becomes, git, resume_ends, siblings_end, abort_rebase, reset, start_rebase, rebase,
           conflict, rebase_failed
  <1>4. behind' \subseteq Items
    BY <1>1 DEF TypeOK, git, resume_ends, siblings_end, abort_rebase, reset, start_rebase,
           rebase, conflict, rebase_failed
  <1>5. \/ tree' = tree
        \/ tree' = [tree EXCEPT ![i] = aborted(@)]
        \/ tree' = [tree EXCEPT ![i] = IF @ = "edits" THEN "clean" ELSE @]
        \/ tree[i] \in {"clean", "rebasing"} /\ tree' = [tree EXCEPT ![i] = "rebasing"]
    BY DEF git, resume_ends, siblings_end, abort_rebase, reset, start_rebase, rebase,
           conflict, rebase_failed
  <1>6. /\ tree' \in [Items -> {"none", "clean", "edits", "rebasing"}]
        /\ \A j \in Items : tree[j] = "none" <=> tree'[j] = "none"
    BY <1>1, <1>5 DEF TypeOK, aborted
  <1>7. TypeOK' BY <1>1, <1>2, <1>3, <1>4, <1>6 DEF TypeOK
  <1>8. QED BY <1>1, <1>2, <1>3, <1>6, <1>7 DEF TreesRegistered, Removal

LEMMA Next_RegistryInv ==
  ASSUME Alone, RegistryInv, [Next]_vars PROVE RegistryInv'
  <1>1. CASE UNCHANGED vars
    BY <1>1 DEF vars, git, RegistryInv, TypeOK, TreesRegistered
  <1>2. ASSUME NEW i \in Items,
               \/ launch(i) \/ workerStep(i) \/ edit(i) \/ commit(i) \/ merge(i) \/ block(i)
               \/ forge_revert(i)
        PROVE  RegistryInv'
    BY <1>2, Worker_RegistryInv
  <1>3. CASE crash BY <1>3, Crash_RegistryInv
  <1>4. CASE forge_cleanup_orphans \/ forge_resume \/ rebase_siblings
    BY <1>4, Typed_RegistryInv
  <1>5. CASE commandStep
    <2>1. TypeOK' /\ TreesRegistered' /\ Removal'
      BY <1>5, Cleanup_RegistryInv, Rebase_RegistryInv DEF commandStep
    <2>2. op.pc # "idle" /\ UNCHANGED worker
      BY <1>5 DEF commandStep, becomes, list_registered, unregister, remove_ends,
         cleanup_orphans, list_branches, delete_ends, remove, delete_branch,
         resume_ends, siblings_end, abort_rebase, reset, start_rebase, rebase, conflict,
         rebase_failed
    <2>3. \A i \in Items : worker'[i] = "off" BY <2>2 DEF RegistryInv
    <2>4. Provisioning' /\ Apart' BY <2>3 DEF Provisioning, Apart
    <2>5. QED BY <2>1, <2>4 DEF RegistryInv, Provisioning, Removal, Apart
  <1>6. CASE killed
    BY <1>6 DEF killed, becomes, git, Idle, Commands, DEFAULT_MAX_ATTEMPTS, RegistryInv,
       TypeOK, TreesRegistered
  <1>7. QED BY <1>1, <1>2, <1>3, <1>4, <1>5, <1>6 DEF Next

\* Rows and directories agree for every set of items and every interleaving of crashes:
\* the inductive invariant of the run, for operators who wait for the scheduler.
THEOREM Registry == Alone => (Spec => []RegistryInv)
  <1> SUFFICES ASSUME Alone PROVE Spec => []RegistryInv OBVIOUS
  <1>1. Init => RegistryInv BY Init_RegistryInv
  <1>2. RegistryInv /\ [Next]_vars => RegistryInv' BY Next_RegistryInv
  <1>3. QED BY <1>1, <1>2, PTL DEF Spec

THEOREM NothingUnregistered == Alone => (Spec => []TreesRegistered)
  <1>1. RegistryInv => TreesRegistered BY DEF RegistryInv
  <1>2. QED BY <1>1, Registry, PTL

\* What keeps unmerged commits: a running item is active, and what is left to delete
\* has no commit of its own, because no worker starts while the command works.
KeptInv ==
  /\ \A i \in Items : worker[i] = "run" => status[i] = "ACTIVE"
  /\ op.pc = "delete" => \A i \in op.todo : branch[i] # "ahead"

LEMMA Next_KeptInv ==
  ASSUME Alone, RegistryInv, KeptInv, [Next]_vars PROVE KeptInv'
  <1>1. CASE UNCHANGED vars BY <1>1 DEF vars, git, KeptInv
  <1>2. CASE \E i \in Items :
               \/ launch(i) \/ workerStep(i) \/ edit(i) \/ commit(i) \/ merge(i) \/ block(i)
    <2>1. PICK i \in Items :
            \/ launch(i) \/ workerStep(i) \/ edit(i) \/ commit(i) \/ merge(i) \/ block(i)
      BY <1>2
    <2>2. op.pc = "idle" /\ op' = op
      BY <2>1 DEF RegistryInv, launch, workerStep, provision, create, worktree_add, undo,
         run_bl, edit, commit, merge, block, op_unchanged
    <2>3. \A j \in Items : worker'[j] = "run" => status'[j] = "ACTIVE"
      <3> USE DEF RegistryInv, TypeOK, KeptInv
      <3>1. CASE launch(i) BY <3>1 DEF launch, now
      <3>2. CASE workerStep(i)
        BY <3>2 DEF workerStep, provision, create, worktree_add, undo, run_bl, now
      <3>3. CASE edit(i) \/ commit(i) BY <3>3 DEF edit, commit
      <3>4. CASE merge(i) \/ block(i) BY <3>4 DEF merge, block, now
      <3>5. QED BY <2>1, <3>1, <3>2, <3>3, <3>4
    <2>4. QED BY <2>2, <2>3 DEF KeptInv
  <1>3. CASE \E i \in Items : forge_revert(i)
    BY <1>3 DEF forge_revert, git, op_unchanged, KeptInv, RegistryInv, TypeOK
  <1>4. CASE crash BY <1>4 DEF crash, git, op_unchanged, KeptInv
  <1>5. CASE forge_cleanup_orphans \/ forge_resume \/ rebase_siblings
    <2>1. PICK pc \in {"list", "abort", "next"} :
            op'.pc = pc /\ UNCHANGED <<status, worker>>
      BY <1>5 DEF forge_cleanup_orphans, forge_resume, rebase_siblings, typed, Idle
    <2>2. QED BY <2>1 DEF KeptInv
  <1>6. CASE commandStep
    <2>1. UNCHANGED <<status, worker>>
      BY <1>6 DEF commandStep, becomes, list_registered, unregister, remove_ends,
         cleanup_orphans, list_branches, delete_ends, remove, delete_branch,
         resume_ends, siblings_end, abort_rebase, reset, start_rebase, rebase, conflict,
         rebase_failed
    <2>2. op \in Commands /\ branch \in [Items -> {"none", "base", "ahead"}]
      BY DEF RegistryInv, TypeOK
    <2>3. CASE list_branches
      <3>1. op' = [op EXCEPT !.pc = "delete",
                             !.todo = {i \in merged_branches :
                                         bl_id_from_feature_branch(i) \notin op.active}]
        BY <2>3 DEF list_branches, becomes
      <3>2. op'.todo \subseteq merged_branches BY <2>2, <3>1 DEF Commands
      <3>3. QED BY <2>1, <2>3, <3>2 DEF list_branches, git, merged_branches, KeptInv
    <2>4. ASSUME NEW i \in Items, delete_branch(i) PROVE KeptInv'
      <3>1. op' = done_with(i) BY <2>4 DEF delete_branch, becomes
      <3>2. op'.todo \subseteq op.todo /\ op.todo \subseteq Items
        BY <2>2, <3>1 DEF done_with, Commands
      <3>3. \A j \in Items : branch'[j] = "ahead" => branch[j] = "ahead"
        BY <2>2, <2>4 DEF delete_branch
      <3>4. op.pc = "delete" BY <2>4 DEF delete_branch
      <3>5. QED BY <2>1, <3>2, <3>3, <3>4 DEF KeptInv
    <2>5. CASE \/ list_registered \/ unregister \/ remove_ends \/ cleanup_orphans \/ delete_ends
               \/ \E i \in Items : remove(i)
      <3>1. op'.pc # "delete"
        <4>1. CASE list_registered \/ unregister \/ remove_ends \/ cleanup_orphans
          BY <2>2, <4>1 DEF list_registered, unregister, remove_ends, cleanup_orphans,
             becomes, Commands
        <4>2. CASE delete_ends BY <4>2 DEF delete_ends, becomes, Idle
        <4>3. ASSUME NEW i \in Items, remove(i) PROVE op'.pc # "delete"
          BY <2>2, <4>3 DEF remove, becomes, Commands
        <4>4. QED BY <2>5, <4>1, <4>2, <4>3
      <3>2. QED BY <2>1, <3>1 DEF KeptInv
    <2>6. CASE \/ resume_ends \/ siblings_end
               \/ \E i \in Items : \/ abort_rebase(i) \/ reset(i) \/ start_rebase(i)
                                    \/ rebase(i) \/ conflict(i) \/ rebase_failed(i)
      <3>1. op'.pc # "delete"
        <4>1. CASE resume_ends \/ siblings_end
          BY <4>1 DEF resume_ends, siblings_end, becomes, Idle
        <4>2. ASSUME NEW i \in Items,
                     \/ abort_rebase(i) \/ reset(i) \/ start_rebase(i)
                     \/ rebase(i) \/ conflict(i) \/ rebase_failed(i)
              PROVE  op'.pc # "delete"
          <5>1. CASE abort_rebase(i) \/ start_rebase(i)
            BY <2>2, <5>1 DEF abort_rebase, start_rebase, becomes, Commands
          <5>2. CASE reset(i)
            BY <2>2, <5>2, DoneFields DEF reset, becomes
          <5>3. CASE rebase(i)
            <6>1. \/ op' = [done_with(i) EXCEPT !.pc = "next"]
                  \/ op' = [op EXCEPT !.pc = "next"]
                  \/ op' = [op EXCEPT !.pc = "conflict"]
              BY <5>3 DEF rebase, becomes
            <6>2. QED BY <2>2, <6>1, DoneFields DEF Commands
          <5>4. CASE conflict(i) \/ rebase_failed(i)
            BY <2>2, <5>4, DoneFields DEF conflict, rebase_failed, becomes
          <5>5. QED BY <4>2, <5>1, <5>2, <5>3, <5>4
        <4>3. QED BY <2>6, <4>1, <4>2
      <3>2. QED BY <2>1, <3>1 DEF KeptInv
    <2>7. QED BY <1>6, <2>3, <2>4, <2>5, <2>6 DEF commandStep
  <1>7. CASE killed BY <1>7 DEF killed, becomes, Idle, KeptInv
  <1>8. QED BY <1>1, <1>2, <1>3, <1>4, <1>5, <1>6, <1>7 DEF Next

\* Of all steps, only the merge of an item takes its branch away from its commits.
LEMMA Next_WorkKept ==
  ASSUME RegistryInv, KeptInv, [Next]_vars, NEW i \in Items,
         branch[i] = "ahead", branch'[i] # "ahead"
  PROVE  status[i] = "ACTIVE" /\ status'[i] = "DONE"
  <1>0. TypeOK BY DEF RegistryInv
  <1>1. branch' # branch OBVIOUS
  <1>2. PICK j \in Items : worktree_add(j) \/ commit(j) \/ merge(j) \/ delete_branch(j)
    BY <1>1 DEF Next, vars, git, launch, workerStep, provision, create, undo, run_bl, edit,
       block, forge_revert, crash, forge_cleanup_orphans, forge_resume, rebase_siblings,
       typed, commandStep, killed, list_registered, unregister, remove_ends,
       cleanup_orphans, list_branches, delete_ends, remove, resume_ends, siblings_end,
       abort_rebase, reset, start_rebase, rebase, conflict, rebase_failed
  <1>3. ~worktree_add(j) /\ ~commit(j)
    BY <1>0 DEF TypeOK, worktree_add, commit, git
  <1>4. ~delete_branch(j)
    BY <1>0 DEF TypeOK, delete_branch, KeptInv
  <1>5. merge(j) BY <1>2, <1>3, <1>4
  <1>6. j = i BY <1>0, <1>5 DEF TypeOK, merge
  <1>7. QED BY <1>0, <1>5, <1>6 DEF TypeOK, KeptInv, merge

\* Unmerged commits survive every command, every crash and every number of items.
THEOREM Kept == Alone => (Spec => WorkKept)
  <1> SUFFICES ASSUME Alone PROVE Spec => WorkKept OBVIOUS
  <1>1. Init => RegistryInv /\ KeptInv
    BY Init_RegistryInv DEF Init, KeptInv, Idle
  <1>2. RegistryInv /\ KeptInv /\ [Next]_vars => (RegistryInv /\ KeptInv)'
    BY Next_RegistryInv, Next_KeptInv
  <1>3. RegistryInv /\ KeptInv /\ [Next]_vars =>
          [\A i \in Items : branch[i] = "ahead" /\ branch'[i] # "ahead"
             => status[i] = "ACTIVE" /\ status'[i] = "DONE"]_vars
    BY Next_WorkKept
  <1>4. QED BY <1>1, <1>2, <1>3, PTL DEF Spec, WorkKept

---------------------------------------------------------------------------
(* What the commands leave. No worker moves a directory while a command works, so  *)
(* that what it has read at its start stays true to its end.                        *)

\* forge resume: what is dealt with is clean, the rest still exists.
Resetting ==
  op.pc \in {"abort", "reset"} =>
    /\ \A i \in op.done : tree[i] = "clean"
    /\ \A i \in op.todo : tree[i] # "none"
    /\ op.pc = "reset" => \A i \in op.item : tree[i] \in {"clean", "edits"}

\* rebase_siblings: the sibling at work is still to do, and between two attempts it is
\* in no rebase.
Rebasing ==
  op.pc \in {"next", "rebase", "conflict"} =>
    /\ op.item \subseteq op.todo /\ op.todo \cap op.done = {}
    /\ \A i \in op.done : tree[i] # "rebasing" /\ (i \in behind => i \in op.failed)
    /\ op.pc = "next" => \A i \in op.item : tree[i] # "rebasing"
    /\ \A i, j \in op.item : i = j

\* forge cleanup-orphans: the items it read as active are those that are.
Sparing ==
  op.pc \in {"list", "remove", "unregister"} =>
    /\ \A i \in Items : status[i] = "ACTIVE" => i \in op.active
    /\ op.pc # "list" => op.todo \cap op.active = {}

CommandInv == Resetting /\ Rebasing /\ Sparing

LEMMA DoneWith ==
  ASSUME op \in Commands, NEW i \in Items, NEW c,
         c = done_with(i) \/ (\E pc : c = [done_with(i) EXCEPT !.pc = pc])
  PROVE  c.todo = op.todo \ {i} /\ c.item = {} /\ c.done = op.done \cup {i} /\ c.failed = op.failed
  BY DEF done_with, Commands

\* The start of a command.
LEMMA Typed_CommandInv ==
  ASSUME RegistryInv, forge_cleanup_orphans \/ forge_resume \/ rebase_siblings
  PROVE  CommandInv'
  <1>1. UNCHANGED <<status, tree, behind>>
    BY DEF forge_cleanup_orphans, forge_resume, rebase_siblings, typed, git
  <1>2. CASE forge_cleanup_orphans
    <2>1. op' = [Idle EXCEPT !.pc = "list", !.active = _active_bl_ids]
      BY <1>2 DEF forge_cleanup_orphans, typed
    <2>2. op'.pc = "list" /\ op'.active = _active_bl_ids BY <2>1 DEF Idle
    <2>3. QED
      BY <1>1, <2>2
      DEF CommandInv, Resetting, Rebasing, Sparing, _active_bl_ids, ACTIVE_BL_STATUSES
  <1>3. CASE forge_resume
    <2> DEFINE S == {i \in _active_bl_ids : _find_residual_worktree(i)}
    <2>1. op' = [Idle EXCEPT !.pc = "abort", !.todo = S] BY <1>3 DEF forge_resume, typed
    <2>2. \A i \in S : tree[i] # "none" BY DEF _find_residual_worktree
    <2> HIDE DEF S
    <2>3. op'.pc = "abort" /\ op'.todo = S /\ op'.done = {} BY <2>1 DEF Idle
    <2>4. QED BY <1>1, <2>2, <2>3 DEF CommandInv, Resetting, Rebasing, Sparing
  <1>4. CASE rebase_siblings
    <2>1. PICK i \in Items :
            op' = [Idle EXCEPT !.pc = "next",
                               !.todo = {j \in registered \ {i} : tree[j] # "none"}]
      BY <1>4 DEF rebase_siblings, typed
    <2>2. op'.pc = "next" /\ op'.item = {} /\ op'.done = {} BY <2>1 DEF Idle
    <2>3. QED BY <1>1, <2>2 DEF CommandInv, Resetting, Rebasing, Sparing
  <1>5. QED BY <1>2, <1>3, <1>4

LEMMA Cleanup_CommandInv ==
  ASSUME RegistryInv, CommandInv, NEW i,
         \/ list_registered \/ unregister \/ remove_ends \/ cleanup_orphans
         \/ list_branches \/ delete_ends
         \/ i \in Items /\ (remove(i) \/ delete_branch(i))
  PROVE  CommandInv'
  <1>0. op \in Commands BY DEF RegistryInv, TypeOK
  <1>1. op'.pc \in {"remove", "unregister", "orphans", "merged", "delete", "idle"}
        /\ (op'.pc \in {"remove", "unregister"} =>
              /\ op.pc \in {"list", "remove", "unregister"}
              /\ op'.active = op.active
              /\ op.pc # "list" => op'.todo \subseteq op.todo
              /\ op.pc = "list" => op'.todo \cap op.active = {})
    <2>1. CASE list_registered
      <3>1. op' = [op EXCEPT !.pc = "remove", !.todo = removable] /\ op.pc = "list"
        BY <2>1 DEF list_registered, becomes
      <3>2. op'.pc = "remove" /\ op'.todo = removable /\ op'.active = op.active
        BY <1>0, <3>1 DEF Commands
      <3>3. QED BY <2>1, <3>1, <3>2 DEF removable
    <2>2. CASE unregister BY <1>0, <2>2 DEF unregister, becomes, Commands
    <2>3. CASE remove_ends BY <1>0, <2>3 DEF remove_ends, becomes, Commands
    <2>4. CASE cleanup_orphans BY <1>0, <2>4 DEF cleanup_orphans, becomes, Commands
    <2>5. CASE list_branches BY <1>0, <2>5 DEF list_branches, becomes, Commands
    <2>6. CASE delete_ends BY <2>6 DEF delete_ends, becomes, Idle
    <2>7. CASE i \in Items /\ remove(i) BY <1>0, <2>7 DEF remove, becomes, Commands
    <2>8. CASE i \in Items /\ delete_branch(i)
      <3>1. op' = done_with(i) /\ op.pc = "delete" BY <2>8 DEF delete_branch, becomes
      <3>2. QED BY <1>0, <2>8, <3>1, DoneFields
    <2>9. QED BY <2>1, <2>2, <2>3, <2>4, <2>5, <2>6, <2>7, <2>8
  <1>2. status' = status
    BY DEF becomes, list_registered, unregister, remove_ends, cleanup_orphans, list_branches,
       delete_ends, remove, delete_branch
  <1>3. QED BY <1>1, <1>2 DEF CommandInv, Resetting, Rebasing, Sparing

LEMMA Resume_CommandInv ==
  ASSUME RegistryInv, CommandInv, NEW i,
         resume_ends \/ siblings_end \/ (i \in Items /\ (abort_rebase(i) \/ reset(i)))
  PROVE  CommandInv'
  <1>0. op \in Commands /\ tree \in [Items -> {"none", "clean", "edits", "rebasing"}]
    BY DEF RegistryInv, TypeOK
  <1>1. CASE resume_ends \/ siblings_end
    <2>1. op'.pc = "idle" BY <1>1 DEF resume_ends, siblings_end, becomes, Idle
    <2>2. QED BY <2>1 DEF CommandInv, Resetting, Rebasing, Sparing
  <1>2. CASE i \in Items /\ abort_rebase(i)
    <2>1. /\ op' = [op EXCEPT !.pc = "reset", !.item = {i}]
          /\ tree' = [tree EXCEPT ![i] = aborted(tree[i])]
          /\ op.pc = "abort" /\ i \in op.todo
      BY <1>2 DEF abort_rebase, becomes
    <2>2. /\ op'.pc = "reset" /\ op'.item = {i} /\ op'.todo = op.todo /\ op'.done = op.done
          /\ op.done \subseteq Items /\ op.todo \subseteq Items
      BY <1>0, <2>1 DEF Commands
    <2>3. \A j \in Items : tree'[j] = IF j = i THEN aborted(tree[i]) ELSE tree[j]
      BY <1>0, <2>1
    <2>4. /\ \A j \in op.done : tree[j] = "clean"
          /\ \A j \in op.todo : tree[j] # "none"
      BY <2>1 DEF CommandInv, Resetting
    <2>5. tree[i] # "none" /\ tree'[i] \in {"clean", "edits"} BY <1>0, <1>2, <2>1, <2>3, <2>4 DEF aborted
    <2>6. Resetting' BY <2>2, <2>3, <2>4, <2>5 DEF Resetting, aborted
    <2>7. QED BY <2>2, <2>6 DEF CommandInv, Rebasing, Sparing
  <1>3. CASE i \in Items /\ reset(i)
    <2>1. /\ op' = [done_with(i) EXCEPT !.pc = "abort"]
          /\ tree' = [tree EXCEPT ![i] = IF tree[i] = "edits" THEN "clean" ELSE tree[i]]
          /\ op.pc = "reset" /\ i \in op.item
      BY <1>3 DEF reset, becomes
    <2>2. /\ op'.pc = "abort" /\ op'.todo = op.todo \ {i} /\ op'.done = op.done \cup {i}
          /\ op.done \subseteq Items /\ op.todo \subseteq Items
      BY <1>0, <1>3, <2>1, DoneFields, DoneWith DEF Commands
    <2>3. /\ \A j \in op.done : tree[j] = "clean"
          /\ \A j \in op.todo : tree[j] # "none"
          /\ tree[i] \in {"clean", "edits"}
      BY <2>1 DEF CommandInv, Resetting
    <2>4. tree'[i] = "clean" /\ \A j \in Items : j # i => tree'[j] = tree[j]
      BY <1>0, <1>3, <2>1, <2>3
    <2>5. Resetting' BY <2>2, <2>3, <2>4 DEF Resetting
    <2>6. QED BY <2>2, <2>5 DEF CommandInv, Rebasing, Sparing
  <1>4. QED BY <1>1, <1>2, <1>3

LEMMA Siblings_CommandInv ==
  ASSUME RegistryInv, CommandInv, NEW i \in Items,
         start_rebase(i) \/ rebase(i) \/ conflict(i) \/ rebase_failed(i)
  PROVE  CommandInv'
  <1>0. op \in Commands /\ tree \in [Items -> {"none", "clean", "edits", "rebasing"}]
        /\ op.done \subseteq Items /\ op.todo \subseteq Items /\ op.item \subseteq Items
        /\ behind \subseteq Items
    BY DEF RegistryInv, TypeOK, Commands
  <1>1. op.pc \in {"next", "rebase", "conflict"}
    BY DEF start_rebase, rebase, conflict, rebase_failed
  <1>2. /\ op.item \subseteq op.todo /\ op.todo \cap op.done = {}
        /\ \A j \in op.done : tree[j] # "rebasing" /\ (j \in behind => j \in op.failed)
        /\ op.pc = "next" => \A j \in op.item : tree[j] # "rebasing"
        /\ \A j, k \in op.item : j = k
    BY <1>1 DEF CommandInv, Rebasing
  <1>3. SUFFICES op'.pc \in {"next", "rebase", "conflict"} /\ Rebasing'
    BY DEF CommandInv, Resetting, Sparing
  <1>4. CASE start_rebase(i)
    <2>1. /\ op' = [op EXCEPT !.pc = "rebase", !.item = {i}, !.tries = @ + 1]
          /\ UNCHANGED <<tree, behind>> /\ i \in op.todo
      BY <1>2, <1>4 DEF start_rebase, becomes, git
    <2>2. /\ op'.pc = "rebase" /\ op'.item = {i} /\ op'.todo = op.todo /\ op'.done = op.done
          /\ op'.failed = op.failed
      BY <1>0, <2>1 DEF Commands
    <2>3. QED BY <1>2, <2>1, <2>2 DEF Rebasing
  <1>5. CASE rebase(i)
    <2>0. op.pc = "rebase" /\ i \in op.item BY <1>5 DEF rebase
    <2>1. CASE /\ tree[i] = "clean" /\ behind' = behind \ {i} /\ UNCHANGED tree
               /\ op' = [done_with(i) EXCEPT !.pc = "next"]
      <3>1. /\ op'.pc = "next" /\ op'.todo = op.todo \ {i} /\ op'.done = op.done \cup {i}
            /\ op'.item = {} /\ op'.failed = op.failed
        BY <1>0, <2>1, DoneFields, DoneWith
      <3>2. QED BY <1>2, <2>1, <3>1 DEF Rebasing
    <2>2. CASE /\ op' = [op EXCEPT !.pc = "next"]
               /\ tree' = [tree EXCEPT ![i] = aborted(tree[i])] /\ UNCHANGED behind
      <3>1. /\ op'.pc = "next" /\ op'.todo = op.todo /\ op'.done = op.done
            /\ op'.item = op.item /\ op'.failed = op.failed
        BY <1>0, <2>2 DEF Commands
      <3>2. /\ tree'[i] # "rebasing"
            /\ \A j \in Items : tree[j] # "rebasing" => tree'[j] # "rebasing"
        BY <1>0, <2>2 DEF aborted
      <3>3. \A j \in op.item : tree'[j] # "rebasing" BY <1>2, <2>0, <3>2
      <3>4. QED BY <1>0, <1>2, <2>2, <3>1, <3>2, <3>3 DEF Rebasing
    <2>3. CASE /\ op' = [op EXCEPT !.pc = "conflict"]
               /\ tree' = [tree EXCEPT ![i] = "rebasing"] /\ UNCHANGED behind
      <3>1. /\ op'.pc = "conflict" /\ op'.todo = op.todo /\ op'.done = op.done
            /\ op'.item = op.item /\ op'.failed = op.failed
        BY <1>0, <2>3 DEF Commands
      <3>2. i \notin op.done BY <1>2, <2>0
      <3>3. \A j \in Items : j # i => tree'[j] = tree[j] BY <1>0, <2>3
      <3>4. QED BY <1>0, <1>2, <2>3, <3>1, <3>2, <3>3 DEF Rebasing
    <2>4. QED BY <1>5, <2>1, <2>2, <2>3 DEF rebase, becomes
  <1>6. CASE conflict(i) \/ rebase_failed(i)
    <2>0. op' = reported(i) /\ behind' = behind /\ i \in op.item
      BY <1>6 DEF conflict, rebase_failed, becomes, git
    <2>1. /\ op'.pc = "next" /\ op'.todo = op.todo \ {i} /\ op'.done = op.done \cup {i}
          /\ op'.item = {} /\ op'.failed = op.failed \cup {i}
      <3>1. /\ done_with(i) \in Commands /\ done_with(i).todo = op.todo \ {i}
            /\ done_with(i).done = op.done \cup {i} /\ done_with(i).item = {}
            /\ done_with(i).failed = op.failed
        BY <1>0, DoneFields, DoneWith
      <3>2. QED BY <2>0, <3>1 DEF reported, Commands
    <2>2. /\ tree'[i] # "rebasing"
          /\ \A j \in Items : tree[j] # "rebasing" => tree'[j] # "rebasing"
      BY <1>0, <1>2, <1>6, <2>0 DEF conflict, rebase_failed, aborted, git
    <2>3. QED BY <1>0, <1>2, <2>0, <2>1, <2>2 DEF Rebasing
  <1>7. QED BY <1>4, <1>5, <1>6

LEMMA Next_CommandInv ==
  ASSUME Alone, RegistryInv, CommandInv, [Next]_vars PROVE CommandInv'
  <1>1. CASE UNCHANGED vars
    BY <1>1 DEF vars, git, CommandInv, Resetting, Rebasing, Sparing
  <1>2. CASE \E i \in Items :
               \/ launch(i) \/ workerStep(i) \/ edit(i) \/ commit(i) \/ merge(i) \/ block(i)
    <2>1. op.pc = "idle" /\ op' = op
      BY <1>2 DEF RegistryInv, launch, workerStep, provision, create, worktree_add, undo,
         run_bl, edit, commit, merge, block, op_unchanged
    <2>2. QED BY <2>1 DEF CommandInv, Resetting, Rebasing, Sparing
  <1>3. CASE \E i \in Items : forge_revert(i)
    <2>1. PICK i \in Items : status' = [status EXCEPT ![i] = "TODO"] /\ UNCHANGED git /\ op' = op
      BY <1>3 DEF forge_revert, op_unchanged
    <2>2. \A j \in Items : status'[j] = "ACTIVE" => status[j] = "ACTIVE"
      BY <2>1 DEF RegistryInv, TypeOK
    <2>3. QED BY <2>1, <2>2 DEF CommandInv, Resetting, Rebasing, Sparing, git
  <1>4. CASE crash BY <1>4 DEF crash, git, op_unchanged, CommandInv, Resetting, Rebasing, Sparing
  <1>5. CASE forge_cleanup_orphans \/ forge_resume \/ rebase_siblings
    BY <1>5, Typed_CommandInv
  <1>6. CASE commandStep
    BY <1>6, Cleanup_CommandInv, Resume_CommandInv, Siblings_CommandInv DEF commandStep
  <1>7. CASE killed
    BY <1>7 DEF killed, becomes, Idle, CommandInv, Resetting, Rebasing, Sparing
  <1>8. QED BY <1>1, <1>2, <1>3, <1>4, <1>5, <1>6, <1>7 DEF Next

LEMMA Init_CommandInv == Init => CommandInv
  BY DEF Init, Idle, CommandInv, Resetting, Rebasing, Sparing

\* What resume and the rebase of siblings leave behind, for any number of worktrees and
\* wherever a command is killed: no edits, no rebase in progress, no branch behind main
\* that is not reported.
THEOREM Settled == Alone => (Spec => []TreesSettled)
  <1> SUFFICES ASSUME Alone PROVE Spec => []TreesSettled OBVIOUS
  <1>1. Init => RegistryInv /\ CommandInv BY Init_RegistryInv, Init_CommandInv
  <1>2. RegistryInv /\ CommandInv /\ [Next]_vars => (RegistryInv /\ CommandInv)'
    BY Next_RegistryInv, Next_CommandInv
  <1>3. CommandInv => TreesSettled BY DEF CommandInv, Resetting, Rebasing, TreesSettled
  <1>4. QED BY <1>1, <1>2, <1>3, PTL DEF Spec

\* Only the removal of an orphan takes a directory away.
LEMMA Next_TreeKept ==
  ASSUME RegistryInv, CommandInv, [Next]_vars, NEW i \in Items,
         status[i] = "ACTIVE", tree[i] # "none"
  PROVE  tree'[i] # "none"
  <1>0. tree \in [Items -> {"none", "clean", "edits", "rebasing"}] BY DEF RegistryInv, TypeOK
  <1>1. ASSUME NEW j \in Items, remove(j) PROVE tree'[i] # "none"
    <2>1. j # i BY <1>1 DEF remove, CommandInv, Sparing
    <2>2. QED BY <1>0, <1>1, <2>1 DEF remove
  <1>2. ASSUME NEW j \in Items,
               worktree_add(j) \/ edit(j) \/ commit(j) \/ abort_rebase(j) \/ reset(j)
                 \/ rebase(j) \/ conflict(j)
        PROVE  tree'[i] # "none"
    <2>1. \/ tree' = tree
          \/ \E x \in {"clean", "edits", "rebasing"} : tree' = [tree EXCEPT ![j] = x]
          \/ tree' = [tree EXCEPT ![j] = aborted(tree[j])]
          \/ tree' = [tree EXCEPT ![j] = IF tree[j] = "edits" THEN "clean" ELSE tree[j]]
      BY <1>2 DEF worktree_add, git, edit, commit, abort_rebase, reset, rebase, conflict
    <2>2. QED BY <1>0, <2>1 DEF aborted
  <1>3. CASE killed BY <1>0, <1>3 DEF killed
  <1>4. CASE tree' = tree BY <1>4
  <1>5. QED
    BY <1>1, <1>2, <1>3, <1>4
    DEF Next, vars, git, launch, workerStep, provision, create, undo, run_bl, merge,
        block, forge_revert, crash, forge_cleanup_orphans, forge_resume, rebase_siblings,
        typed, commandStep, list_registered, unregister, remove_ends,
        cleanup_orphans, list_branches, delete_ends, delete_branch, resume_ends, siblings_end,
        start_rebase, rebase_failed

\* The worktree of an active item is never removed, whatever commands are typed and
\* wherever the cleaner is killed.
THEOREM ActiveKept == Alone => (Spec => ActiveTreeKept)
  <1> SUFFICES ASSUME Alone PROVE Spec => ActiveTreeKept OBVIOUS
  <1>1. Init => RegistryInv /\ CommandInv BY Init_RegistryInv, Init_CommandInv
  <1>2. RegistryInv /\ CommandInv /\ [Next]_vars => (RegistryInv /\ CommandInv)'
    BY Next_RegistryInv, Next_CommandInv
  <1>3. RegistryInv /\ CommandInv /\ [Next]_vars =>
          [\A i \in Items : status[i] = "ACTIVE" /\ tree[i] # "none" => tree'[i] # "none"]_vars
    BY Next_TreeKept
  <1>4. QED BY <1>1, <1>2, <1>3, PTL DEF Spec, ActiveTreeKept
=============================================================================
