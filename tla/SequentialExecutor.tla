------------------------- MODULE SequentialExecutor --------------------------
(***************************************************************************)
(* The cycle of one backlog item: run_bl of the command line, then         *)
(* SequentialExecutor.execute (branch, DEV, gates, TESTER, push, pull      *)
(* request, REVIEWER, merge), with NO GO corrections, the iteration cap,   *)
(* the merge approval, and what an operator does around it: forge resume,  *)
(* forge approve, forge revert.                                            *)
(*                                                                         *)
(* Every durable effect (a journal append, a transition, a GitHub call) is *)
(* a step of its own, so that the process may die or raise between any     *)
(* two.  One process at a time works on the item, and forge resume is run  *)
(* when none does.                                                         *)
(***************************************************************************)
EXTENDS BlTransitions, Roles, Naturals, Sequences, FiniteSets

CONSTANTS
    MaxIterations,  \* NO GO returns allowed before escalation
    Unregistered,   \* no row in bl_status yet
    MaxRuns,        \* bound on the forge run that get started
    MaxStops,       \* bound on the exhaustion stops of the run
    MaxReverts      \* bound on the reverts of the item

ASSUME ExecutorAssumption ==
    /\ MaxIterations \in Nat \ {0}
    /\ Unregistered \notin Status

VARIABLES
    status,         \* bl_status.status of the item
    journal,        \* events of the item and stops of its run, oldest first
    world,          \* the branch, the pull request and the issues
    approval,       \* what the manifest asks for the merge of the item, then the
                    \* status of its latest pending_actions row
    proc,           \* the process at work: next step, epoch of the cycle
    code,           \* which development pass each stage has seen, and the last
                    \* pass whose commits leave the declared scope
    outcome         \* how the last process ended

vars == <<status, journal, world, approval, proc, code, outcome>>

STEP_ORDER ==
    <<"BRANCH", "DEV", "GATES", "TESTER", "PUSH", "PR_OPEN", "REVIEWER", "MERGE">>

\* Points between two durable effects where no step of STEP_ORDER begins.
InnerPoint ==
    {"idle", "claim", "dev_started", "dev_continued", "assign_roles",
     "branch_journal", "dev_journal", "dev_status", "tester_status",
     "pr_journal", "reviewer_status", "in_test", "in_review", "integrate",
     "done", "no_go", "no_go_journal", "no_go_status", "blocked_status",
     "blocked_journal", "escalated", "return"}

Point == InnerPoint \cup {STEP_ORDER[k] : k \in DOMAIN STEP_ORDER}

RUN_EVENTS == {"RUN_STOPPED", "RESUMED"}

\* An event and the detail that tells apart two events of one type: who wrote
\* it ("machine" for a transition), or whether DEV_STARTED continues a cycle.
Event ==
    [type : TransitionEvents \cup RUN_EVENTS \cup
            {"DEV_STARTED", "WORKTREE_CREATED", "GATES_COMPLETED",
             "TESTER_COMPLETED", "PR_OPENED", "REVIEWER_COMPLETED",
             "ISSUE_OPENED", "ESCALATED"},
     by : {"machine", "executor", "scheduler", "recovery", "cli", "continuation"}]

Ev(t, who) == [type |-> t, by |-> who]

Positions(log, types) == {i \in 1..Len(log) : log[i].type \in types}

Count(log, types) == Cardinality(Positions(log, types))

\* The run's last stop is more recent than its last RESUMED.
is_run_stopped_for_exhaustion ==
    \E i \in Positions(journal, {"RUN_STOPPED"}) :
        \A j \in Positions(journal, {"RESUMED"}) : j < i

\* Mutant of can_continue_after_resume: the item's own events are forgotten.
Bug_continue_again == Positions(journal, {"RESUMED"}) # {}

\* The last RESUMED is more recent than every event of the item.
can_continue_after_resume ==
    \E i \in Positions(journal, {"RESUMED"}) :
        \A j \in 1..Len(journal) : journal[j].type \in RUN_EVENTS \/ j < i

\* Event types at or after the epoch, 0 standing for no epoch.
relevant(log, epoch) == {log[i].type : i \in {k \in 1..Len(log) : k >= epoch}}

\* The event that shows each step done.
STEP_EVENTS ==
    {<<"WORKTREE_CREATED", "BRANCH">>, <<"DEV_COMPLETED", "DEV">>,
     <<"GATES_COMPLETED", "GATES">>, <<"TESTER_COMPLETED", "TESTER">>,
     <<"PR_OPENED", "PUSH">>, <<"PR_OPENED", "PR_OPEN">>,
     <<"REVIEWER_COMPLETED", "REVIEWER">>, <<"MERGED", "MERGE">>}

\* Steps shown done by the events of the epoch, or of the whole journal for
\* those that outlive a correction.
steps_shown(log, epoch, lasting) ==
    {p[2] : p \in {q \in STEP_EVENTS :
        q[1] \in relevant(log, IF q[2] \in lasting THEN 0 ELSE epoch)}}

\* Mutant of completed_steps: the push outlives a correction, as the pull
\* request does.
Bug_push_outlives(log, epoch) ==
    steps_shown(log, epoch, {"BRANCH", "PUSH", "PR_OPEN"})

\* The branch and the pull request outlive a correction, the push does not.
completed_steps(log, epoch) == steps_shown(log, epoch, {"BRANCH", "PR_OPEN"})

First(steps) ==
    IF steps = {} THEN "return"
    ELSE STEP_ORDER[CHOOSE k \in steps : \A l \in steps : k <= l]

\* Mutant of step_after: the list is scanned from its start after each step.
Bug_scan_from_start(k, log, epoch) ==
    First({l \in 1..8 : STEP_ORDER[l] \notin completed_steps(log, epoch)})

\* The loop over STEP_ORDER, past step k, skipping what is completed.
step_after(k, log, epoch) ==
    First({l \in (k + 1)..8 : STEP_ORDER[l] \notin completed_steps(log, epoch)})

\* load_run_manifest, and the level it asks for: a merge is sensitive at L0 only.
Manifest == {"absent", "invalid", "L0", "L1", "L2"}

merge_gate(manifest) ==
    CASE manifest = "invalid" -> "unreadable"
      [] manifest = "L0" -> "none"
      [] OTHER -> "not_required"

Init ==
    /\ status = Unregistered
    /\ journal = <<>>
    /\ world = [branch |-> FALSE, pr |-> "none", issues |-> 0]
    /\ approval \in {merge_gate(m) : m \in Manifest}
    /\ proc = [pc |-> "idle", epoch |-> 0]
    /\ code = [local |-> 0, pushed |-> 0, gated |-> 0, tested |-> 0,
               reviewed |-> 0, merged |-> 0, stray |-> 0]
    /\ outcome = "none"

at(point) == proc.pc = point

goto(point) == proc' = [proc EXCEPT !.pc = point]

record(t, who) == journal' = Append(journal, Ev(t, who))

\* The process ends; its epoch, held in memory, is lost.
finish(result) ==
    /\ proc' = [pc |-> "idle", epoch |-> 0]
    /\ outcome' = result

\* Past step k, completed_steps being read again from the journal.
advance(k) == goto(step_after(k, journal', proc.epoch))

\* Mutants of transition: the event is named after the target; the machine is
\* bypassed.
Bug_event_named_after_status(r, point) ==
    /\ status' = r.target
    /\ record(r.target, "machine")
    /\ goto(point)
    /\ UNCHANGED outcome

Bug_unchecked(r, point) ==
    /\ status' = r.target
    /\ record(event_type_for_transition(status, r), "machine")
    /\ goto(point)
    /\ UNCHANGED outcome

\* BlStateMachine.transition, then the given point; a refused transition raises
\* out of execute.
transition(r, point) ==
    IF can_transition(status, r)
    THEN /\ status' = r.target
         /\ record(event_type_for_transition(status, r), "machine")
         /\ goto(point)
         /\ UNCHANGED outcome
    ELSE /\ finish("error")
         /\ UNCHANGED <<status, journal>>

-----------------------------------------------------------------------------
(***************************************************************************)
(* run_bl: entry of a process.  A refused run changes nothing.             *)
(***************************************************************************)

run_bl ==
    /\ at("idle")
    /\ ~is_run_stopped_for_exhaustion
    /\ Count(journal, {"DEV_STARTED"}) < MaxRuns
    /\ LET current      == IF status = Unregistered THEN "TODO" ELSE status
           continuation == current \in INTERRUPTED_STATUSES /\ can_continue_after_resume
       IN  /\ current \in {"TODO", "READY"} \/ continuation
           /\ status' = current
           /\ goto(IF continuation THEN "dev_continued" ELSE "claim")
    /\ outcome' = "none"
    /\ UNCHANGED <<journal, world, approval, code>>

claim ==
    /\ at("claim")
    /\ transition(Plain("IN_PROGRESS"), "dev_started")
    /\ UNCHANGED <<world, approval, code>>

dev_started ==
    /\ proc.pc \in {"dev_started", "dev_continued"}
    /\ record("DEV_STARTED", IF at("dev_continued") THEN "continuation" ELSE "cli")
    /\ goto("assign_roles")
    /\ UNCHANGED <<status, world, approval, code, outcome>>

\* Roles are assigned once per item; the cycle starts without an epoch.
assign_roles ==
    /\ at("assign_roles")
    /\ IF Ev("BL_ASSIGNED", "scheduler") \in {journal[i] : i \in DOMAIN journal}
       THEN UNCHANGED journal
       ELSE record("BL_ASSIGNED", "scheduler")
    /\ advance(0)
    /\ UNCHANGED <<status, world, approval, code, outcome>>

-----------------------------------------------------------------------------
(***************************************************************************)
(* The steps of the cycle, in STEP_ORDER.                                  *)
(***************************************************************************)

\* git checkout -b refuses a branch that exists.
branch ==
    /\ at("BRANCH")
    /\ IF world.branch
       THEN finish("error") /\ UNCHANGED world
       ELSE /\ world' = [world EXCEPT !.branch = TRUE]
            /\ goto("branch_journal")
            /\ UNCHANGED outcome
    /\ UNCHANGED <<status, journal, approval, code>>

branch_journal ==
    /\ at("branch_journal")
    /\ record("WORKTREE_CREATED", "executor")
    /\ advance(1)
    /\ UNCHANGED <<status, world, approval, code, outcome>>

\* A development pass: its commits are counted from the HEAD it starts at, and
\* stay on the branch when the delivery is rejected.
dev ==
    /\ at("DEV")
    /\ \E d \in dev_results :
          /\ code' =
                IF d.commits
                THEN [code EXCEPT !.local = @ + 1,
                                  !.stray = IF d.strays THEN code.local + 1 ELSE @]
                ELSE code
          /\ IF d.accepted
             THEN goto("dev_journal") /\ UNCHANGED outcome
             ELSE finish("error")
    /\ UNCHANGED <<status, journal, world, approval>>

dev_journal ==
    /\ at("dev_journal")
    /\ record("DEV_COMPLETED", "executor")
    /\ goto("dev_status")
    /\ UNCHANGED <<status, world, approval, code, outcome>>

dev_status ==
    /\ at("dev_status")
    /\ IF status = "IN_TEST"
       THEN UNCHANGED <<status, journal, outcome>> /\ advance(2)
       ELSE transition(Plain("IN_TEST"), step_after(2, journal', proc.epoch))
    /\ UNCHANGED <<world, approval, code>>

\* The diff since the baseline is the last pass alone.
last_pass_in_scope == code.stray # code.local

\* A refusal of the gates is no NO GO of the machine: it raises ExecutionError.
gates ==
    /\ at("GATES")
    /\ \/ /\ "GO" \in gates_results[last_pass_in_scope]
          /\ code' = [code EXCEPT !.gated = code.local]
          /\ record("GATES_COMPLETED", "executor")
          /\ advance(3)
          /\ UNCHANGED outcome
       \/ /\ "NO_GO" \in gates_results[last_pass_in_scope]
          /\ finish("error")
          /\ UNCHANGED <<journal, code>>
    /\ UNCHANGED <<status, world, approval>>

\* A verdict other than GO: the correction, or ExecutionError.
refused(results) ==
    /\ \/ "NO_GO" \in results /\ goto("no_go") /\ UNCHANGED outcome
       \/ "raise" \in results /\ finish("error")
    /\ UNCHANGED <<journal, code>>

tester ==
    /\ at("TESTER")
    /\ \/ /\ "GO" \in tester_results[last_pass_in_scope]
          /\ code' = [code EXCEPT !.tested = code.local]
          /\ record("TESTER_COMPLETED", "executor")
          /\ goto("tester_status")
          /\ UNCHANGED outcome
       \/ refused(tester_results[last_pass_in_scope])
    /\ UNCHANGED <<status, world, approval>>

tester_status ==
    /\ at("tester_status")
    /\ IF status = "IN_TEST"
       THEN transition(Plain("IN_REVIEW"), step_after(4, journal', proc.epoch))
       ELSE UNCHANGED <<status, journal, outcome>> /\ advance(4)
    /\ UNCHANGED <<world, approval, code>>

push ==
    /\ at("PUSH")
    /\ code' = [code EXCEPT !.pushed = code.local]
    /\ UNCHANGED journal
    /\ advance(5)
    /\ UNCHANGED <<status, world, approval, outcome>>

\* gh refuses a second pull request for a branch that has an open one.
pr_open ==
    /\ at("PR_OPEN")
    /\ IF world.pr = "open"
       THEN finish("error") /\ UNCHANGED world
       ELSE /\ world' = [world EXCEPT !.pr = "open"]
            /\ goto("pr_journal")
            /\ UNCHANGED outcome
    /\ UNCHANGED <<status, journal, approval, code>>

pr_journal ==
    /\ at("pr_journal")
    /\ record("PR_OPENED", "executor")
    /\ advance(6)
    /\ UNCHANGED <<status, world, approval, code, outcome>>

\* The reviewer reads the pull request: what was pushed.
reviewer ==
    /\ at("REVIEWER")
    /\ \/ /\ "GO" \in reviewer_results
          /\ code' = [code EXCEPT !.reviewed = code.pushed]
          /\ record("REVIEWER_COMPLETED", "executor")
          /\ goto("reviewer_status")
          /\ UNCHANGED outcome
       \/ refused(reviewer_results)
    /\ UNCHANGED <<status, world, approval>>

reviewer_status ==
    /\ at("reviewer_status")
    /\ IF status = "IN_REVIEW"
       THEN UNCHANGED <<status, journal, outcome>> /\ advance(7)
       ELSE transition(Plain("IN_REVIEW"), step_after(7, journal', proc.epoch))
    /\ UNCHANGED <<world, approval, code>>

\* Mutant of released: a merge that is already queued passes.
Bug_queued_is_released == approval # "none"

\* The gate of the merge lets it through.
released == approval \in {"not_required", "approved"}

\* A merge held for the first time is queued; a manifest that cannot be read
\* raises before the queue is looked at.
gate_merge ==
    /\ at("MERGE")
    /\ CASE released -> goto("in_test") /\ UNCHANGED <<approval, outcome>>
         [] approval = "unreadable" -> finish("error") /\ UNCHANGED approval
         [] OTHER -> approval' = "pending" /\ finish("awaiting")
    /\ UNCHANGED <<status, journal, world, code>>

\* _ensure_pre_merge_status: the two transitions an item may have missed.
ensure_in_test ==
    /\ at("in_test")
    /\ IF status = "IN_PROGRESS"
       THEN transition(Plain("IN_TEST"), "in_review")
       ELSE goto("in_review") /\ UNCHANGED <<status, journal, outcome>>
    /\ UNCHANGED <<world, approval, code>>

ensure_in_review ==
    /\ at("in_review")
    /\ IF status = "IN_TEST"
       THEN transition(Plain("IN_REVIEW"), "integrate")
       ELSE goto("integrate") /\ UNCHANGED <<status, journal, outcome>>
    /\ UNCHANGED <<world, approval, code>>

\* Mutant of integrate: a failed merge is taken for a merge already made.
Bug_merge_failure_ignored ==
    /\ at("integrate")
    /\ goto("done")
    /\ UNCHANGED <<status, journal, world, approval, code, outcome>>

\* IntegratorRole.run: squash-merge unless already merged, delete the branch.
integrate ==
    /\ at("integrate")
    /\ world' = [world EXCEPT !.pr = "merged", !.branch = FALSE]
    /\ code' =
           IF world.pr = "merged" THEN code
           ELSE [code EXCEPT !.merged = code.pushed]
    /\ goto("done")
    /\ UNCHANGED <<status, journal, approval, outcome>>

done ==
    /\ at("done")
    /\ transition(Plain("DONE"), step_after(8, journal', proc.epoch))
    /\ UNCHANGED <<world, approval, code>>

\* No step is left: merged, as the journal or the last step says.
return ==
    /\ at("return")
    /\ finish("merged")
    /\ UNCHANGED <<status, journal, world, approval, code>>

-----------------------------------------------------------------------------
(***************************************************************************)
(* NO GO: a correction issue and a new epoch, or the escalation.           *)
(***************************************************************************)

\* Mutant of cap_reached: one return too many.
Bug_one_more_iteration == Count(journal, NO_GO_EVENT_TYPES) > MaxIterations

cap_reached == Count(journal, NO_GO_EVENT_TYPES) >= MaxIterations

\* Both branches start with an issue on GitHub.
no_go ==
    /\ at("no_go")
    /\ world' = [world EXCEPT !.issues = @ + 1]
    /\ goto(IF cap_reached THEN "blocked_status" ELSE "no_go_journal")
    /\ UNCHANGED <<status, journal, approval, code, outcome>>

\* The epoch is the position of the ISSUE_OPENED event.
no_go_journal ==
    /\ at("no_go_journal")
    /\ record("ISSUE_OPENED", "executor")
    /\ proc' = [pc |-> "no_go_status", epoch |-> Len(journal')]
    /\ UNCHANGED <<status, world, approval, code, outcome>>

no_go_status ==
    /\ at("no_go_status")
    /\ transition(NoGo, step_after(0, journal', proc.epoch))
    /\ UNCHANGED <<world, approval, code>>

blocked_status ==
    /\ at("blocked_status")
    /\ transition(Plain("BLOCKED"), "blocked_journal")
    /\ UNCHANGED <<world, approval, code>>

blocked_journal ==
    /\ at("blocked_journal")
    /\ record("ISSUE_OPENED", "executor")
    /\ goto("escalated")
    /\ UNCHANGED <<status, world, approval, code, outcome>>

escalated ==
    /\ at("escalated")
    /\ record("ESCALATED", "executor")
    /\ finish("blocked")
    /\ UNCHANGED <<status, world, approval, code>>

-----------------------------------------------------------------------------
(***************************************************************************)
(* Failures and operators.                                                 *)
(***************************************************************************)

\* The process is killed, or a role, a gate, git or gh raises, before the
\* effect of the step it is at.
crash_or_raise ==
    /\ ~at("idle")
    /\ finish("error")
    /\ UNCHANGED <<status, journal, world, approval, code>>

\* Every provider is exhausted: this process, or one running another item of
\* the run, stops the run.
stop_run_for_exhaustion ==
    /\ Count(journal, {"RUN_STOPPED"}) < MaxStops
    /\ record("RUN_STOPPED", "scheduler")
    /\ UNCHANGED <<status, world, approval, proc, code, outcome>>

\* Mutant of adopted: the journal is not looked at.
Bug_adopts_again(pr_seen) ==
    (IF world.branch THEN <<Ev("WORKTREE_CREATED", "recovery")>> ELSE <<>>) \o
    (IF world.pr = "open" /\ pr_seen THEN <<Ev("PR_OPENED", "recovery")>> ELSE <<>>)

\* recover_run: effects seen in the world and absent from the journal are
\* journaled.  The pull request probe may fail, which reads as no pull request.
adopted(pr_seen) ==
    (IF world.branch /\ Positions(journal, {"WORKTREE_CREATED"}) = {}
     THEN <<Ev("WORKTREE_CREATED", "recovery")>> ELSE <<>>) \o
    (IF world.pr = "open" /\ pr_seen /\ Positions(journal, {"PR_OPENED"}) = {}
     THEN <<Ev("PR_OPENED", "recovery")>> ELSE <<>>)

\* forge resume: recover_run, then resume_run, which lifts a stop if there is
\* one, whatever the providers' state.
forge_resume(pr_seen) ==
    /\ at("idle")
    /\ journal' =
           journal
           \o (IF status \in INTERRUPTED_STATUSES THEN adopted(pr_seen) ELSE <<>>)
           \o (IF is_run_stopped_for_exhaustion THEN <<Ev("RESUMED", "cli")>> ELSE <<>>)
    /\ outcome' = "resumed"
    /\ UNCHANGED <<status, world, approval, proc, code>>

forge_approve ==
    /\ approval = "pending"
    /\ approval' = "approved"
    /\ UNCHANGED <<status, journal, world, proc, code, outcome>>

\* forge revert of a DONE item: the reopening and a second event.
forge_revert(target) ==
    /\ at("idle")
    /\ can_transition(status, Reopen(target))
    /\ Count(journal, {"ROLLED_BACK"}) < 2 * MaxReverts
    /\ status' = target
    /\ journal' =
           journal \o <<Ev(event_type_for_transition(status, Reopen(target)), "machine"),
                        Ev("ROLLED_BACK", "cli")>>
    /\ outcome' = "none"
    /\ UNCHANGED <<world, approval, proc, code>>

-----------------------------------------------------------------------------
\* What the process does by itself, the verdicts being the roles' choice.
Step ==
    \/ claim \/ dev_started \/ assign_roles
    \/ branch \/ branch_journal
    \/ dev \/ dev_journal \/ dev_status
    \/ gates
    \/ tester \/ tester_status
    \/ push
    \/ pr_open \/ pr_journal
    \/ reviewer \/ reviewer_status
    \/ gate_merge \/ ensure_in_test \/ ensure_in_review \/ integrate \/ done
    \/ return
    \/ no_go \/ no_go_journal \/ no_go_status
    \/ blocked_status \/ blocked_journal \/ escalated

Operator ==
    \/ run_bl
    \/ \E pr_seen \in BOOLEAN : forge_resume(pr_seen)
    \/ forge_approve
    \/ \E target \in {"TODO", "BLOCKED"} : forge_revert(target)

Next == Step \/ Operator \/ crash_or_raise \/ stop_run_for_exhaustion

\* A started process keeps going: role calls have timeouts.
Spec == Init /\ [][Next]_vars /\ WF_vars(Step)

-----------------------------------------------------------------------------
(***************************************************************************)
(* Properties.                                                             *)
(***************************************************************************)

\* Every variable has its type.
TypeOK ==
    /\ status \in Status \cup {Unregistered}
    /\ journal \in Seq(Event)
    /\ world \in [branch : BOOLEAN, pr : {"none", "open", "merged"}, issues : Nat]
    /\ approval \in {"not_required", "unreadable", "none", "pending", "approved"}
    /\ proc \in [pc : Point, epoch : Nat]
    /\ code \in [{"local", "pushed", "gated", "tested", "reviewed", "merged", "stray"} -> Nat]
    /\ outcome \in {"none", "merged", "blocked", "awaiting", "error", "resumed"}

\* A finished item is a merged one, whatever crashes and restarts happened
\* between the merge and its journal event.
DoneIsMerged == status = "DONE" => world.pr = "merged"

\* NO GO returns never exceed the cap (EXG-EXE-03), across restarts too.
NoGoCapped == Count(journal, NO_GO_EVENT_TYPES) <= MaxIterations

\* Under a manifest that gates merges, nothing is merged that no human approved
\* (EXG-TRU, EXG-SAF), however often the item is run again; under one that cannot
\* be read, nothing is merged at all.
MergeNeedsApproval == world.pr = "merged" => approval \in {"not_required", "approved"}

\* A process started after a NO GO: its epoch is lost, see CorrectedBeforeMerge.
EpochLost ==
    \E i \in Positions(journal, NO_GO_EVENT_TYPES) :
        \E j \in Positions(journal, {"DEV_STARTED"}) : i < j

\* What is merged is the last development pass, and the gates, the tester and
\* the reviewer have all seen that pass, through corrections and restarts, as
\* long as no process starts after a NO GO.
MergedVerified ==
    code.merged # 0 /\ ~EpochLost =>
        /\ code.merged = code.local
        /\ code.merged = code.gated
        /\ code.merged = code.tested
        /\ code.merged = code.reviewed

\* The branch and the pull request are journaled once each, by the executor or
\* by recovery, wherever a crash falls between the effect and its event.
EffectsJournaledOnce ==
    /\ Count(journal, {"WORKTREE_CREATED"}) <= 1
    /\ Count(journal, {"PR_OPENED"}) <= 1

\* A lifted stop lets the item continue once: each continuation follows a
\* RESUMED of its own.
ContinuedOncePerResume ==
    \A i, j \in {k \in DOMAIN journal : journal[k].by = "continuation"} :
        i < j => \E k \in Positions(journal, {"RESUMED"}) : i < k /\ k < j

\* The steps of the executor are transitions of the abstract life cycle of one
\* item, its iteration number being what _current_iteration counts.
Lifecycle ==
    INSTANCE BlLifecycle WITH
        Bls <- {"bl"},
        status <- [b \in {"bl"} |-> status],
        iteration <-
            [b \in {"bl"} |->
                IF status = Unregistered THEN 0
                ELSE Count(journal, NO_GO_EVENT_TYPES) + 1]

ImplementsLifecycle == Lifecycle!Spec

\* A started process ends, corrections being capped.
RunTerminates == ~at("idle") ~> at("idle")

-----------------------------------------------------------------------------
(***************************************************************************)
(* What the documents promise and the code does not do.                    *)
(***************************************************************************)

\* After a NO GO, development is done again before the merge (EXG-EXE-02).
CorrectedBeforeMerge ==
    \A i \in Positions(journal, NO_GO_EVENT_TYPES), j \in Positions(journal, {"MERGED"}) :
        i < j => \E k \in Positions(journal, {"DEV_COMPLETED"}) :
                    i < k /\ k < j /\ journal[k].by = "executor"

\* What is merged stays within the files the item declares: the diff of the branch
\* is compared with its scope and anything else is a NO GO (EXG-SEC-02).
MergedInScope == code.merged # 0 => code.stray = 0 \/ code.stray > code.merged
=============================================================================
