----------------------- MODULE SequentialExecutorProofs -----------------------
(***************************************************************************)
(* What holds of the cycle of an item for every cap, every number of runs, *)
(* stops, reverts and crashes, and whatever the roles answer.              *)
(***************************************************************************)
EXTENDS SequentialExecutor, FiniteSetTheorems, SequenceTheorems, WellFoundedInduction, TLAPS

---------------------------------------------------------------------------
(* The loop over STEP_ORDER.                                                       *)

CycleSteps ==
  {"BRANCH", "DEV", "GATES", "TESTER", "PUSH", "PR_OPEN", "REVIEWER", "MERGE"}

LEMMA StepNames ==
  /\ DOMAIN STEP_ORDER = 1..8
  /\ \A k \in 1..8 : STEP_ORDER[k] \in CycleSteps
  /\ CycleSteps \subseteq Point
  <1>1. DOMAIN STEP_ORDER = 1..8 BY DEF STEP_ORDER
  <1>2. \A k \in 1..8 : k = 1 \/ k = 2 \/ k = 3 \/ k = 4 \/ k = 5 \/ k = 6 \/ k = 7 \/ k = 8
    OBVIOUS
  <1>3. \A k \in 1..8 : STEP_ORDER[k] \in CycleSteps
    BY <1>2 DEF STEP_ORDER, CycleSteps
  <1>4. ASSUME NEW s \in CycleSteps PROVE \E k \in 1..8 : s = STEP_ORDER[k]
    <2>1. /\ STEP_ORDER[1] = "BRANCH" /\ STEP_ORDER[2] = "DEV" /\ STEP_ORDER[3] = "GATES"
          /\ STEP_ORDER[4] = "TESTER" /\ STEP_ORDER[5] = "PUSH" /\ STEP_ORDER[6] = "PR_OPEN"
          /\ STEP_ORDER[7] = "REVIEWER" /\ STEP_ORDER[8] = "MERGE"
      BY DEF STEP_ORDER
    <2>2. /\ 1 \in 1..8 /\ 2 \in 1..8 /\ 3 \in 1..8 /\ 4 \in 1..8
          /\ 5 \in 1..8 /\ 6 \in 1..8 /\ 7 \in 1..8 /\ 8 \in 1..8
      OBVIOUS
    <2> HIDE DEF STEP_ORDER
    <2>3. QED BY <1>4, <2>1, <2>2 DEF CycleSteps
  <1>5. QED BY <1>1, <1>3, <1>4 DEF Point

\* A set of numbers that is not empty has a least one.
LEMMA Least ==
  ASSUME NEW S \in SUBSET Nat, S # {}
  PROVE  \E n \in S : \A m \in S : n <= m
  <1>1. PICK x \in S : \A y \in S : ~(<<y, x>> \in OpToRel(<, Nat))
    BY WFMin, NatLessThanWellFounded
  <1>2. \A y \in S : ~(y < x) BY <1>1 DEF OpToRel
  <1>3. QED BY <1>2

\* A nonempty part of the order has a first step.
LEMMA FirstStep ==
  ASSUME NEW steps \in SUBSET (1..8)
  PROVE  /\ steps = {} => First(steps) = "return"
         /\ steps # {} => \E k \in steps : First(steps) = STEP_ORDER[k] /\ \A l \in steps : k <= l
         /\ First(steps) \in CycleSteps \cup {"return"}
  <1>1. CASE steps = {} BY <1>1 DEF First
  <1>2. CASE steps # {}
    <2>1. \E k \in steps : \A l \in steps : k <= l BY <1>2, Least
    <2>2. QED BY <1>2, <2>1, StepNames DEF First
  <1>3. QED BY <1>1, <1>2

LEMMA NextStep ==
  ASSUME NEW k \in 0..8, NEW log, NEW epoch
  PROVE  /\ step_after(k, log, epoch) \in CycleSteps \cup {"return"}
         /\ k = 8 => step_after(k, log, epoch) = "return"
  <1> DEFINE steps == {l \in (k + 1)..8 : STEP_ORDER[l] \notin completed_steps(log, epoch)}
  <1>1. steps \in SUBSET (1..8) OBVIOUS
  <1>2. k = 8 => steps = {} OBVIOUS
  <1>3. step_after(k, log, epoch) = First(steps) BY DEF step_after
  <1> HIDE DEF steps
  <1>4. k = 8 => First(steps) = "return" BY <1>2 DEF First
  <1>5. QED BY <1>1, <1>3, <1>4, FirstStep

---------------------------------------------------------------------------
(* Types.                                                                          *)

Journal == Seq(Event)

LEMMA EventTypes ==
  /\ \A r \in TransitionRequest : \A s \in Status : event_type_for_transition(s, r) \in TransitionEvents
  /\ \A t \in TransitionEvents : Ev(t, "machine") \in Event
  /\ Ev("DEV_STARTED", "cli") \in Event /\ Ev("DEV_STARTED", "continuation") \in Event
  /\ \A who \in {"machine", "executor", "scheduler", "recovery", "cli"} :
       \A t \in {"RUN_STOPPED", "RESUMED", "WORKTREE_CREATED", "GATES_COMPLETED",
                  "TESTER_COMPLETED", "PR_OPENED", "REVIEWER_COMPLETED", "ISSUE_OPENED",
                  "ESCALATED", "BL_ASSIGNED", "DEV_COMPLETED", "ROLLED_BACK"} :
         Ev(t, who) \in Event
  <1>1. \A r \in TransitionRequest : \A s \in Status : event_type_for_transition(s, r) \in TransitionEvents
    BY DEF event_type_for_transition, TransitionEvents
  <1>2. QED BY <1>1 DEF Ev, Event, TransitionEvents, RUN_EVENTS

LEMMA Requests ==
  /\ \A s \in Status : Plain(s) \in TransitionRequest
  /\ NoGo \in TransitionRequest
  /\ \A s \in Status : Reopen(s) \in TransitionRequest
  BY DEF Plain, NoGo, Reopen, TransitionRequest, Status

Outcomes == {"none", "merged", "blocked", "awaiting", "error", "resumed"}
Processes == [pc : Point, epoch : Nat]

\* What a checked transition does, or its refusal.
LEMMA TransitionType ==
  ASSUME TypeOK, status \in Status, NEW r \in TransitionRequest, NEW point \in Point,
         transition(r, point)
  PROVE  status' \in Status /\ journal' \in Journal /\ proc' \in Processes /\ outcome' \in Outcomes
  <1>1. CASE can_transition(status, r)
    <2>1. r.target \in Status BY DEF TransitionRequest
    <2>2. Ev(event_type_for_transition(status, r), "machine") \in Event BY EventTypes
    <2>3. journal' \in Journal
      BY <1>1, <2>2, AppendProperties DEF transition, record, TypeOK, Journal
    <2>4. proc' \in Processes BY <1>1 DEF transition, goto, TypeOK, Processes
    <2>5. QED BY <1>1, <2>1, <2>3, <2>4 DEF transition, TypeOK, Outcomes
  <1>2. CASE ~can_transition(status, r)
    BY <1>2 DEF transition, finish, TypeOK, Journal, Processes, Outcomes, Point, InnerPoint
  <1>3. QED BY <1>1, <1>2

\* A process at work has an item that is registered.
Typing == TypeOK /\ (~at("idle") => status \in Status)

LEMMA TypingInit == Init => Typing
  BY DEF Init, Typing, TypeOK, Manifest, merge_gate, at, Point, InnerPoint

\* A step goes on inside the cycle, or ends the process.
LEMMA Gone ==
  ASSUME TypeOK, NEW point \in Point, goto(point) PROVE proc' \in Processes /\ proc'.pc = point
  BY DEF goto, TypeOK, Processes

LEMMA Advanced ==
  ASSUME TypeOK, NEW k \in 0..8, advance(k)
  PROVE  proc' \in Processes /\ proc'.pc \in CycleSteps \cup {"return"}
  <1>1. step_after(k, journal', proc.epoch) \in CycleSteps \cup {"return"} BY NextStep
  <1>2. step_after(k, journal', proc.epoch) \in Point
    BY <1>1, StepNames DEF Point, InnerPoint
  <1>3. proc' = [proc EXCEPT !.pc = step_after(k, journal', proc.epoch)] BY DEF advance, goto
  <1> DEFINE point == step_after(k, journal', proc.epoch)
  <1> HIDE DEF point
  <1>4. QED BY <1>1, <1>2, <1>3 DEF TypeOK, Processes

LEMMA Finished ==
  ASSUME NEW result \in Outcomes, finish(result)
  PROVE  proc' \in Processes /\ proc'.pc = "idle" /\ outcome' \in Outcomes
  BY DEF finish, Processes, Outcomes, Point, InnerPoint

LEMMA Recorded ==
  ASSUME TypeOK, NEW t, NEW who, Ev(t, who) \in Event, record(t, who) PROVE journal' \in Journal
  BY AppendProperties DEF record, TypeOK, Journal

\* The steps that end in a checked transition.
LEMMA TransitionTyping ==
  ASSUME TypeOK, status \in Status,
         \/ claim \/ dev_status \/ tester_status \/ reviewer_status \/ ensure_in_test
         \/ ensure_in_review \/ done \/ no_go_status \/ blocked_status
  PROVE  TypeOK' /\ status' \in Status
  <1>0. "IN_PROGRESS" \in Status /\ "IN_TEST" \in Status /\ "IN_REVIEW" \in Status
        /\ "BLOCKED" \in Status /\ "DONE" \in Status
    BY DEF Status
  <1>1. {"dev_started", "in_review", "integrate", "blocked_journal"} \subseteq Point
    BY DEF Point, InnerPoint
  <1>2. \A k \in 0..8 : step_after(k, journal', proc.epoch) \in Point
    BY NextStep, StepNames DEF Point, InnerPoint
  <1>3. UNCHANGED <<world, approval, code>>
    BY DEF claim, dev_status, tester_status, reviewer_status, ensure_in_test,
       ensure_in_review, done, no_go_status, blocked_status
  <1>4. status' \in Status /\ journal' \in Journal /\ proc' \in Processes /\ outcome' \in Outcomes
    <2>1. CASE \E r \in TransitionRequest : \E point \in Point : transition(r, point)
      BY <2>1, TransitionType
    <2>2. CASE UNCHANGED <<status, journal, outcome>> /\ \E k \in 0..8 : advance(k)
      BY <2>2, Advanced DEF TypeOK, Journal, Outcomes
    <2>3. CASE UNCHANGED <<status, journal, outcome>> /\ \E point \in Point : goto(point)
      BY <2>3, Gone DEF TypeOK, Journal, Outcomes
    <2>4. CASE claim BY <1>0, <1>1, <2>1, <2>4, Requests DEF claim
    <2>5. CASE dev_status BY <1>0, <1>2, <2>1, <2>2, <2>5, Requests DEF dev_status
    <2>6. CASE tester_status BY <1>0, <1>2, <2>1, <2>2, <2>6, Requests DEF tester_status
    <2>7. CASE reviewer_status BY <1>0, <1>2, <2>1, <2>2, <2>7, Requests DEF reviewer_status
    <2>8. CASE ensure_in_test BY <1>0, <1>1, <2>1, <2>3, <2>8, Requests DEF ensure_in_test
    <2>9. CASE ensure_in_review BY <1>0, <1>1, <2>1, <2>3, <2>9, Requests DEF ensure_in_review
    <2>10. CASE done BY <1>0, <1>2, <2>1, <2>10, Requests DEF done
    <2>11. CASE no_go_status BY <1>0, <1>2, <2>1, <2>11, Requests DEF no_go_status
    <2>12. CASE blocked_status BY <1>0, <1>1, <2>1, <2>12, Requests DEF blocked_status
    <2>13. QED BY <2>4, <2>5, <2>6, <2>7, <2>8, <2>9, <2>10, <2>11, <2>12
  <1>5. QED BY <1>3, <1>4 DEF TypeOK, Journal, Processes, Outcomes

\* The steps that append to the journal by themselves.
LEMMA RecordTyping ==
  ASSUME TypeOK, \/ dev_started \/ assign_roles \/ branch_journal \/ dev_journal \/ pr_journal
                 \/ no_go_journal \/ blocked_journal \/ escalated
  PROVE  TypeOK' /\ status' = status
  <1>1. {"assign_roles", "dev_status", "escalated", "no_go_status", "idle"} \subseteq Point
    BY DEF Point, InnerPoint
  <1>2. UNCHANGED <<status, world, approval, code>>
    BY DEF dev_started, assign_roles, branch_journal, dev_journal, pr_journal, no_go_journal,
       blocked_journal, escalated
  <1>3. journal' \in Journal
    <2>1. CASE dev_started BY <2>1, EventTypes, Recorded DEF dev_started
    <2>2. CASE assign_roles BY <2>2, EventTypes, Recorded DEF assign_roles, TypeOK, Journal
    <2>3. CASE branch_journal BY <2>3, EventTypes, Recorded DEF branch_journal
    <2>4. CASE dev_journal BY <2>4, EventTypes, Recorded DEF dev_journal
    <2>5. CASE pr_journal BY <2>5, EventTypes, Recorded DEF pr_journal
    <2>6. CASE no_go_journal BY <2>6, EventTypes, Recorded DEF no_go_journal
    <2>7. CASE blocked_journal BY <2>7, EventTypes, Recorded DEF blocked_journal
    <2>8. CASE escalated BY <2>8, EventTypes, Recorded DEF escalated
    <2>9. QED BY <2>1, <2>2, <2>3, <2>4, <2>5, <2>6, <2>7, <2>8
  <1>4. proc' \in Processes
    <2>1. 0 \in 0..8 /\ 1 \in 0..8 /\ 6 \in 0..8 OBVIOUS
    <2>2. CASE dev_started \/ dev_journal \/ blocked_journal
      BY <1>1, <2>2, Gone DEF dev_started, dev_journal, blocked_journal
    <2>3. CASE assign_roles \/ branch_journal \/ pr_journal
      BY <2>1, <2>3, Advanced DEF assign_roles, branch_journal, pr_journal
    <2>4. CASE no_go_journal BY <1>1, <1>3, <2>4 DEF no_go_journal, Processes, Journal
    <2>5. CASE escalated BY <1>1, <2>5 DEF escalated, finish, Processes
    <2>6. QED BY <2>2, <2>3, <2>4, <2>5
  <1>5. outcome' \in Outcomes
    BY DEF TypeOK, Outcomes, dev_started, assign_roles, branch_journal, dev_journal,
       pr_journal, no_go_journal, blocked_journal, escalated, finish
  <1>6. QED BY <1>2, <1>3, <1>4, <1>5 DEF TypeOK, Journal, Processes, Outcomes

\* A development pass, a review of it, and the effects on git and GitHub.
LEMMA CodeTyping ==
  ASSUME TypeOK, dev \/ gates \/ tester \/ reviewer \/ push
  PROVE  TypeOK' /\ status' = status
  <1>1. {"dev_journal", "no_go", "tester_status", "reviewer_status"} \subseteq Point
    BY DEF Point, InnerPoint
  <1>2. UNCHANGED <<status, world, approval>>
    BY DEF dev, gates, tester, reviewer, push
  <1>3. code' \in [{"local", "pushed", "gated", "tested", "reviewed", "merged", "stray"} -> Nat]
    <2> USE DEF TypeOK
    <2>1. CASE dev
      <3>1. \/ code' = code
            \/ code' = [code EXCEPT !.local = code.local + 1, !.stray = code.local + 1]
            \/ code' = [code EXCEPT !.local = code.local + 1, !.stray = code.stray]
        BY <2>1 DEF dev
      <3>2. code.local + 1 \in Nat /\ code.stray \in Nat OBVIOUS
      <3>3. \A x \in Nat : \A y \in Nat :
              [code EXCEPT !.local = x, !.stray = y]
                \in [{"local", "pushed", "gated", "tested", "reviewed", "merged", "stray"} -> Nat]
        OBVIOUS
      <3>4. QED BY <3>1, <3>2, <3>3
    <2>2. CASE gates BY <2>2 DEF gates
    <2>3. CASE tester BY <2>3 DEF tester, refused
    <2>4. CASE reviewer BY <2>4 DEF reviewer, refused
    <2>5. CASE push BY <2>5 DEF push
    <2>6. QED BY <2>1, <2>2, <2>3, <2>4, <2>5
  <1>4. journal' \in Journal
    <2>1. journal \in Journal BY DEF TypeOK, Journal
    <2>2. CASE dev \/ push BY <2>1, <2>2 DEF dev, push
    <2>3. CASE gates BY <2>1, <2>3, EventTypes, Recorded DEF gates
    <2>4. CASE tester BY <2>1, <2>4, EventTypes, Recorded DEF tester, refused
    <2>5. CASE reviewer BY <2>1, <2>5, EventTypes, Recorded DEF reviewer, refused
    <2>6. QED BY <2>2, <2>3, <2>4, <2>5
  <1>5. proc' \in Processes /\ outcome' \in Outcomes
    <2>1. 3 \in 0..8 /\ 5 \in 0..8 /\ "error" \in Outcomes BY DEF Outcomes
    <2>2. outcome \in Outcomes BY DEF TypeOK, Outcomes
    <2>3. CASE dev BY <1>1, <2>1, <2>2, <2>3, Gone, Finished DEF dev
    <2>4. CASE gates BY <2>1, <2>2, <2>4, Advanced, Finished DEF gates
    <2>5. CASE tester BY <1>1, <2>1, <2>2, <2>5, Gone, Finished DEF tester, refused
    <2>6. CASE reviewer BY <1>1, <2>1, <2>2, <2>6, Gone, Finished DEF reviewer, refused
    <2>7. CASE push BY <2>1, <2>2, <2>7, Advanced DEF push
    <2>8. QED BY <2>3, <2>4, <2>5, <2>6, <2>7
  <1>6. QED BY <1>2, <1>3, <1>4, <1>5 DEF TypeOK, Journal, Processes, Outcomes

LEMMA WorldTyping ==
  ASSUME TypeOK, branch \/ pr_open \/ gate_merge \/ integrate \/ return \/ no_go \/ crash_or_raise
  PROVE  TypeOK' /\ status' = status
  <1>1. {"branch_journal", "pr_journal", "in_test", "done", "blocked_status", "no_go_journal"}
          \subseteq Point
    BY DEF Point, InnerPoint
  <1>2. UNCHANGED <<status, journal>>
    BY DEF branch, pr_open, gate_merge, integrate, return, no_go, crash_or_raise
  <1>3. world' \in [branch : BOOLEAN, pr : {"none", "open", "merged"}, issues : Nat]
    <2> USE DEF TypeOK
    <2>1. CASE branch BY <2>1 DEF branch
    <2>2. CASE pr_open BY <2>2 DEF pr_open
    <2>3. CASE integrate
      <3>1. world' = [world EXCEPT !.pr = "merged", !.branch = FALSE] BY <2>3 DEF integrate
      <3>2. \A w \in [branch : BOOLEAN, pr : {"none", "open", "merged"}, issues : Nat] :
              [w EXCEPT !.pr = "merged"] \in [branch : BOOLEAN, pr : {"none", "open", "merged"}, issues : Nat]
        OBVIOUS
      <3>3. \A w \in [branch : BOOLEAN, pr : {"none", "open", "merged"}, issues : Nat] :
              [w EXCEPT !.branch = FALSE] \in [branch : BOOLEAN, pr : {"none", "open", "merged"}, issues : Nat]
        OBVIOUS
      <3>4. QED BY <3>1, <3>2, <3>3
    <2>4. CASE no_go BY <2>4 DEF no_go
    <2>5. CASE gate_merge \/ return \/ crash_or_raise BY <2>5 DEF gate_merge, return, crash_or_raise
    <2>6. QED BY <2>1, <2>2, <2>3, <2>4, <2>5
  <1>4. approval' \in {"not_required", "unreadable", "none", "pending", "approved"}
    BY DEF TypeOK, branch, pr_open, gate_merge, integrate, return, no_go, crash_or_raise
  <1>5. code' \in [{"local", "pushed", "gated", "tested", "reviewed", "merged", "stray"} -> Nat]
    BY DEF TypeOK, branch, pr_open, gate_merge, integrate, return, no_go, crash_or_raise
  <1>6. proc' \in Processes /\ outcome' \in Outcomes
    <2>1. {"error", "awaiting", "merged"} \subseteq Outcomes BY DEF Outcomes
    <2>2. outcome \in Outcomes BY DEF TypeOK, Outcomes
    <2>3. CASE branch \/ pr_open BY <1>1, <2>1, <2>2, <2>3, Gone, Finished DEF branch, pr_open
    <2>4. CASE gate_merge BY <1>1, <2>1, <2>2, <2>4, Gone, Finished DEF gate_merge
    <2>5. CASE integrate \/ no_go BY <1>1, <2>2, <2>5, Gone DEF integrate, no_go
    <2>6. CASE return \/ crash_or_raise BY <2>1, <2>6, Finished DEF return, crash_or_raise
    <2>7. QED BY <2>3, <2>4, <2>5, <2>6
  <1>7. QED BY <1>2, <1>3, <1>4, <1>5, <1>6 DEF TypeOK, Journal, Processes, Outcomes

\* Recovery journals at most two effects.
LEMMA AdoptedType ==
  ASSUME NEW pr_seen \in BOOLEAN
  PROVE  /\ adopted(pr_seen) \in Seq(Event)
         /\ \A k \in DOMAIN adopted(pr_seen) :
              adopted(pr_seen)[k].type \in {"WORKTREE_CREATED", "PR_OPENED"}
  <1>1. Ev("WORKTREE_CREATED", "recovery") \in Event /\ Ev("PR_OPENED", "recovery") \in Event
    BY EventTypes
  <1>2. PICK a \in Seq(Event), b \in Seq(Event) :
          /\ adopted(pr_seen) = a \o b
          /\ a = <<>> \/ a = <<Ev("WORKTREE_CREATED", "recovery")>>
          /\ b = <<>> \/ b = <<Ev("PR_OPENED", "recovery")>>
    <2>1. <<>> \in Seq(Event) /\ <<Ev("WORKTREE_CREATED", "recovery")>> \in Seq(Event)
          /\ <<Ev("PR_OPENED", "recovery")>> \in Seq(Event)
      BY <1>1
    <2>2. QED BY <2>1 DEF adopted
  <1>3. adopted(pr_seen) \in Seq(Event) BY <1>2, ConcatProperties
  <1>4. \A k \in 1..Len(a) : a[k].type \in {"WORKTREE_CREATED", "PR_OPENED"}
    BY <1>2 DEF Ev
  <1>5. \A k \in 1..Len(b) : b[k].type \in {"WORKTREE_CREATED", "PR_OPENED"}
    BY <1>2 DEF Ev
  <1>6. DOMAIN adopted(pr_seen) = 1..(Len(a) + Len(b)) BY <1>2, <1>3, ConcatProperties
  <1>7. ASSUME NEW k \in 1..(Len(a) + Len(b))
        PROVE  adopted(pr_seen)[k].type \in {"WORKTREE_CREATED", "PR_OPENED"}
    <2>0. Len(a) \in Nat /\ Len(b) \in Nat OBVIOUS
    <2>1. CASE k <= Len(a) BY <1>2, <1>4, <2>0, <2>1, ConcatProperties
    <2>2. CASE ~(k <= Len(a))
      <3>1. k - Len(a) \in 1..Len(b) BY <2>0, <2>2
      <3>2. adopted(pr_seen)[k] = b[k - Len(a)] BY <1>2, <2>2, ConcatProperties
      <3>3. QED BY <1>5, <3>1, <3>2
    <2>3. QED BY <2>1, <2>2
  <1>8. QED BY <1>3, <1>6, <1>7

LEMMA OperatorTyping ==
  ASSUME TypeOK, Operator \/ stop_run_for_exhaustion
  PROVE  /\ TypeOK'
         /\ status' \in Status \/ (status' = status /\ proc' = proc)
  <1>1. CASE stop_run_for_exhaustion
    <2>1. journal' \in Journal BY <1>1, EventTypes, Recorded DEF stop_run_for_exhaustion
    <2>2. QED BY <1>1, <2>1 DEF stop_run_for_exhaustion, TypeOK, Journal
  <1>2. CASE run_bl
    <2>1. {"dev_continued", "claim"} \subseteq Point BY DEF Point, InnerPoint
    <2>2. proc' \in Processes BY <1>2, <2>1, Gone DEF run_bl
    <2>3. status' \in Status BY <1>2 DEF run_bl, TypeOK, Status
    <2>4. UNCHANGED <<journal, world, approval, code>> /\ outcome' = "none" BY <1>2 DEF run_bl
    <2>5. QED BY <2>2, <2>3, <2>4 DEF TypeOK, Processes
  <1>3. ASSUME NEW pr_seen \in BOOLEAN, forge_resume(pr_seen)
        PROVE  TypeOK' /\ status' = status /\ proc' = proc
    <2> DEFINE a == IF status \in INTERRUPTED_STATUSES THEN adopted(pr_seen) ELSE <<>>
               b == IF is_run_stopped_for_exhaustion THEN <<Ev("RESUMED", "cli")>> ELSE <<>>
    <2>1. a \in Seq(Event) BY AdoptedType
    <2>2. b \in Seq(Event)
      <3>1. Ev("RESUMED", "cli") \in Event BY EventTypes
      <3>2. QED BY <3>1
    <2>3. journal' = journal \o a \o b BY <1>3 DEF forge_resume
    <2> HIDE DEF a, b
    <2>4. journal' \in Journal BY <2>1, <2>2, <2>3, ConcatProperties DEF TypeOK, Journal
    <2>5. QED BY <1>3, <2>4 DEF forge_resume, TypeOK, Journal
  <1>4. CASE forge_approve BY <1>4 DEF forge_approve, TypeOK
  <1>5. ASSUME NEW target \in {"TODO", "BLOCKED"}, forge_revert(target)
        PROVE  TypeOK' /\ status' \in Status
    <2>0. target \in Status BY DEF Status
    <2>1. status = "DONE" BY <1>5 DEF forge_revert, can_transition, Reopen
    <2>2. event_type_for_transition(status, Reopen(target)) = "ROLLED_BACK"
      BY <2>1 DEF event_type_for_transition, Reopen
    <2>3. Ev("ROLLED_BACK", "machine") \in Event /\ Ev("ROLLED_BACK", "cli") \in Event
      BY EventTypes
    <2>4. journal' = journal \o <<Ev("ROLLED_BACK", "machine"), Ev("ROLLED_BACK", "cli")>>
      BY <1>5, <2>2 DEF forge_revert
    <2>5. <<Ev("ROLLED_BACK", "machine"), Ev("ROLLED_BACK", "cli")>> \in Seq(Event) BY <2>3
    <2>6. journal' \in Journal BY <2>4, <2>5, ConcatProperties DEF TypeOK, Journal
    <2>7. QED BY <1>5, <2>0, <2>6 DEF forge_revert, TypeOK, Journal
  <1>6. QED BY <1>1, <1>2, <1>3, <1>4, <1>5 DEF Operator, stop_run_for_exhaustion, forge_approve

LEMMA TypingNext == Typing /\ [Next]_vars => Typing'
  <1> SUFFICES ASSUME Typing, [Next]_vars PROVE Typing' OBVIOUS
  <1>0. TypeOK BY DEF Typing
  <1>1. CASE UNCHANGED vars BY <1>1 DEF vars, Typing, TypeOK, at
  <1>2. CASE Step
    <2>1. ~at("idle") BY <1>2 DEF Step, at, claim, dev_started, assign_roles, branch,
       branch_journal, dev, dev_journal, dev_status, gates, tester, tester_status, push,
       pr_open, pr_journal, reviewer, reviewer_status, gate_merge, ensure_in_test,
       ensure_in_review, integrate, done, return, no_go, no_go_journal, no_go_status,
       blocked_status, blocked_journal, escalated
    <2>2. status \in Status BY <2>1 DEF Typing
    <2>3. TypeOK' /\ status' \in Status
      BY <1>0, <1>2, <2>2, TransitionTyping, RecordTyping, CodeTyping, WorldTyping DEF Step
    <2>4. QED BY <2>3 DEF Typing
  <1>3. CASE crash_or_raise
    BY <1>0, <1>3, WorldTyping DEF Typing, crash_or_raise
  <1>4. CASE Operator \/ stop_run_for_exhaustion
    BY <1>0, <1>4, OperatorTyping DEF Typing, at
  <1>5. QED BY <1>1, <1>2, <1>3, <1>4 DEF Next

\* Every variable has its type, in every run of every item.
THEOREM TypeCorrect == Spec => []TypeOK
  <1>1. Typing => TypeOK BY DEF Typing
  <1>2. QED BY <1>1, TypingInit, TypingNext, PTL DEF Spec

---------------------------------------------------------------------------
(* The control flow of a process, and what each of its steps journals.             *)

\* The steps that read the journal for the next one, with the step they are past.
Past(p, k) ==
  \/ p \in {"assign_roles", "no_go_status"} /\ k = 0
  \/ p = "branch_journal" /\ k = 1
  \/ p = "dev_status" /\ k = 2
  \/ p = "GATES" /\ k = 3
  \/ p = "tester_status" /\ k = 4
  \/ p = "PUSH" /\ k = 5
  \/ p = "pr_journal" /\ k = 6
  \/ p = "reviewer_status" /\ k = 7
  \/ p = "done" /\ k = 8

\* The other steps, with the point they lead to.
Edge(p, q) ==
  \/ p = "idle" /\ q \in {"claim", "dev_continued"}
  \/ p = "claim" /\ q = "dev_started"
  \/ p \in {"dev_started", "dev_continued"} /\ q = "assign_roles"
  \/ p = "BRANCH" /\ q = "branch_journal"
  \/ p = "DEV" /\ q = "dev_journal"
  \/ p = "dev_journal" /\ q = "dev_status"
  \/ p = "TESTER" /\ q \in {"tester_status", "no_go"}
  \/ p = "PR_OPEN" /\ q = "pr_journal"
  \/ p = "REVIEWER" /\ q \in {"reviewer_status", "no_go"}
  \/ p = "MERGE" /\ q = "in_test"
  \/ p = "in_test" /\ q = "in_review"
  \/ p = "in_review" /\ q = "integrate"
  \/ p = "integrate" /\ q = "done"
  \/ p = "no_go" /\ q \in {"no_go_journal", "blocked_status"}
  \/ p = "no_go_journal" /\ q = "no_go_status"
  \/ p = "blocked_status" /\ q = "blocked_journal"
  \/ p = "blocked_journal" /\ q = "escalated"

\* The process stays where it is, ends, takes an edge or goes to the next step.
Flow ==
  \/ proc' = proc
  \/ proc'.pc = "idle" /\ proc'.epoch = 0
  \/ Edge(proc.pc, proc'.pc) /\ (proc'.epoch = proc.epoch \/ proc.pc = "no_go_journal")
  \/ \E k \in 0..8 : /\ Past(proc.pc, k) /\ proc'.epoch = proc.epoch
                     /\ proc'.pc = step_after(k, journal', proc.epoch)

LEMMA ControlFlow == ASSUME Typing, Next PROVE Flow
  <1>0. TypeOK /\ proc \in [pc : Point, epoch : Nat] BY DEF Typing, TypeOK
  <1>1. ASSUME NEW q, Edge(proc.pc, q), goto(q) PROVE Flow
    BY <1>0, <1>1 DEF goto, Flow
  <1>2. ASSUME NEW x, finish(x) PROVE Flow BY <1>2 DEF finish, Flow
  <1>3. ASSUME NEW k \in 0..8, Past(proc.pc, k), advance(k) PROVE Flow
    <2> DEFINE q == step_after(k, journal', proc.epoch)
    <2>1. proc' = [proc EXCEPT !.pc = q] BY <1>3 DEF advance, goto
    <2>2. proc'.pc = q /\ proc'.epoch = proc.epoch
      <3> HIDE DEF q
      <3> QED BY <1>0, <2>1
    <2>3. QED BY <1>3, <2>2 DEF Flow
  <1>4. ASSUME NEW r, NEW q, Edge(proc.pc, q), transition(r, q) PROVE Flow
    BY <1>1, <1>2, <1>4 DEF transition
  <1>5. ASSUME NEW r, NEW k \in 0..8, Past(proc.pc, k),
               transition(r, step_after(k, journal', proc.epoch))
        PROVE  Flow
    BY <1>2, <1>3, <1>5 DEF transition, advance
  <1>6. /\ 0 \in 0..8 /\ 1 \in 0..8 /\ 2 \in 0..8 /\ 3 \in 0..8 /\ 4 \in 0..8
        /\ 5 \in 0..8 /\ 6 \in 0..8 /\ 7 \in 0..8 /\ 8 \in 0..8
    OBVIOUS
  <1> HIDE DEF Flow
  <1>7. CASE claim \/ blocked_status BY <1>4, <1>7 DEF claim, blocked_status, at, Edge
  <1>8. CASE dev_started \/ dev_journal \/ blocked_journal \/ integrate
    BY <1>1, <1>8 DEF dev_started, dev_journal, blocked_journal, integrate, at, Edge
  <1>9. CASE assign_roles \/ branch_journal \/ pr_journal \/ push
    BY <1>3, <1>6, <1>9 DEF assign_roles, branch_journal, pr_journal, push, at, Past
  <1>10. CASE branch \/ pr_open BY <1>1, <1>2, <1>10 DEF branch, pr_open, at, Edge
  <1>11. CASE dev BY <1>1, <1>2, <1>11 DEF dev, at, Edge
  <1>12. CASE gates BY <1>2, <1>3, <1>6, <1>12 DEF gates, at, Past
  <1>13. CASE tester BY <1>1, <1>2, <1>13 DEF tester, refused, at, Edge
  <1>14. CASE reviewer BY <1>1, <1>2, <1>14 DEF reviewer, refused, at, Edge
  <1>15. CASE dev_status BY <1>3, <1>5, <1>6, <1>15 DEF dev_status, at, Past
  <1>16. CASE tester_status BY <1>3, <1>5, <1>6, <1>16 DEF tester_status, at, Past
  <1>17. CASE reviewer_status BY <1>3, <1>5, <1>6, <1>17 DEF reviewer_status, at, Past
  <1>18. CASE no_go_status \/ done BY <1>5, <1>6, <1>18 DEF no_go_status, done, at, Past
  <1>19. CASE gate_merge BY <1>1, <1>2, <1>19 DEF gate_merge, at, Edge
  <1>20. CASE ensure_in_test BY <1>1, <1>4, <1>20 DEF ensure_in_test, at, Edge
  <1>21. CASE ensure_in_review BY <1>1, <1>4, <1>21 DEF ensure_in_review, at, Edge
  <1>22. CASE no_go BY <1>1, <1>22 DEF no_go, at, Edge
  <1>23. CASE no_go_journal BY <1>23 DEF no_go_journal, at, Edge, Flow
  <1>24. CASE escalated \/ return \/ crash_or_raise
    BY <1>2, <1>24 DEF escalated, return, crash_or_raise
  <1>25. CASE run_bl
    <2>1. goto("dev_continued") \/ goto("claim") BY <1>25 DEF run_bl
    <2>2. QED BY <1>1, <1>25, <2>1 DEF run_bl, at, Edge
  <1>26. CASE \/ forge_approve \/ stop_run_for_exhaustion
              \/ \E pr_seen \in BOOLEAN : forge_resume(pr_seen)
              \/ \E target \in {"TODO", "BLOCKED"} : forge_revert(target)
    BY <1>26 DEF forge_approve, stop_run_for_exhaustion, forge_resume, forge_revert, Flow
  <1>27. QED
    BY <1>7, <1>8, <1>9, <1>10, <1>11, <1>12, <1>13, <1>14, <1>15, <1>16, <1>17, <1>18, <1>19,
       <1>20, <1>21, <1>22, <1>23, <1>24, <1>25, <1>26 DEF Next, Step, Operator

\* The next step is not completed, and the steps passed over are.
LEMMA StepIs ==
  ASSUME NEW k \in 0..8, NEW log, NEW epoch
  PROVE  \/ /\ step_after(k, log, epoch) = "return"
            /\ \A m \in (k + 1)..8 : STEP_ORDER[m] \in completed_steps(log, epoch)
         \/ \E l \in (k + 1)..8 :
              /\ step_after(k, log, epoch) = STEP_ORDER[l]
              /\ STEP_ORDER[l] \notin completed_steps(log, epoch)
              /\ \A m \in (k + 1)..(l - 1) : STEP_ORDER[m] \in completed_steps(log, epoch)
  <1> DEFINE steps == {l \in (k + 1)..8 : STEP_ORDER[l] \notin completed_steps(log, epoch)}
  <1>1. steps \in SUBSET (1..8) OBVIOUS
  <1>2. step_after(k, log, epoch) = First(steps) BY DEF step_after
  <1>3. CASE steps = {} BY <1>1, <1>2, <1>3, FirstStep
  <1>4. CASE steps # {}
    <2>1. PICK l \in steps : First(steps) = STEP_ORDER[l] /\ \A m \in steps : l <= m
      BY <1>1, <1>4, FirstStep
    <2>2. \A m \in (k + 1)..(l - 1) : m \in (k + 1)..8 /\ ~(l <= m) OBVIOUS
    <2>3. QED BY <1>2, <2>1, <2>2
  <1>5. QED BY <1>3, <1>4

\* What completes each step.
LEMMA Completed ==
  ASSUME NEW log, NEW epoch
  PROVE  /\ "BRANCH" \in completed_steps(log, epoch) <=> "WORKTREE_CREATED" \in relevant(log, 0)
         /\ "DEV" \in completed_steps(log, epoch) <=> "DEV_COMPLETED" \in relevant(log, epoch)
         /\ "GATES" \in completed_steps(log, epoch) <=> "GATES_COMPLETED" \in relevant(log, epoch)
         /\ "TESTER" \in completed_steps(log, epoch) <=> "TESTER_COMPLETED" \in relevant(log, epoch)
         /\ "PUSH" \in completed_steps(log, epoch) <=> "PR_OPENED" \in relevant(log, epoch)
         /\ "PR_OPEN" \in completed_steps(log, epoch) <=> "PR_OPENED" \in relevant(log, 0)
         /\ "REVIEWER" \in completed_steps(log, epoch)
              <=> "REVIEWER_COMPLETED" \in relevant(log, epoch)
         /\ "MERGE" \in completed_steps(log, epoch) <=> "MERGED" \in relevant(log, epoch)
  <1> DEFINE done_by(s, t) == <<t, s>> \in STEP_EVENTS
             since(s) == IF s \in {"BRANCH", "PR_OPEN"} THEN 0 ELSE epoch
  <1>1. ASSUME NEW s
        PROVE  s \in completed_steps(log, epoch) <=>
                 \E q \in STEP_EVENTS : q[2] = s /\ q[1] \in relevant(log, since(s))
    BY DEF completed_steps, steps_shown
  <1>2. ASSUME NEW s, NEW t, <<t, s>> \in STEP_EVENTS,
               \A q \in STEP_EVENTS : q[2] = s => q[1] = t
        PROVE  s \in completed_steps(log, epoch) <=> t \in relevant(log, since(s))
    BY <1>1, <1>2
  <1> HIDE DEF since
  <1>3. /\ "BRANCH" \in completed_steps(log, epoch) <=> "WORKTREE_CREATED" \in relevant(log, since("BRANCH"))
        /\ "DEV" \in completed_steps(log, epoch) <=> "DEV_COMPLETED" \in relevant(log, since("DEV"))
        /\ "GATES" \in completed_steps(log, epoch) <=> "GATES_COMPLETED" \in relevant(log, since("GATES"))
        /\ "TESTER" \in completed_steps(log, epoch) <=> "TESTER_COMPLETED" \in relevant(log, since("TESTER"))
    BY <1>2 DEF STEP_EVENTS
  <1>4. /\ "PUSH" \in completed_steps(log, epoch) <=> "PR_OPENED" \in relevant(log, since("PUSH"))
        /\ "PR_OPEN" \in completed_steps(log, epoch) <=> "PR_OPENED" \in relevant(log, since("PR_OPEN"))
        /\ "REVIEWER" \in completed_steps(log, epoch)
             <=> "REVIEWER_COMPLETED" \in relevant(log, since("REVIEWER"))
        /\ "MERGE" \in completed_steps(log, epoch) <=> "MERGED" \in relevant(log, since("MERGE"))
    BY <1>2 DEF STEP_EVENTS
  <1>5. QED BY <1>3, <1>4 DEF since

\* An event a step of the process writes, by its type.
Written(e) ==
  /\ e.by = "continuation" => proc.pc = "dev_continued" /\ e.type = "DEV_STARTED"
  /\ e.type = "DEV_STARTED" => dev_started
  /\ e.type = "WORKTREE_CREATED" => branch_journal
  /\ e.type = "PR_OPENED" => pr_journal
  /\ e.type = "GATES_COMPLETED" => gates
  /\ e.type = "TESTER_COMPLETED" => tester
  /\ e.type = "REVIEWER_COMPLETED" => reviewer
  /\ e.type = "DEV_COMPLETED" => dev_journal \/ dev_status \/ ensure_in_test
  /\ e.type \in NO_GO_EVENT_TYPES => no_go_status
  /\ e.type = "RUN_STOPPED" => proc' = proc
  /\ e.type # "RESUMED"

LEMMA MachineEvents ==
  ASSUME status \in Status, NEW s \in Status, NEW x, transition(Plain(s), x),
         s = "IN_TEST" => dev_status \/ ensure_in_test
  PROVE  \/ journal' = journal
         \/ \E e \in Event : journal' = Append(journal, e) /\ Written(e)
  <1> DEFINE t == event_type_for_transition(status, Plain(s))
             e == Ev(t, "machine")
  <1>1. /\ Plain(s).no_go = FALSE /\ Plain(s).privileged_reopen = FALSE /\ Plain(s).target = s
    BY DEF Plain
  <1>2. /\ t \in {"BL_BLOCKED", "TEST_GO", "MERGED", "BL_ASSIGNED", "DEV_COMPLETED", "BL_STATUS_CHANGED"}
        /\ t = "DEV_COMPLETED" => s = "IN_TEST"
    BY <1>1 DEF event_type_for_transition
  <1>3. e \in Event BY EventTypes, Requests
  <1>4. journal' = journal \/ journal' = Append(journal, e) BY DEF transition, record
  <1> HIDE DEF t
  <1>5. Written(e) BY <1>2 DEF Written, Ev, NO_GO_EVENT_TYPES
  <1>6. QED BY <1>3, <1>4, <1>5

LEMMA JournalGrows ==
  ASSUME Typing, Next
  PROVE  \/ journal' = journal
         \/ \E e \in Event : journal' = Append(journal, e) /\ Written(e)
         \/ \E pr_seen \in BOOLEAN : forge_resume(pr_seen)
         \/ \E target \in {"TODO", "BLOCKED"} : forge_revert(target)
  <1> DEFINE Grows == \/ journal' = journal
                      \/ \E e \in Event : journal' = Append(journal, e) /\ Written(e)
                      \/ \E pr_seen \in BOOLEAN : forge_resume(pr_seen)
                      \/ \E target \in {"TODO", "BLOCKED"} : forge_revert(target)
  <1> SUFFICES Grows OBVIOUS
  <1>1. ASSUME NEW t, NEW who, Ev(t, who) \in Event, Written(Ev(t, who)), record(t, who) PROVE Grows
    BY <1>1 DEF record
  <1>2. ASSUME UNCHANGED journal PROVE Grows BY <1>2
  <1> HIDE DEF Grows
  <1>3. CASE dev_started
    BY <1>1, <1>3, EventTypes DEF dev_started, Written, Ev, NO_GO_EVENT_TYPES, at
  <1>4. CASE assign_roles
    BY <1>1, <1>2, <1>4, EventTypes DEF assign_roles, Written, Ev, NO_GO_EVENT_TYPES
  <1>5. CASE branch_journal \/ dev_journal \/ pr_journal
    <2>1. /\ branch_journal => Written(Ev("WORKTREE_CREATED", "executor"))
          /\ dev_journal => Written(Ev("DEV_COMPLETED", "executor"))
          /\ pr_journal => Written(Ev("PR_OPENED", "executor"))
      BY DEF Written, Ev, NO_GO_EVENT_TYPES
    <2>2. QED
      BY <1>1, <1>5, <2>1, EventTypes DEF branch_journal, dev_journal, pr_journal
  <1>6. CASE no_go_journal \/ blocked_journal \/ escalated
    BY <1>1, <1>6, EventTypes
    DEF no_go_journal, blocked_journal, escalated, Written, Ev, NO_GO_EVENT_TYPES
  <1>7. CASE stop_run_for_exhaustion
    BY <1>1, <1>7, EventTypes DEF stop_run_for_exhaustion, Written, Ev, NO_GO_EVENT_TYPES
  <1>8. CASE gates
    <2>1. Written(Ev("GATES_COMPLETED", "executor")) BY <1>8 DEF Written, Ev, NO_GO_EVENT_TYPES
    <2>2. QED BY <1>1, <1>2, <1>8, <2>1, EventTypes DEF gates
  <1>9. CASE tester
    <2>1. Written(Ev("TESTER_COMPLETED", "executor")) BY <1>9 DEF Written, Ev, NO_GO_EVENT_TYPES
    <2>2. QED BY <1>1, <1>2, <1>9, <2>1, EventTypes DEF tester, refused
  <1>10. CASE reviewer
    <2>1. Written(Ev("REVIEWER_COMPLETED", "executor")) BY <1>10 DEF Written, Ev, NO_GO_EVENT_TYPES
    <2>2. QED BY <1>1, <1>2, <1>10, <2>1, EventTypes DEF reviewer, refused
  <1>11. CASE claim \/ dev_status \/ tester_status \/ reviewer_status \/ ensure_in_test
              \/ ensure_in_review \/ done \/ blocked_status
    <2>1. ~at("idle")
      BY <1>11 DEF at, claim, dev_status, tester_status, reviewer_status, ensure_in_test,
         ensure_in_review, done, blocked_status
    <2>2. status \in Status BY <2>1 DEF Typing
    <2>3. ASSUME NEW s \in Status, NEW x, transition(Plain(s), x),
                 s = "IN_TEST" => dev_status \/ ensure_in_test
          PROVE  Grows
      BY <2>2, <2>3, MachineEvents DEF Grows
    <2>4. "IN_PROGRESS" \in Status /\ "IN_TEST" \in Status /\ "IN_REVIEW" \in Status
          /\ "BLOCKED" \in Status /\ "DONE" \in Status
      BY DEF Status
    <2>5. CASE claim \/ done \/ blocked_status BY <2>3, <2>4, <2>5 DEF claim, done, blocked_status
    <2>6. CASE dev_status
      <3>1. UNCHANGED journal \/ \E x : transition(Plain("IN_TEST"), x) BY <2>6 DEF dev_status
      <3>2. QED BY <1>2, <2>3, <2>4, <2>6, <3>1
    <2>7. CASE tester_status BY <1>2, <2>3, <2>4, <2>7 DEF tester_status
    <2>8. CASE reviewer_status BY <1>2, <2>3, <2>4, <2>8 DEF reviewer_status
    <2>9. CASE ensure_in_test
      <3>1. UNCHANGED journal \/ \E x : transition(Plain("IN_TEST"), x) BY <2>9 DEF ensure_in_test
      <3>2. QED BY <1>2, <2>3, <2>4, <2>9, <3>1
    <2>10. CASE ensure_in_review BY <1>2, <2>3, <2>4, <2>10 DEF ensure_in_review
    <2>11. QED BY <1>11, <2>5, <2>6, <2>7, <2>8, <2>9, <2>10
  <1>12. CASE no_go_status
    <2> DEFINE t == event_type_for_transition(status, NoGo)
    <2>1. /\ NoGo.target = "IN_PROGRESS" /\ NoGo.no_go = TRUE /\ NoGo.privileged_reopen = FALSE
          /\ status \in Status
      BY <1>12 DEF NoGo, Typing, no_go_status, at
    <2>2. can_transition(status, NoGo) => t \in NO_GO_EVENT_TYPES
      BY <2>1 DEF event_type_for_transition, NO_GO_SOURCES, NO_GO_EVENT_TYPES, can_transition
    <2>3. Ev(t, "machine") \in Event BY <2>1, EventTypes, Requests
    <2>4. UNCHANGED journal \/ (can_transition(status, NoGo) /\ record(t, "machine"))
      BY <1>12 DEF no_go_status, transition
    <2> HIDE DEF t
    <2>5. t \in NO_GO_EVENT_TYPES => Written(Ev(t, "machine"))
      BY <1>12 DEF Written, Ev, NO_GO_EVENT_TYPES
    <2>6. QED BY <1>1, <1>2, <2>2, <2>3, <2>4, <2>5
  <1>13. CASE branch \/ dev \/ push \/ pr_open \/ gate_merge \/ integrate \/ return \/ no_go
              \/ crash_or_raise \/ run_bl \/ forge_approve
    BY <1>2, <1>13 DEF branch, dev, push, pr_open, gate_merge, integrate, return, no_go,
       crash_or_raise, run_bl, forge_approve
  <1>14. QED
    BY <1>3, <1>4, <1>5, <1>6, <1>7, <1>8, <1>9, <1>10, <1>11, <1>12, <1>13
    DEF Next, Step, Operator, Grows

\* Events of a type that the journal does not have.
None(log, t) == Positions(log, {t}) = {}

\* forge resume appends what recovery adopts, then RESUMED.
LEMMA ResumeAppends ==
  ASSUME TypeOK, NEW pr_seen \in BOOLEAN, forge_resume(pr_seen)
  PROVE  \E l, m \in Seq(Event) :
           /\ l = journal \/ (l = Append(journal, Ev("WORKTREE_CREATED", "recovery"))
                              /\ None(journal, "WORKTREE_CREATED"))
           /\ m = l \/ (m = Append(l, Ev("PR_OPENED", "recovery"))
                        /\ None(journal, "PR_OPENED") /\ world.pr = "open")
           /\ journal' = m \/ journal' = Append(m, Ev("RESUMED", "cli"))
  <1> DEFINE x == Ev("WORKTREE_CREATED", "recovery")
             y == Ev("PR_OPENED", "recovery")
             z == Ev("RESUMED", "cli")
  <1>1. x \in Event /\ y \in Event /\ z \in Event BY EventTypes
  <1>2. <<>> \in Seq(Event) /\ <<x>> \in Seq(Event) /\ <<y>> \in Seq(Event) /\ <<z>> \in Seq(Event)
    BY <1>1
  <1>3. PICK a \in Seq(Event), b \in Seq(Event) :
          /\ (IF status \in INTERRUPTED_STATUSES THEN adopted(pr_seen) ELSE <<>>) = a \o b
          /\ a = <<>> \/ (a = <<x>> /\ None(journal, "WORKTREE_CREATED"))
          /\ b = <<>> \/ (b = <<y>> /\ None(journal, "PR_OPENED") /\ world.pr = "open")
    <2>1. CASE status \in INTERRUPTED_STATUSES BY <1>2, <2>1 DEF adopted, None
    <2>2. CASE status \notin INTERRUPTED_STATUSES
      <3>1. <<>> = <<>> \o <<>> BY <1>2, ConcatEmptySeq
      <3>2. QED BY <1>2, <2>2, <3>1
    <2>3. QED BY <2>1, <2>2
  <1>4. PICK c \in Seq(Event) : /\ c = <<>> \/ c = <<z>>
                                /\ (IF is_run_stopped_for_exhaustion THEN <<z>> ELSE <<>>) = c
    BY <1>2
  <1> HIDE DEF x, y, z
  <1>5. journal \in Seq(Event) BY DEF TypeOK
  <1>6. journal' = (journal \o (a \o b)) \o c BY <1>3, <1>4 DEF forge_resume, z
  <1> DEFINE l == journal \o a
             m == l \o b
  <1>7. l \in Seq(Event) /\ m \in Seq(Event) BY <1>5, ConcatProperties
  <1>8. m = journal \o (a \o b) BY <1>5, ConcatAssociative
  <1>9. l = journal \/ (l = Append(journal, x) /\ None(journal, "WORKTREE_CREATED"))
    <2>1. CASE a = <<>> BY <1>5, <2>1, ConcatEmptySeq
    <2>2. CASE a = <<x>> /\ None(journal, "WORKTREE_CREATED")
      BY <1>1, <1>5, <2>2, AppendIsConcat
    <2>3. QED BY <1>3, <2>1, <2>2
  <1> HIDE DEF l
  <1>10. m = l \/ (m = Append(l, y) /\ None(journal, "PR_OPENED") /\ world.pr = "open")
    <2>1. CASE b = <<>> BY <1>7, <2>1, ConcatEmptySeq
    <2>2. CASE b = <<y>> /\ None(journal, "PR_OPENED") /\ world.pr = "open"
      BY <1>1, <1>7, <2>2, AppendIsConcat
    <2>3. QED BY <1>3, <2>1, <2>2
  <1> HIDE DEF m
  <1>11. journal' = m \/ journal' = Append(m, z)
    <2>1. journal' = m \o c BY <1>6, <1>8
    <2>2. CASE c = <<>> BY <1>7, <2>1, <2>2, ConcatEmptySeq
    <2>3. CASE c = <<z>> BY <1>1, <1>7, <2>1, <2>3, AppendIsConcat
    <2>4. QED BY <1>4, <2>2, <2>3
  <1>12. QED BY <1>7, <1>9, <1>10, <1>11 DEF x, y, z

\* forge revert appends two events.
LEMMA RevertAppends ==
  ASSUME TypeOK, NEW target \in {"TODO", "BLOCKED"}, forge_revert(target)
  PROVE  \E l \in Seq(Event) :
           /\ l = Append(journal, Ev("ROLLED_BACK", "machine"))
           /\ journal' = Append(l, Ev("ROLLED_BACK", "cli"))
  <1> DEFINE x == Ev("ROLLED_BACK", "machine")
             y == Ev("ROLLED_BACK", "cli")
  <1>1. event_type_for_transition(status, Reopen(target)) = "ROLLED_BACK"
    BY DEF forge_revert, can_transition, event_type_for_transition, Reopen
  <1>2. x \in Event /\ y \in Event /\ journal \in Seq(Event) BY EventTypes DEF TypeOK
  <1>3. journal' = journal \o <<x, y>> BY <1>1 DEF forge_revert
  <1> HIDE DEF x, y
  <1>4. <<x>> \in Seq(Event) /\ <<y>> \in Seq(Event) /\ <<x, y>> = <<x>> \o <<y>>
    <2>1. <<x>> \in Seq(Event) /\ <<y>> \in Seq(Event) BY <1>2
    <2>2. <<x, y>> = Append(<<x>>, y) OBVIOUS
    <2>3. QED BY <1>2, <2>1, <2>2, AppendIsConcat
  <1>5. journal' = (journal \o <<x>>) \o <<y>> BY <1>2, <1>3, <1>4, ConcatAssociative
  <1>6. Append(journal, x) \in Seq(Event) /\ Append(journal, x) = journal \o <<x>>
    BY <1>2, AppendProperties, AppendIsConcat
  <1>7. journal' = Append(Append(journal, x), y) BY <1>2, <1>5, <1>6, AppendIsConcat
  <1>8. QED BY <1>6, <1>7 DEF x, y

---------------------------------------------------------------------------
(* The merge. Past its gate a process is released to the end, approvals are never   *)
(* taken back, and only a process that has merged moves the item to DONE.          *)

AfterGate == {"in_test", "in_review", "integrate", "done"}

MergeInv ==
  /\ status = "DONE" => world.pr = "merged" /\ proc.pc \in {"idle", "return"}
  /\ proc.pc = "done" => world.pr = "merged"
  /\ world.pr = "merged" => released
  /\ proc.pc \in AfterGate => released

LEMMA MergeInit == Init => MergeInv
  BY ExecutorAssumption DEF Init, MergeInv, AfterGate, Status

\* A transition that is made, or the end of the process.
LEMMA Transitioned ==
  ASSUME TypeOK, NEW r, NEW point \in Point, transition(r, point)
  PROVE  \/ status' = r.target /\ proc'.pc = point /\ can_transition(status, r)
         \/ status' = status /\ journal' = journal /\ proc'.pc = "idle"
  <1>1. CASE can_transition(status, r)
    <2>1. goto(point) /\ status' = r.target BY <1>1 DEF transition
    <2>2. proc'.pc = point BY <2>1, Gone
    <2>3. QED BY <1>1, <2>1, <2>2
  <1>2. CASE ~can_transition(status, r)
    <2>1. finish("error") /\ UNCHANGED <<status, journal>> BY <1>2 DEF transition
    <2>2. QED BY <2>1 DEF finish
  <1>3. QED BY <1>1, <1>2

\* The steps before the gate: no merge, and none of them leads past it.
BeforeGate ==
  \/ claim \/ dev_started \/ assign_roles \/ branch \/ branch_journal \/ dev \/ dev_journal
  \/ dev_status \/ gates \/ tester \/ tester_status \/ push \/ pr_open \/ pr_journal
  \/ reviewer \/ reviewer_status \/ no_go \/ no_go_journal \/ no_go_status
  \/ blocked_status \/ blocked_journal \/ escalated

LEMMA BeforeGatePoint ==
  ASSUME Typing, BeforeGate PROVE proc'.pc \notin AfterGate
  <1>1. proc.pc \notin AfterGate \cup {"MERGE"}
    BY DEF BeforeGate, at, AfterGate, claim, dev_started, assign_roles, branch, branch_journal,
       dev, dev_journal, dev_status, gates, tester, tester_status, push, pr_open, pr_journal,
       reviewer, reviewer_status, no_go, no_go_journal, no_go_status, blocked_status,
       blocked_journal, escalated
  <1>2. Flow BY ControlFlow DEF BeforeGate, Next, Step
  <1>3. \A k \in 0..8 : step_after(k, journal', proc.epoch) \notin AfterGate
    BY NextStep DEF CycleSteps, AfterGate
  <1>4. \A q : Edge(proc.pc, q) => q \notin AfterGate BY <1>1 DEF Edge, AfterGate
  <1>5. QED BY <1>1, <1>2, <1>3, <1>4 DEF Flow, AfterGate

\* What these steps do to the item and to its pull request.
LEMMA BeforeGateEffect ==
  ASSUME Typing, BeforeGate
  PROVE  /\ UNCHANGED approval
         /\ world'.pr = "merged" => world.pr = "merged"
         /\ status' = "DONE" => status = "DONE"
         /\ proc.pc \notin {"idle", "return"}
  <1>0. TypeOK BY DEF Typing
  <1>1. UNCHANGED approval
    BY DEF BeforeGate, claim, dev_started, assign_roles, branch, branch_journal, dev,
       dev_journal, dev_status, gates, tester, tester_status, push, pr_open, pr_journal,
       reviewer, reviewer_status, no_go, no_go_journal, no_go_status, blocked_status,
       blocked_journal, escalated
  <1>2. proc.pc \notin {"idle", "return"}
    BY DEF BeforeGate, at, claim, dev_started, assign_roles, branch, branch_journal, dev,
       dev_journal, dev_status, gates, tester, tester_status, push, pr_open, pr_journal,
       reviewer, reviewer_status, no_go, no_go_journal, no_go_status, blocked_status,
       blocked_journal, escalated
  <1>3. world'.pr = "merged" => world.pr = "merged"
    <2>1. CASE branch BY <1>0, <2>1 DEF branch, TypeOK
    <2>2. CASE pr_open BY <1>0, <2>2 DEF pr_open, TypeOK
    <2>3. CASE no_go BY <1>0, <2>3 DEF no_go, TypeOK
    <2>4. CASE BeforeGate /\ ~branch /\ ~pr_open /\ ~no_go
      BY <2>4 DEF BeforeGate, claim, dev_started, assign_roles, branch_journal, dev,
         dev_journal, dev_status, gates, tester, tester_status, push, pr_journal,
         reviewer, reviewer_status, no_go_journal, no_go_status, blocked_status,
         blocked_journal, escalated
    <2>5. QED BY <2>1, <2>2, <2>3, <2>4
  <1>4. status' = "DONE" => status = "DONE"
    <2>1. ASSUME NEW r, NEW x, transition(r, x), r.target # "DONE" PROVE status' = "DONE" => status = "DONE"
      BY <2>1 DEF transition
    <2>2. /\ Plain("IN_PROGRESS").target # "DONE" /\ Plain("IN_TEST").target # "DONE"
          /\ Plain("IN_REVIEW").target # "DONE" /\ Plain("BLOCKED").target # "DONE"
          /\ NoGo.target # "DONE"
      BY DEF Plain, NoGo
    <2>3. CASE claim \/ dev_status \/ tester_status \/ reviewer_status \/ no_go_status \/ blocked_status
      BY <2>1, <2>2, <2>3 DEF claim, dev_status, tester_status, reviewer_status, no_go_status,
         blocked_status
    <2>4. CASE BeforeGate /\ ~(claim \/ dev_status \/ tester_status \/ reviewer_status
                                \/ no_go_status \/ blocked_status)
      BY <2>4 DEF BeforeGate, dev_started, assign_roles, branch, branch_journal, dev,
         dev_journal, gates, tester, push, pr_open, pr_journal, reviewer, no_go,
         no_go_journal, blocked_journal, escalated
    <2>5. QED BY <2>3, <2>4
  <1>5. QED BY <1>1, <1>2, <1>3, <1>4

LEMMA MergeNext == Typing /\ MergeInv /\ [Next]_vars => MergeInv'
  <1> SUFFICES ASSUME Typing, MergeInv, [Next]_vars PROVE MergeInv' OBVIOUS
  <1>0. TypeOK BY DEF Typing
  <1>1. CASE UNCHANGED vars BY <1>1 DEF vars, MergeInv, released
  <1>2. CASE BeforeGate
    <2>1. proc'.pc \notin AfterGate BY <1>2, BeforeGatePoint
    <2>2. "done" \in AfterGate BY DEF AfterGate
    <2>3. QED BY <1>2, <2>1, <2>2, BeforeGateEffect DEF MergeInv, released
  <1>3. CASE gate_merge
    <2>1. proc.pc = "MERGE" /\ UNCHANGED <<status, world>> BY <1>3 DEF gate_merge, at
    <2>2. status # "DONE" BY <2>1 DEF MergeInv
    <2>3. "in_test" \in Point /\ "in_test" \in AfterGate /\ "idle" \notin AfterGate
          /\ "done" \in AfterGate
      BY DEF Point, InnerPoint, AfterGate
    <2>4. CASE released
      <3>1. goto("in_test") /\ UNCHANGED approval BY <1>3, <2>4 DEF gate_merge, released
      <3>2. proc'.pc = "in_test" BY <1>0, <2>3, <3>1, Gone
      <3>3. QED BY <2>1, <2>2, <2>4, <3>1, <3>2 DEF MergeInv, released
    <2>5. CASE ~released
      <3>1. proc'.pc = "idle" BY <1>3, <2>5 DEF gate_merge, finish
      <3>2. world.pr # "merged" BY <2>5 DEF MergeInv
      <3>3. QED BY <2>1, <2>2, <2>3, <3>1, <3>2 DEF MergeInv
    <2>6. QED BY <2>4, <2>5
  <1>4. CASE ensure_in_test \/ ensure_in_review
    <2>1. /\ UNCHANGED <<world, approval>> /\ proc.pc \in {"in_test", "in_review"}
      BY <1>4 DEF ensure_in_test, ensure_in_review, at
    <2>2. released /\ status # "DONE" BY <2>1 DEF MergeInv, AfterGate
    <2>3. {"in_review", "integrate"} \subseteq Point BY DEF Point, InnerPoint
    <2>4. status' # "DONE" /\ proc'.pc # "done"
      <3>1. \/ \E s \in {"IN_TEST", "IN_REVIEW"} : \E x \in {"in_review", "integrate"} : transition(Plain(s), x)
            \/ \E x \in {"in_review", "integrate"} : goto(x) /\ UNCHANGED status
        BY <1>4 DEF ensure_in_test, ensure_in_review
      <3>2. ASSUME NEW s \in {"IN_TEST", "IN_REVIEW"}, NEW x \in {"in_review", "integrate"},
                   transition(Plain(s), x)
            PROVE  status' # "DONE" /\ proc'.pc # "done"
        <4>1. Plain(s).target # "DONE" BY DEF Plain
        <4>2. QED BY <1>0, <2>2, <2>3, <3>2, <4>1, Transitioned
      <3>3. ASSUME NEW x \in {"in_review", "integrate"}, goto(x) PROVE proc'.pc # "done"
        BY <1>0, <2>3, <3>3, Gone
      <3>4. QED BY <2>2, <3>1, <3>2, <3>3
    <2>5. QED BY <2>1, <2>2, <2>4 DEF MergeInv, released
  <1>5. CASE integrate
    <2>1. proc.pc = "integrate" /\ UNCHANGED <<status, approval>> BY <1>5 DEF integrate, at
    <2>2. released BY <2>1 DEF MergeInv, AfterGate
    <2>3. status # "DONE" BY <2>1 DEF MergeInv
    <2>4. world'.pr = "merged"
      <3>1. world' = [world EXCEPT !.pr = "merged", !.branch = FALSE] BY <1>5 DEF integrate
      <3>2. world \in [branch : BOOLEAN, pr : {"none", "open", "merged"}, issues : Nat]
        BY <1>0 DEF TypeOK
      <3>3. QED BY <3>1, <3>2
    <2>5. QED BY <2>1, <2>2, <2>3, <2>4 DEF MergeInv, released
  <1>6. CASE done
    <2>1. proc.pc = "done" /\ UNCHANGED <<world, approval>> BY <1>6 DEF done, at
    <2>2. world.pr = "merged" /\ released BY <2>1 DEF MergeInv, AfterGate
    <2>3. step_after(8, journal', proc.epoch) = "return" BY NextStep
    <2>4. proc'.pc \in {"return", "idle"}
      <3>1. "return" \in Point BY DEF Point, InnerPoint
      <3>2. transition(Plain("DONE"), step_after(8, journal', proc.epoch)) BY <1>6 DEF done
      <3>3. step_after(8, journal', proc.epoch) \in Point BY <2>3, <3>1
      <3>4. QED BY <1>0, <2>3, <3>2, <3>3, Transitioned
    <2>5. QED BY <2>1, <2>2, <2>4 DEF MergeInv, released
  <1>7. CASE return \/ crash_or_raise
    <2>1. proc'.pc = "idle" /\ UNCHANGED <<status, world, approval>>
      BY <1>7 DEF return, crash_or_raise, finish
    <2>2. QED BY <2>1 DEF MergeInv, AfterGate, released
  <1>8. CASE run_bl
    <2>1. /\ UNCHANGED <<world, approval>>
          /\ goto("dev_continued") \/ goto("claim")
          /\ status' # "DONE"
      BY <1>8 DEF run_bl, INTERRUPTED_STATUSES
    <2>2. {"dev_continued", "claim"} \subseteq Point BY DEF Point, InnerPoint
    <2>3. proc'.pc \in {"dev_continued", "claim"} BY <1>0, <2>1, <2>2, Gone
    <2>4. QED BY <2>1, <2>3 DEF MergeInv, AfterGate, released
  <1>9. CASE forge_approve BY <1>9 DEF forge_approve, MergeInv, released
  <1>10. CASE stop_run_for_exhaustion \/ \E pr_seen \in BOOLEAN : forge_resume(pr_seen)
    BY <1>10 DEF stop_run_for_exhaustion, forge_resume, MergeInv, released
  <1>11. CASE \E target \in {"TODO", "BLOCKED"} : forge_revert(target)
    BY <1>11 DEF forge_revert, MergeInv, released
  <1>12. QED
    BY <1>1, <1>2, <1>3, <1>4, <1>5, <1>6, <1>7, <1>8, <1>9, <1>10, <1>11
    DEF Next, Step, Operator, BeforeGate

\* Nothing is merged that the manifest gates and no human approved, or under a manifest
\* that cannot be read, however often the item is run, stopped, resumed and reverted.
THEOREM MergesApproved == Spec => []MergeNeedsApproval
  <1>1. MergeInv => MergeNeedsApproval BY DEF MergeInv, MergeNeedsApproval, released
  <1>2. QED BY <1>1, TypingInit, TypingNext, MergeInit, MergeNext, PTL DEF Spec

\* A finished item is a merged one, wherever crashes fall.
THEOREM FinishedMerged == Spec => []DoneIsMerged
  <1>1. MergeInv => DoneIsMerged BY DEF MergeInv, DoneIsMerged
  <1>2. QED BY <1>1, TypingInit, TypingNext, MergeInit, MergeNext, PTL DEF Spec

---------------------------------------------------------------------------
(* The cap. Between the test of the cap and the NO GO transition it allows, no other *)
(* event of the item is a NO GO.                                                   *)

Returning == {"no_go_journal", "no_go_status"}

CapInv ==
  /\ Count(journal, NO_GO_EVENT_TYPES) <= MaxIterations
  /\ proc.pc \in Returning => Count(journal, NO_GO_EVENT_TYPES) < MaxIterations

LEMMA CountType ==
  ASSUME NEW log \in Seq(Event), NEW types
  PROVE  Count(log, types) \in Nat /\ IsFiniteSet(Positions(log, types))
  <1>1. IsFiniteSet(1..Len(log)) BY FS_Interval
  <1>2. Positions(log, types) \subseteq 1..Len(log) BY DEF Positions
  <1>3. IsFiniteSet(Positions(log, types)) BY <1>1, <1>2, FS_Subset
  <1>4. QED BY <1>3, FS_CardinalityType DEF Count

LEMMA CountAppend ==
  ASSUME NEW log \in Seq(Event), NEW e \in Event, NEW types
  PROVE  /\ e.type \in types => Count(Append(log, e), types) = Count(log, types) + 1
         /\ e.type \notin types => Count(Append(log, e), types) = Count(log, types)
  <1> DEFINE n == Len(log)
             new == Append(log, e)
  <1>1. /\ n \in Nat /\ Len(new) = n + 1 /\ new[n + 1] = e
        /\ \A i \in 1..n : new[i] = log[i]
    BY AppendProperties
  <1> HIDE DEF new
  <1>2. Positions(log, types) \subseteq 1..n BY DEF Positions
  <1>3. n + 1 \notin Positions(log, types) BY <1>1 DEF Positions
  <1>4. \A i \in 1..(n + 1) : i \in 1..n \/ i = n + 1 BY <1>1
  <1>5. CASE e.type \in types
    <2>1. Positions(new, types) = Positions(log, types) \cup {n + 1}
      BY <1>1, <1>4, <1>5 DEF Positions
    <2>2. Cardinality(Positions(log, types) \cup {n + 1}) = Cardinality(Positions(log, types)) + 1
      BY <1>3, CountType, FS_AddElement
    <2>3. QED BY <1>5, <2>1, <2>2 DEF Count, new
  <1>6. CASE e.type \notin types
    <2>1. Positions(new, types) = Positions(log, types)
      BY <1>1, <1>4, <1>6 DEF Positions
    <2>2. QED BY <1>6, <2>1 DEF Count, new
  <1>7. QED BY <1>5, <1>6

LEMMA CountConcat ==
  ASSUME NEW log \in Seq(Event), NEW s \in Seq(Event), NEW types,
         \A k \in 1..Len(s) : s[k].type \notin types
  PROVE  Count(log \o s, types) = Count(log, types)
  <1> DEFINE n == Len(log)
             m == Len(s)
             new == log \o s
  <1>1. /\ n \in Nat /\ m \in Nat /\ Len(new) = n + m
        /\ \A i \in 1..(n + m) : new[i] = IF i <= n THEN log[i] ELSE s[i - n]
    BY ConcatProperties
  <1> HIDE DEF new
  <1>2. ASSUME NEW i \in 1..(n + m), i \notin 1..n PROVE new[i].type \notin types
    <2>1. i - n \in 1..m /\ new[i] = s[i - n] BY <1>1, <1>2
    <2>2. QED BY <2>1
  <1>3. \A i \in 1..n : i \in 1..(n + m) /\ new[i] = log[i] BY <1>1
  <1>4. Positions(new, types) = Positions(log, types)
    BY <1>1, <1>2, <1>3 DEF Positions
  <1>5. QED BY <1>4 DEF Count, new

\* An event that is no NO GO leaves the count as it is.
LEMMA CountRecorded ==
  ASSUME TypeOK, NEW t, NEW who, Ev(t, who) \in Event, t \notin NO_GO_EVENT_TYPES, record(t, who)
  PROVE  Count(journal', NO_GO_EVENT_TYPES) = Count(journal, NO_GO_EVENT_TYPES)
  <1>1. Ev(t, who).type = t BY DEF Ev
  <1>2. QED BY <1>1, CountAppend DEF record, TypeOK

LEMMA CountPlain ==
  ASSUME TypeOK, status \in Status, NEW s \in Status, NEW x, transition(Plain(s), x)
  PROVE  Count(journal', NO_GO_EVENT_TYPES) = Count(journal, NO_GO_EVENT_TYPES)
  <1> DEFINE t == event_type_for_transition(status, Plain(s))
  <1>1. Plain(s).no_go = FALSE /\ Plain(s).privileged_reopen = FALSE BY DEF Plain
  <1>2. t \notin NO_GO_EVENT_TYPES
    BY <1>1 DEF event_type_for_transition, NO_GO_EVENT_TYPES
  <1>3. Ev(t, "machine") \in Event BY EventTypes, Requests
  <1> HIDE DEF t
  <1>4. CASE can_transition(status, Plain(s))
    <2>1. record(t, "machine") BY <1>4 DEF transition, t
    <2>2. QED BY <1>2, <1>3, <2>1, CountRecorded
  <1>5. CASE ~can_transition(status, Plain(s)) BY <1>5 DEF transition
  <1>6. QED BY <1>4, <1>5

LEMMA CountSame ==
  ASSUME Typing, Next, ~no_go_status
  PROVE  Count(journal', NO_GO_EVENT_TYPES) = Count(journal, NO_GO_EVENT_TYPES)
  <1> DEFINE Same == Count(journal', NO_GO_EVENT_TYPES) = Count(journal, NO_GO_EVENT_TYPES)
  <1>0. TypeOK BY DEF Typing
  <1>1. ASSUME UNCHANGED journal PROVE Same BY <1>1
  <1>2. ASSUME NEW t, NEW who, Ev(t, who) \in Event, t \notin NO_GO_EVENT_TYPES, record(t, who)
        PROVE  Same
    BY <1>0, <1>2, CountRecorded
  <1>3. CASE dev_started
    BY <1>2, <1>3, EventTypes DEF dev_started, NO_GO_EVENT_TYPES
  <1>4. CASE assign_roles \/ branch_journal \/ dev_journal \/ pr_journal
    BY <1>1, <1>2, <1>4, EventTypes
    DEF assign_roles, branch_journal, dev_journal, pr_journal, NO_GO_EVENT_TYPES
  <1>5. CASE no_go_journal \/ blocked_journal \/ escalated \/ stop_run_for_exhaustion
    BY <1>2, <1>5, EventTypes
    DEF no_go_journal, blocked_journal, escalated, stop_run_for_exhaustion, NO_GO_EVENT_TYPES
  <1>6. CASE gates BY <1>1, <1>2, <1>6, EventTypes DEF gates, NO_GO_EVENT_TYPES
  <1>7. CASE tester BY <1>1, <1>2, <1>7, EventTypes DEF tester, refused, NO_GO_EVENT_TYPES
  <1>8. CASE reviewer BY <1>1, <1>2, <1>8, EventTypes DEF reviewer, refused, NO_GO_EVENT_TYPES
  <1>9. CASE claim \/ dev_status \/ tester_status \/ reviewer_status \/ ensure_in_test
             \/ ensure_in_review \/ done \/ blocked_status
    <2>1. ~at("idle")
      BY <1>9 DEF at, claim, dev_status, tester_status, reviewer_status, ensure_in_test,
         ensure_in_review, done, blocked_status
    <2>2. status \in Status BY <2>1 DEF Typing
    <2>3. ASSUME NEW s \in Status, NEW x, transition(Plain(s), x) PROVE Same
      BY <1>0, <2>2, <2>3, CountPlain
    <2>4. "IN_PROGRESS" \in Status /\ "IN_TEST" \in Status /\ "IN_REVIEW" \in Status
          /\ "BLOCKED" \in Status /\ "DONE" \in Status
      BY DEF Status
    <2>5. CASE claim \/ done \/ blocked_status BY <2>3, <2>4, <2>5 DEF claim, done, blocked_status
    <2>6. CASE dev_status BY <1>1, <2>3, <2>4, <2>6 DEF dev_status
    <2>7. CASE tester_status BY <1>1, <2>3, <2>4, <2>7 DEF tester_status
    <2>8. CASE reviewer_status BY <1>1, <2>3, <2>4, <2>8 DEF reviewer_status
    <2>9. CASE ensure_in_test BY <1>1, <2>3, <2>4, <2>9 DEF ensure_in_test
    <2>10. CASE ensure_in_review BY <1>1, <2>3, <2>4, <2>10 DEF ensure_in_review
    <2>11. QED BY <1>9, <2>5, <2>6, <2>7, <2>8, <2>9, <2>10
  <1>10. ASSUME NEW pr_seen \in BOOLEAN, forge_resume(pr_seen) PROVE Same
    <2> DEFINE a == IF status \in INTERRUPTED_STATUSES THEN adopted(pr_seen) ELSE <<>>
               b == IF is_run_stopped_for_exhaustion THEN <<Ev("RESUMED", "cli")>> ELSE <<>>
    <2>1. a \in Seq(Event) /\ \A k \in 1..Len(a) : a[k].type \notin NO_GO_EVENT_TYPES
      BY AdoptedType DEF NO_GO_EVENT_TYPES
    <2>2. b \in Seq(Event) /\ \A k \in 1..Len(b) : b[k].type \notin NO_GO_EVENT_TYPES
      <3>1. Ev("RESUMED", "cli") \in Event BY EventTypes
      <3>2. Ev("RESUMED", "cli").type \notin NO_GO_EVENT_TYPES BY DEF Ev, NO_GO_EVENT_TYPES
      <3>3. QED BY <3>1, <3>2
    <2>3. journal' = (journal \o a) \o b BY <1>10 DEF forge_resume
    <2> HIDE DEF a, b
    <2>4. journal \o a \in Seq(Event) BY <1>0, <2>1, ConcatProperties DEF TypeOK
    <2>5. Count(journal \o a, NO_GO_EVENT_TYPES) = Count(journal, NO_GO_EVENT_TYPES)
      BY <1>0, <2>1, CountConcat DEF TypeOK
    <2>6. QED BY <2>2, <2>3, <2>4, <2>5, CountConcat
  <1>11. ASSUME NEW target \in {"TODO", "BLOCKED"}, forge_revert(target) PROVE Same
    <2>1. event_type_for_transition(status, Reopen(target)) = "ROLLED_BACK"
      BY <1>11 DEF forge_revert, can_transition, event_type_for_transition, Reopen
    <2> DEFINE s == <<Ev("ROLLED_BACK", "machine"), Ev("ROLLED_BACK", "cli")>>
    <2>2. s \in Seq(Event)
      <3>1. Ev("ROLLED_BACK", "machine") \in Event /\ Ev("ROLLED_BACK", "cli") \in Event
        BY EventTypes
      <3>2. QED BY <3>1
    <2>3. \A k \in 1..Len(s) : s[k].type \notin NO_GO_EVENT_TYPES
      BY DEF Ev, NO_GO_EVENT_TYPES
    <2>4. journal' = journal \o s BY <1>11, <2>1 DEF forge_revert
    <2> HIDE DEF s
    <2>5. QED BY <1>0, <2>2, <2>3, <2>4, CountConcat DEF TypeOK
  <1>12. CASE branch \/ dev \/ push \/ pr_open \/ gate_merge \/ integrate \/ return \/ no_go
              \/ crash_or_raise \/ run_bl \/ forge_approve
    BY <1>1, <1>12 DEF branch, dev, push, pr_open, gate_merge, integrate, return, no_go,
       crash_or_raise, run_bl, forge_approve
  <1>13. QED
    BY <1>3, <1>4, <1>5, <1>6, <1>7, <1>8, <1>9, <1>10, <1>11, <1>12
    DEF Next, Step, Operator

\* Only the NO GO of a role leads to the steps of a return.
LEMMA LeadsElsewhere ==
  ASSUME Typing, Next, ~no_go, ~no_go_journal
  PROVE  proc'.pc \notin Returning \/ proc' = proc
  <1>1. Flow BY ControlFlow
  <1>2. \A k \in 0..8 : step_after(k, journal', proc.epoch) \notin Returning
    BY NextStep DEF CycleSteps, Returning
  <1>3. ASSUME proc.pc \in {"no_go", "no_go_journal"} PROVE proc' = proc \/ proc'.pc = "idle"
    <2>1. ~Step
      BY <1>3 DEF Step, at, claim, dev_started, assign_roles, branch, branch_journal, dev,
         dev_journal, dev_status, gates, tester, tester_status, push, pr_open, pr_journal,
         reviewer, reviewer_status, gate_merge, ensure_in_test, ensure_in_review, integrate, done,
         return, no_go_status, blocked_status, blocked_journal, escalated
    <2>2. ~run_bl /\ (crash_or_raise => proc'.pc = "idle")
      BY <1>3 DEF run_bl, at, crash_or_raise, finish
    <2>3. \/ forge_approve \/ stop_run_for_exhaustion
          \/ \E pr_seen \in BOOLEAN : forge_resume(pr_seen)
          \/ \E target \in {"TODO", "BLOCKED"} : forge_revert(target)
          => proc' = proc
      BY DEF forge_approve, stop_run_for_exhaustion, forge_resume, forge_revert
    <2>4. QED BY <2>1, <2>2, <2>3 DEF Next, Operator
  <1>4. \A q : Edge(proc.pc, q) /\ q \in Returning => proc.pc \in {"no_go", "no_go_journal"}
    BY DEF Edge, Returning
  <1>5. QED BY <1>1, <1>2, <1>3, <1>4 DEF Flow, Returning

LEMMA CapInit == Init => CapInv
  <1> SUFFICES ASSUME Init PROVE CapInv OBVIOUS
  <1>1. journal = <<>> /\ proc.pc = "idle" BY DEF Init
  <1>2. Positions(journal, NO_GO_EVENT_TYPES) = {} BY <1>1 DEF Positions
  <1>3. Count(journal, NO_GO_EVENT_TYPES) = 0 BY <1>2, FS_EmptySet DEF Count
  <1>4. QED BY <1>1, <1>3, ExecutorAssumption DEF CapInv, Returning

LEMMA CapNext == Typing /\ CapInv /\ [Next]_vars => CapInv'
  <1> SUFFICES ASSUME Typing, CapInv, [Next]_vars PROVE CapInv' OBVIOUS
  <1> DEFINE returns == Count(journal, NO_GO_EVENT_TYPES)
  <1>0. TypeOK BY DEF Typing
  <1>1. returns \in Nat BY <1>0, CountType DEF TypeOK
  <1>2. CASE UNCHANGED vars BY <1>2 DEF vars, CapInv
  <1>3. CASE no_go
    <2>1. returns' = returns BY <1>3 DEF no_go
    <2>2. "blocked_status" \in Point /\ "no_go_journal" \in Point BY DEF Point, InnerPoint
    <2>3. proc'.pc \in Returning => ~cap_reached
      BY <1>0, <1>3, <2>2, Gone DEF no_go, Returning
    <2>4. QED BY <1>1, <2>1, <2>3, ExecutorAssumption DEF CapInv, cap_reached
  <1>4. CASE no_go_journal
    <2>1. proc.pc \in Returning BY <1>4 DEF no_go_journal, at, Returning
    <2>2. ~no_go_status BY <1>4 DEF no_go_journal, no_go_status, at
    <2>3. returns' = returns BY <1>4, <2>2, CountSame DEF Next, Step
    <2>4. QED BY <2>1, <2>3 DEF CapInv
  <1>5. CASE no_go_status
    <2>1. proc.pc \in Returning /\ ~no_go /\ ~no_go_journal
      BY <1>5 DEF no_go_status, no_go, no_go_journal, at, Returning
    <2>2. returns < MaxIterations BY <2>1 DEF CapInv
    <2>3. status \in Status BY <1>5 DEF no_go_status, at, Typing
    <2>4. returns' = returns \/ returns' = returns + 1
      <3>1. CASE can_transition(status, NoGo)
        <4> DEFINE e == Ev(event_type_for_transition(status, NoGo), "machine")
        <4>1. journal' = Append(journal, e) BY <1>5, <3>1 DEF no_go_status, transition, record
        <4>2. e \in Event BY <2>3, EventTypes, Requests
        <4> HIDE DEF e
        <4>3. QED BY <1>0, <4>1, <4>2, CountAppend DEF TypeOK
      <3>2. CASE ~can_transition(status, NoGo)
        BY <1>5, <3>2 DEF no_go_status, transition
      <3>3. QED BY <3>1, <3>2
    <2>5. proc'.pc \notin Returning
      <3>1. proc'.pc = step_after(0, journal', proc.epoch) \/ proc'.pc = "idle"
        <4>1. \A k \in 0..8 : step_after(k, journal', proc.epoch) \in Point
          BY NextStep, StepNames DEF Point, InnerPoint
        <4>2. \A x \in Point : transition(NoGo, x) => proc'.pc = x \/ proc'.pc = "idle"
          BY <1>0, Transitioned
        <4>3. QED BY <1>5, <4>1, <4>2 DEF no_go_status
      <3>2. step_after(0, journal', proc.epoch) \in CycleSteps \cup {"return"} BY NextStep
      <3>3. QED BY <3>1, <3>2 DEF CycleSteps, Returning
    <2>6. QED BY <1>1, <2>2, <2>4, <2>5, ExecutorAssumption DEF CapInv
  <1>6. CASE Next /\ ~no_go /\ ~no_go_journal /\ ~no_go_status
    <2>1. returns' = returns BY <1>6, CountSame
    <2>2. proc'.pc \notin Returning \/ proc' = proc BY <1>6, LeadsElsewhere
    <2>3. CASE proc'.pc \notin Returning BY <2>1, <2>3 DEF CapInv
    <2>4. CASE proc' = proc BY <2>1, <2>4 DEF CapInv
    <2>5. QED BY <2>2, <2>3, <2>4
  <1>7. QED BY <1>2, <1>3, <1>4, <1>5, <1>6

\* The item is sent back for correction at most MaxIterations times, over all its runs.
THEOREM ReturnsCapped == Spec => []NoGoCapped
  <1>1. CapInv => NoGoCapped BY DEF CapInv, NoGoCapped
  <1>2. QED BY <1>1, TypingInit, TypingNext, CapInit, CapNext, PTL DEF Spec
---------------------------------------------------------------------------
(* The life cycle. An item that has no row has no NO GO either, and every step that  *)
(* writes a status is one legal transition of its row.                             *)

Returns == Count(journal, NO_GO_EVENT_TYPES)

Fresh == status = Unregistered => Returns = 0

\* What a checked transition does to the status and to the iteration number.
Legal(r) ==
  /\ can_transition(status, r) /\ status' = r.target
  /\ Returns' = Returns + IF r.target = "IN_PROGRESS" /\ status \in NO_GO_SOURCES THEN 1 ELSE 0

LEMMA ReturnsType == ASSUME TypeOK PROVE Returns \in Nat
  BY CountType DEF TypeOK, Returns

LEMMA PlainLegal ==
  ASSUME TypeOK, status \in Status, NEW s \in Status, NEW x, transition(Plain(s), x)
  PROVE  (UNCHANGED status /\ Returns' = Returns) \/ Legal(Plain(s))
  <1>1. Returns' = Returns /\ Returns \in Nat BY CountPlain, ReturnsType DEF Returns
  <1>2. /\ Plain(s).target = s /\ Plain(s).no_go = FALSE /\ Plain(s).privileged_reopen = FALSE
    BY DEF Plain
  <1>3. CASE can_transition(status, Plain(s))
    <2>1. status' = s BY <1>2, <1>3 DEF transition
    <2>2. ~(s = "IN_PROGRESS" /\ status \in NO_GO_SOURCES) BY <1>2, <1>3 DEF can_transition
    <2>3. QED BY <1>1, <1>2, <1>3, <2>1, <2>2 DEF Legal
  <1>4. CASE ~can_transition(status, Plain(s)) BY <1>1, <1>4 DEF transition
  <1>5. QED BY <1>3, <1>4

LEMMA NoGoLegal ==
  ASSUME Typing, no_go_status
  PROVE  (UNCHANGED status /\ Returns' = Returns) \/ Legal(NoGo)
  <1>0. TypeOK /\ status \in Status BY DEF Typing, no_go_status, at
  <1>1. CASE can_transition(status, NoGo)
    <2> DEFINE e == Ev(event_type_for_transition(status, NoGo), "machine")
    <2>1. /\ NoGo.target = "IN_PROGRESS" /\ NoGo.no_go = TRUE /\ NoGo.privileged_reopen = FALSE
      BY DEF NoGo
    <2>2. status \in NO_GO_SOURCES BY <1>1, <2>1 DEF can_transition
    <2>3. e.type \in NO_GO_EVENT_TYPES
      BY <2>1, <2>2 DEF event_type_for_transition, NO_GO_SOURCES, NO_GO_EVENT_TYPES, Ev
    <2>4. e \in Event BY <1>0, EventTypes, Requests
    <2>5. journal' = Append(journal, e) /\ status' = NoGo.target
      BY <1>1 DEF no_go_status, transition, record
    <2> HIDE DEF e
    <2>6. Returns' = Returns + 1 BY <1>0, <2>3, <2>4, <2>5, CountAppend DEF TypeOK, Returns
    <2>7. QED BY <1>1, <2>1, <2>2, <2>5, <2>6 DEF Legal
  <1>2. CASE ~can_transition(status, NoGo) BY <1>2 DEF no_go_status, transition, Returns
  <1>3. QED BY <1>1, <1>2

LEMMA LifecycleStep ==
  ASSUME Typing, Fresh, Next
  PROVE  \/ UNCHANGED status /\ Returns' = Returns
         \/ status = Unregistered /\ status' = "TODO" /\ Returns' = 0
         \/ status \in Status /\ \E r \in TransitionRequest : Legal(r)
  <1> DEFINE Stays == UNCHANGED status /\ Returns' = Returns
             Moves == status \in Status /\ \E r \in TransitionRequest : Legal(r)
  <1>0. TypeOK /\ Returns \in Nat BY ReturnsType DEF Typing
  <1>1. ~no_go_status => Returns' = Returns BY CountSame DEF Returns
  <1>2. CASE claim \/ dev_status \/ tester_status \/ reviewer_status \/ ensure_in_test
             \/ ensure_in_review \/ done \/ blocked_status
    <2>1. ~at("idle") /\ ~no_go_status
      BY <1>2 DEF at, claim, dev_status, tester_status, reviewer_status, ensure_in_test,
         ensure_in_review, done, blocked_status, no_go_status
    <2>2. status \in Status BY <2>1 DEF Typing
    <2>3. ASSUME NEW s \in Status, NEW x, transition(Plain(s), x) PROVE Stays \/ Moves
      BY <1>0, <2>2, <2>3, PlainLegal, Requests
    <2>4. UNCHANGED status => Stays BY <1>1, <2>1
    <2>5. "IN_PROGRESS" \in Status /\ "IN_TEST" \in Status /\ "IN_REVIEW" \in Status
          /\ "BLOCKED" \in Status /\ "DONE" \in Status
      BY DEF Status
    <2> HIDE DEF Stays, Moves
    <2>6. Stays \/ Moves
      BY <1>2, <2>3, <2>4, <2>5
      DEF claim, dev_status, tester_status, reviewer_status, ensure_in_test,
          ensure_in_review, done, blocked_status
    <2>7. QED BY <2>6 DEF Stays, Moves
  <1>3. CASE no_go_status
    BY <1>3, NoGoLegal, Requests DEF Typing, no_go_status, at
  <1>4. CASE run_bl
    <2>1. Returns' = Returns BY <1>1, <1>4 DEF run_bl, no_go_status, at
    <2>2. status' = IF status = Unregistered THEN "TODO" ELSE status BY <1>4 DEF run_bl
    <2>3. QED BY <2>1, <2>2 DEF Fresh
  <1>5. ASSUME NEW target \in {"TODO", "BLOCKED"}, forge_revert(target) PROVE Moves
    <2>1. /\ Reopen(target).target = target /\ Reopen(target).privileged_reopen
          /\ Reopen(target) \in TransitionRequest
      BY Requests DEF Reopen, Status
    <2>2. status = "DONE" /\ can_transition(status, Reopen(target)) /\ status' = target
      BY <1>5, <2>1 DEF forge_revert, can_transition
    <2>3. Returns' = Returns BY <1>1, <1>5 DEF forge_revert, no_go_status, at
    <2>4. Legal(Reopen(target)) BY <1>0, <2>1, <2>2, <2>3 DEF Legal
    <2>5. QED BY <2>1, <2>2, <2>4 DEF Status
  <1>6. ASSUME UNCHANGED status, ~no_go_status PROVE Stays BY <1>1, <1>6
  <1>7. \/ Step /\ ~(\/ claim \/ dev_status \/ tester_status \/ reviewer_status \/ ensure_in_test
                     \/ ensure_in_review \/ done \/ blocked_status \/ no_go_status)
        \/ crash_or_raise \/ stop_run_for_exhaustion \/ forge_approve
        \/ \E pr_seen \in BOOLEAN : forge_resume(pr_seen)
        => UNCHANGED status
    BY DEF Step, dev_started, assign_roles, branch, branch_journal, dev, dev_journal, gates,
       tester, push, pr_open, pr_journal, reviewer, gate_merge, integrate, return, no_go,
       no_go_journal, blocked_journal, escalated, crash_or_raise, stop_run_for_exhaustion,
       forge_approve, forge_resume
  <1>8. QED BY <1>2, <1>3, <1>4, <1>5, <1>6, <1>7 DEF Next, Operator, Step

LEMMA FreshNext == Typing /\ Fresh /\ [Next]_vars => Fresh'
  <1> SUFFICES ASSUME Typing, Fresh, [Next]_vars PROVE Fresh' OBVIOUS
  <1>1. CASE UNCHANGED vars BY <1>1 DEF vars, Fresh, Returns
  <1>2. ASSUME NEW r \in TransitionRequest, Legal(r) PROVE Fresh'
    BY <1>2, ExecutorAssumption DEF Legal, TransitionRequest, Fresh
  <1>3. Unregistered # "TODO" BY ExecutorAssumption DEF Status
  <1>4. CASE Next BY <1>2, <1>3, <1>4, LifecycleStep DEF Fresh
  <1>5. QED BY <1>1, <1>4

\* The abstract life cycle reads the same transition table.
LEMMA SameTable ==
  /\ Lifecycle!TransitionRequest = TransitionRequest
  /\ Lifecycle!NO_GO_SOURCES = NO_GO_SOURCES
  /\ \A s, r : Lifecycle!can_transition(s, r) = can_transition(s, r)
  <1>1. Lifecycle!Status = Status /\ Lifecycle!NO_GO_SOURCES = NO_GO_SOURCES
    BY DEF Lifecycle!Status, Status, Lifecycle!NO_GO_SOURCES, NO_GO_SOURCES
  <1>2. Lifecycle!LEGAL_TRANSITIONS = LEGAL_TRANSITIONS
    BY <1>1 DEF Lifecycle!LEGAL_TRANSITIONS, LEGAL_TRANSITIONS
  <1>3. QED
    BY <1>1, <1>2
    DEF Lifecycle!TransitionRequest, TransitionRequest, Lifecycle!can_transition, can_transition

\* The executor implements the abstract life cycle: each of its steps is one legal
\* transition of the item, its registration, or leaves its status and iteration alone,
\* wherever processes die and whatever operators do in between.
THEOREM ExecutorImplementsLifecycle == Spec => ImplementsLifecycle
  <1> DEFINE iterations == [b \in {"bl"} |-> IF status = Unregistered THEN 0 ELSE Returns + 1]
             statuses == [b \in {"bl"} |-> status]
  <1>1. Init => Fresh /\ Lifecycle!Init
    <2> SUFFICES ASSUME Init PROVE Fresh /\ Lifecycle!Init OBVIOUS
    <2>1. Positions(journal, NO_GO_EVENT_TYPES) = {} BY DEF Init, Positions
    <2>2. Returns = 0 BY <2>1, FS_EmptySet DEF Returns, Count
    <2>3. QED BY <2>2 DEF Init, Fresh, Lifecycle!Init
  <1>2. Typing /\ Fresh /\ [Next]_vars => [Lifecycle!Next]_<<statuses, iterations>>
    <2> SUFFICES ASSUME Typing, Fresh, [Next]_vars
                 PROVE  Lifecycle!Next \/ UNCHANGED <<statuses, iterations>>
      OBVIOUS
    <2>1. CASE UNCHANGED vars BY <2>1 DEF vars, Returns
    <2>2. CASE UNCHANGED status /\ Returns' = Returns BY <2>2
    <2>3. CASE status = Unregistered /\ status' = "TODO" /\ Returns' = 0
      <3>1. Unregistered # "TODO" BY ExecutorAssumption DEF Status
      <3>2. Returns' + 1 = 1 BY <2>3
      <3>3. iterations' = [iterations EXCEPT !["bl"] = 1] BY <2>3, <3>1, <3>2
      <3>4. statuses' = [statuses EXCEPT !["bl"] = "TODO"] BY <2>3
      <3>5. Lifecycle!Register("bl")
        BY <2>3, <3>3, <3>4 DEF Lifecycle!Register, Returns
      <3>6. QED BY <3>5 DEF Lifecycle!Next
    <2>4. ASSUME status \in Status, NEW r \in TransitionRequest, Legal(r)
          PROVE  Lifecycle!Next
      <3>1. status # Unregistered /\ status' # Unregistered
        BY <2>4, ExecutorAssumption DEF Legal, TransitionRequest
      <3>2. Returns \in Nat BY ReturnsType DEF Typing
      <3>3. iterations' = [iterations EXCEPT
                  !["bl"] = Lifecycle!IterationAfter(@, statuses["bl"], r.target)]
        BY <2>4, <3>1, <3>2, SameTable DEF Legal, Lifecycle!IterationAfter
      <3>4. statuses' = [statuses EXCEPT !["bl"] = r.target] BY <2>4 DEF Legal
      <3>5. Lifecycle!Transition("bl", r)
        BY <2>4, <3>1, <3>3, <3>4, SameTable DEF Lifecycle!Transition, Legal, Returns
      <3>6. QED BY <3>5, SameTable DEF Lifecycle!Next
    <2>5. QED BY <2>1, <2>2, <2>3, <2>4, LifecycleStep
  <1>3. QED
    BY <1>1, <1>2, TypingInit, TypingNext, FreshNext, PTL
    DEF Spec, ImplementsLifecycle, Lifecycle!Spec, Lifecycle!lifecycleVars, Returns
---------------------------------------------------------------------------
(* The effects. A step of the executor journals an effect that the journal does not *)
(* show, and recovery adopts one only then, while no process is at work.            *)

Effects ==
  /\ Count(journal, {"WORKTREE_CREATED"}) <= 1 /\ Count(journal, {"PR_OPENED"}) <= 1
  /\ proc.pc \in {"BRANCH", "branch_journal"} => None(journal, "WORKTREE_CREATED")
  /\ proc.pc \in {"PR_OPEN", "pr_journal"} => None(journal, "PR_OPENED")

LEMMA NoneCount ==
  ASSUME NEW log \in Seq(Event), NEW t
  PROVE  None(log, t) <=> Count(log, {t}) = 0
  BY CountType, FS_EmptySet DEF None, Count

LEMMA NoneRelevant ==
  ASSUME NEW log \in Seq(Event), NEW t
  PROVE  None(log, t) <=> t \notin relevant(log, 0)
  <1>1. \A k \in 1..Len(log) : k >= 0 OBVIOUS
  <1>2. QED BY <1>1 DEF None, Positions, relevant

\* The step a process goes to next is not shown done by the journal.
LEMMA LastingStep ==
  ASSUME NEW log \in Seq(Event), NEW k \in 0..8, NEW epoch
  PROVE  /\ step_after(k, log, epoch) = "BRANCH" => None(log, "WORKTREE_CREATED")
         /\ step_after(k, log, epoch) = "PR_OPEN" => None(log, "PR_OPENED")
  <1>1. step_after(k, log, epoch) # "return" =>
          step_after(k, log, epoch) \notin completed_steps(log, epoch)
    BY StepIs
  <1>2. QED BY <1>1, Completed, NoneRelevant

\* Where a process may stand when an effect is not journaled yet.
LEMMA EffectPoints ==
  ASSUME Typing, Effects, Next
  PROVE  /\ proc'.pc \in {"BRANCH", "branch_journal"} =>
              None(journal', "WORKTREE_CREATED") \/ proc' = proc \/ proc.pc = "BRANCH"
         /\ proc'.pc \in {"PR_OPEN", "pr_journal"} =>
              None(journal', "PR_OPENED") \/ proc' = proc \/ proc.pc = "PR_OPEN"
  <1>1. journal' \in Seq(Event) BY TypingNext DEF Typing, TypeOK
  <1>2. Flow BY ControlFlow
  <1>3. \A k \in 0..8 : step_after(k, journal', proc.epoch) \in CycleSteps \cup {"return"} BY NextStep
  <1>4. ASSUME NEW k \in 0..8, proc'.pc = step_after(k, journal', proc.epoch)
        PROVE  /\ proc'.pc \in {"BRANCH", "branch_journal"} => None(journal', "WORKTREE_CREATED")
               /\ proc'.pc \in {"PR_OPEN", "pr_journal"} => None(journal', "PR_OPENED")
    BY <1>1, <1>3, <1>4, LastingStep DEF CycleSteps
  <1>5. QED BY <1>2, <1>4 DEF Flow, Edge

\* An event of another type.
LEMMA OtherEvent ==
  ASSUME NEW log \in Seq(Event), NEW e \in Event, NEW t, e.type # t
  PROVE  /\ Append(log, e) \in Seq(Event)
         /\ Count(Append(log, e), {t}) = Count(log, {t})
         /\ None(log, t) => None(Append(log, e), t)
  <1>1. Append(log, e) \in Seq(Event) BY AppendProperties
  <1>2. Count(Append(log, e), {t}) = Count(log, {t}) BY CountAppend
  <1>3. QED BY <1>1, <1>2, NoneCount

\* The steps that journal an effect go past it.
LEMMA EffectJournaled ==
  ASSUME Typing
  PROVE  /\ branch_journal => /\ proc.pc = "branch_journal"
                              /\ proc'.pc \notin {"BRANCH", "branch_journal"}
                              /\ proc'.pc \in {"PR_OPEN", "pr_journal"} => None(journal', "PR_OPENED")
         /\ pr_journal => /\ proc.pc = "pr_journal"
                          /\ proc'.pc \notin {"BRANCH", "branch_journal", "PR_OPEN", "pr_journal"}
  <1>0. TypeOK BY DEF Typing
  <1>1. ASSUME NEW k \in {1, 6}, advance(k)
        PROVE  proc'.pc = step_after(k, journal', proc.epoch)
    <2>1. k \in 0..8 OBVIOUS
    <2>2. step_after(k, journal', proc.epoch) \in Point
      BY <2>1, NextStep, StepNames DEF Point, InnerPoint
    <2>3. QED BY <1>0, <1>1, <2>2, Gone DEF advance
  <1>2. /\ \A l \in 2..8 : STEP_ORDER[l] # "BRANCH"
        /\ \A l \in 7..8 : STEP_ORDER[l] \notin {"BRANCH", "PR_OPEN"}
    <2>1. \A l \in 2..8 : l = 2 \/ l = 3 \/ l = 4 \/ l = 5 \/ l = 6 \/ l = 7 \/ l = 8 OBVIOUS
    <2>2. QED BY <2>1 DEF STEP_ORDER
  <1>3. \A k \in 0..8 : step_after(k, journal', proc.epoch) \in CycleSteps \cup {"return"} BY NextStep
  <1>4. ASSUME branch_journal
        PROVE  /\ proc.pc = "branch_journal" /\ proc'.pc \notin {"BRANCH", "branch_journal"}
               /\ proc'.pc \in {"PR_OPEN", "pr_journal"} => None(journal', "PR_OPENED")
    <2>1. proc.pc = "branch_journal" /\ proc'.pc = step_after(1, journal', proc.epoch)
      BY <1>1, <1>4 DEF branch_journal, at
    <2>2. journal' \in Seq(Event)
      BY <1>4, TypingNext DEF Next, Step, Typing, TypeOK
    <2>3. step_after(1, journal', proc.epoch) # "BRANCH" BY <1>2, StepIs
    <2>4. step_after(1, journal', proc.epoch) = "PR_OPEN" => None(journal', "PR_OPENED")
      BY <2>2, LastingStep
    <2>5. step_after(1, journal', proc.epoch) \notin {"branch_journal", "pr_journal"}
      BY <1>3 DEF CycleSteps
    <2>6. QED BY <2>1, <2>3, <2>4, <2>5
  <1>5. ASSUME pr_journal
        PROVE  /\ proc.pc = "pr_journal"
               /\ proc'.pc \notin {"BRANCH", "branch_journal", "PR_OPEN", "pr_journal"}
    <2>1. proc.pc = "pr_journal" /\ proc'.pc = step_after(6, journal', proc.epoch)
      BY <1>1, <1>5 DEF pr_journal, at
    <2>2. step_after(6, journal', proc.epoch) \notin {"BRANCH", "PR_OPEN"} BY <1>2, StepIs
    <2>3. step_after(6, journal', proc.epoch) \notin {"branch_journal", "pr_journal"}
      BY <1>3 DEF CycleSteps
    <2>4. QED BY <2>1, <2>2, <2>3
  <1>6. QED BY <1>4, <1>5

LEMMA EffectsNext == Typing /\ Effects /\ [Next]_vars => Effects'
  <1> SUFFICES ASSUME Typing, Effects, [Next]_vars PROVE Effects' OBVIOUS
  <1>0. TypeOK /\ journal \in Seq(Event) BY DEF Typing, TypeOK
  <1> DEFINE branches == Count(journal, {"WORKTREE_CREATED"})
             prs == Count(journal, {"PR_OPENED"})
  <1>1. CASE UNCHANGED vars BY <1>1 DEF vars, Effects, None
  <1>2. ASSUME Next, branches' = branches, prs' = prs,
               None(journal, "WORKTREE_CREATED") => None(journal', "WORKTREE_CREATED"),
               None(journal, "PR_OPENED") => None(journal', "PR_OPENED")
        PROVE  Effects'
    <2>1. branches' <= 1 /\ prs' <= 1 BY <1>2 DEF Effects
    <2>2. QED BY <1>2, <2>1, EffectPoints DEF Effects
  <1>3. ASSUME Next, UNCHANGED journal PROVE Effects' BY <1>2, <1>3 DEF None
  <1>4. ASSUME Next, NEW e \in Event, journal' = Append(journal, e), Written(e) PROVE Effects'
    <2>1. CASE e.type = "WORKTREE_CREATED"
      <3>1. /\ proc.pc = "branch_journal" /\ proc'.pc \notin {"BRANCH", "branch_journal"}
            /\ proc'.pc \in {"PR_OPEN", "pr_journal"} => None(journal', "PR_OPENED")
        BY <1>4, <2>1, EffectJournaled DEF Written
      <3>2. branches = 0 BY <1>0, <3>1, NoneCount DEF Effects
      <3>3. branches' = branches + 1 BY <1>0, <1>4, <2>1, CountAppend
      <3>4. prs' = prs BY <1>0, <1>4, <2>1, OtherEvent
      <3>5. branches' <= 1 /\ prs' <= 1 BY <3>2, <3>3, <3>4 DEF Effects
      <3>6. QED BY <3>1, <3>5 DEF Effects
    <2>2. CASE e.type = "PR_OPENED"
      <3>1. /\ proc.pc = "pr_journal"
            /\ proc'.pc \notin {"BRANCH", "branch_journal", "PR_OPEN", "pr_journal"}
        BY <1>4, <2>2, EffectJournaled DEF Written
      <3>2. prs = 0 BY <1>0, <3>1, NoneCount DEF Effects
      <3>3. prs' = prs + 1 BY <1>0, <1>4, <2>2, CountAppend
      <3>4. branches' = branches BY <1>0, <1>4, <2>2, OtherEvent
      <3>5. branches' <= 1 /\ prs' <= 1 BY <3>2, <3>3, <3>4 DEF Effects
      <3>6. QED BY <3>1, <3>5 DEF Effects
    <2>3. CASE e.type \notin {"WORKTREE_CREATED", "PR_OPENED"}
      BY <1>0, <1>2, <1>4, <2>3, OtherEvent
    <2>4. QED BY <2>1, <2>2, <2>3
  <1>5. ASSUME NEW pr_seen \in BOOLEAN, forge_resume(pr_seen) PROVE Effects'
    <2> DEFINE x == Ev("WORKTREE_CREATED", "recovery")
               y == Ev("PR_OPENED", "recovery")
               z == Ev("RESUMED", "cli")
    <2>1. /\ x \in Event /\ x.type = "WORKTREE_CREATED"
          /\ y \in Event /\ y.type = "PR_OPENED"
          /\ z \in Event /\ z.type = "RESUMED"
      BY EventTypes DEF Ev
    <2>2. PICK l, m \in Seq(Event) :
            /\ l = journal \/ (l = Append(journal, x) /\ None(journal, "WORKTREE_CREATED"))
            /\ m = l \/ (m = Append(l, y) /\ None(journal, "PR_OPENED") /\ world.pr = "open")
            /\ journal' = m \/ journal' = Append(m, z)
      BY <1>0, <1>5, ResumeAppends
    <2> HIDE DEF x, y, z
    <2>3. Count(l, {"WORKTREE_CREATED"}) <= 1 /\ Count(l, {"PR_OPENED"}) = prs
      <3>1. CASE l = journal BY <3>1 DEF Effects
      <3>2. CASE l = Append(journal, x) /\ None(journal, "WORKTREE_CREATED")
        <4>1. branches = 0 BY <1>0, <3>2, NoneCount
        <4>2. Count(l, {"WORKTREE_CREATED"}) = branches + 1 BY <1>0, <2>1, <3>2, CountAppend
        <4>3. Count(l, {"PR_OPENED"}) = prs
          <5>1. x.type # "PR_OPENED" BY <2>1
          <5>2. QED BY <1>0, <2>1, <3>2, <5>1, OtherEvent
        <4>4. QED BY <4>1, <4>2, <4>3
      <3>3. QED BY <2>2, <3>1, <3>2
    <2>4. Count(m, {"WORKTREE_CREATED"}) <= 1 /\ Count(m, {"PR_OPENED"}) <= 1
      <3>1. CASE m = l BY <2>3, <3>1 DEF Effects
      <3>2. CASE m = Append(l, y) /\ None(journal, "PR_OPENED")
        <4>1. prs = 0 BY <1>0, <3>2, NoneCount
        <4>2. Count(m, {"PR_OPENED"}) = prs + 1 BY <2>1, <2>3, <3>2, CountAppend
        <4>3. Count(m, {"WORKTREE_CREATED"}) = Count(l, {"WORKTREE_CREATED"})
          <5>1. y.type # "WORKTREE_CREATED" BY <2>1
          <5>2. l \in Seq(Event) /\ y \in Event BY <2>1, <2>2
          <5>3. Count(Append(l, y), {"WORKTREE_CREATED"}) = Count(l, {"WORKTREE_CREATED"})
            BY <5>1, <5>2, OtherEvent
          <5>4. QED BY <3>2, <5>3
        <4>4. QED BY <2>3, <4>1, <4>2, <4>3
      <3>3. QED BY <2>2, <3>1, <3>2
    <2>5. branches' <= 1 /\ prs' <= 1
      <3>1. CASE journal' = m BY <2>4, <3>1
      <3>2. CASE journal' = Append(m, z)
        <4>1. z.type # "WORKTREE_CREATED" /\ z.type # "PR_OPENED" BY <2>1
        <4>2. branches' = Count(m, {"WORKTREE_CREATED"}) BY <2>1, <3>2, <4>1, OtherEvent
        <4>3. prs' = Count(m, {"PR_OPENED"}) BY <2>1, <3>2, <4>1, OtherEvent
        <4>4. QED BY <2>4, <4>2, <4>3
      <3>3. QED BY <2>2, <3>1, <3>2
    <2>6. proc'.pc = "idle" BY <1>5 DEF forge_resume, at
    <2>7. QED BY <2>5, <2>6 DEF Effects
  <1>6. ASSUME Next, NEW target \in {"TODO", "BLOCKED"}, forge_revert(target) PROVE Effects'
    <2>1. PICK l \in Seq(Event) : /\ l = Append(journal, Ev("ROLLED_BACK", "machine"))
                                  /\ journal' = Append(l, Ev("ROLLED_BACK", "cli"))
      BY <1>0, <1>6, RevertAppends
    <2> DEFINE a == Ev("ROLLED_BACK", "machine")
               b == Ev("ROLLED_BACK", "cli")
    <2>2. a \in Event /\ b \in Event /\ a.type = "ROLLED_BACK" /\ b.type = "ROLLED_BACK"
      BY EventTypes DEF Ev
    <2>3. ASSUME NEW t \in {"WORKTREE_CREATED", "PR_OPENED"}
          PROVE  /\ Count(journal', {t}) = Count(journal, {t})
                 /\ None(journal, t) => None(journal', t)
      <3>1. l = Append(journal, a) /\ journal' = Append(l, b) BY <2>1
      <3> HIDE DEF a, b
      <3>2. a.type # t /\ b.type # t BY <2>2
      <3>3. /\ Count(Append(journal, a), {t}) = Count(journal, {t})
            /\ None(journal, t) => None(Append(journal, a), t)
        BY <1>0, <2>2, <3>2, OtherEvent
      <3>4. /\ Count(Append(l, b), {t}) = Count(l, {t})
            /\ None(l, t) => None(Append(l, b), t)
        BY <2>2, <3>2, OtherEvent
      <3>5. QED BY <3>1, <3>3, <3>4
    <2>4. QED BY <1>2, <1>6, <2>3
  <1>7. QED BY <1>1, <1>3, <1>4, <1>5, <1>6, JournalGrows

\* The branch and the pull request are journaled once each, by the executor or by
\* recovery, wherever processes die between the effect and its event.
THEOREM EffectsJournaled == Spec => []EffectsJournaledOnce
  <1>1. Init => Effects
    <2> SUFFICES ASSUME Init PROVE Effects OBVIOUS
    <2>1. \A t : None(journal, t) /\ journal \in Seq(Event) BY DEF Init, None, Positions
    <2>2. Count(journal, {"WORKTREE_CREATED"}) = 0 /\ Count(journal, {"PR_OPENED"}) = 0
      BY <2>1, NoneCount
    <2>3. QED BY <2>1, <2>2 DEF Effects
  <1>2. Effects => EffectsJournaledOnce BY DEF Effects, EffectsJournaledOnce
  <1>3. QED BY <1>1, <1>2, EffectsNext, TypingInit, TypingNext, PTL DEF Spec
---------------------------------------------------------------------------
(* Continuations. Between the test of run_bl and the event it leads to, the journal *)
(* of the item may only get another stop of the run.                               *)

\* can_continue_after_resume of any journal.
Resumable(log) ==
  \E i \in Positions(log, {"RESUMED"}) :
    \A j \in 1..Len(log) : log[j].type \in RUN_EVENTS \/ j < i

Continuations(log) == {k \in 1..Len(log) : log[k].by = "continuation"}

\* Continuations are starts of a development, each with a RESUMED of its own.
Sound(log) ==
  /\ \A i \in Continuations(log) : log[i].type = "DEV_STARTED"
  /\ \A i, j \in Continuations(log) :
       i < j => \E k \in Positions(log, {"RESUMED"}) : i < k /\ k < j

Continued == Sound(journal) /\ (proc.pc = "dev_continued" => Resumable(journal))

LEMMA SoundAppend ==
  ASSUME NEW log \in Seq(Event), NEW e \in Event, Sound(log),
         e.by = "continuation" => e.type = "DEV_STARTED" /\ Resumable(log)
  PROVE  Sound(Append(log, e)) /\ Append(log, e) \in Seq(Event)
  <1> DEFINE n == Len(log)
             new == Append(log, e)
  <1>1. /\ n \in Nat /\ Len(new) = n + 1 /\ new[n + 1] = e /\ new \in Seq(Event)
        /\ \A i \in 1..n : new[i] = log[i]
    BY AppendProperties
  <1> HIDE DEF new
  <1>2. \A i \in 1..(n + 1) : i \in 1..n \/ i = n + 1 BY <1>1
  <1>3. \A i \in 1..n : i \in 1..(n + 1) BY <1>1
  <1>4. Positions(log, {"RESUMED"}) \subseteq Positions(new, {"RESUMED"})
    BY <1>1, <1>3 DEF Positions
  <1>5. \A i \in Continuations(new) : i \in Continuations(log) \/ (i = n + 1 /\ e.by = "continuation")
    BY <1>1, <1>2 DEF Continuations
  <1>6. \A i \in Continuations(log) : i \in 1..n /\ new[i] = log[i] BY <1>1 DEF Continuations
  <1>7. \A i \in Continuations(new) : new[i].type = "DEV_STARTED"
    BY <1>1, <1>5, <1>6 DEF Sound
  <1>8. ASSUME NEW i \in Continuations(new), NEW j \in Continuations(new), i < j
        PROVE  \E k \in Positions(new, {"RESUMED"}) : i < k /\ k < j
    <2>1. CASE i \in Continuations(log) /\ j \in Continuations(log)
      BY <1>4, <1>8, <2>1 DEF Sound
    <2>2. CASE i \in Continuations(log) /\ j = n + 1 /\ e.by = "continuation"
      <3>1. PICK k \in Positions(log, {"RESUMED"}) :
              \A m \in 1..n : log[m].type \in RUN_EVENTS \/ m < k
        BY <2>2 DEF Resumable
      <3>2. log[i].type \notin RUN_EVENTS BY <2>2 DEF Sound, RUN_EVENTS
      <3>3. i < k /\ k \in 1..n BY <1>6, <2>2, <3>1, <3>2 DEF Positions
      <3>4. k < j BY <1>1, <2>2, <3>3
      <3>5. QED BY <1>4, <3>1, <3>3, <3>4
    <2>3. CASE i = n + 1
      <3>1. j <= n + 1 /\ j \in Nat BY <1>1, <1>5, <1>6
      <3>2. QED BY <1>1, <1>8, <2>3, <3>1
    <2>4. QED BY <1>5, <2>1, <2>2, <2>3
  <1>9. QED BY <1>1, <1>7, <1>8 DEF Sound, new

LEMMA ResumableAppend ==
  ASSUME NEW log \in Seq(Event), NEW e \in Event, Resumable(log), e.type \in RUN_EVENTS
  PROVE  Resumable(Append(log, e))
  <1> DEFINE n == Len(log)
             new == Append(log, e)
  <1>1. /\ n \in Nat /\ Len(new) = n + 1 /\ new[n + 1] = e
        /\ \A i \in 1..n : new[i] = log[i]
    BY AppendProperties
  <1> HIDE DEF new
  <1>2. \A i \in 1..(n + 1) : i \in 1..n \/ i = n + 1 BY <1>1
  <1>3. PICK i \in Positions(log, {"RESUMED"}) :
          \A j \in 1..n : log[j].type \in RUN_EVENTS \/ j < i
    BY DEF Resumable
  <1>4. i \in Positions(new, {"RESUMED"}) BY <1>1, <1>3 DEF Positions
  <1>5. \A j \in 1..(n + 1) : new[j].type \in RUN_EVENTS \/ j < i BY <1>1, <1>2, <1>3
  <1>6. QED BY <1>1, <1>4, <1>5 DEF Resumable, new

\* What may happen when a continuation is about to start.
LEMMA AboutToContinue ==
  ASSUME Typing, Next, proc'.pc = "dev_continued"
  PROVE  \/ journal' = journal /\ Resumable(journal)
         \/ proc.pc = "dev_continued" /\ UNCHANGED journal
         \/ proc.pc = "dev_continued" /\ stop_run_for_exhaustion
  <1>1. Flow BY ControlFlow
  <1>2. \A k \in 0..8 : step_after(k, journal', proc.epoch) # "dev_continued"
    BY NextStep DEF CycleSteps
  <1>3. proc.pc = "idle" \/ (proc.pc = "dev_continued" /\ proc' = proc)
    BY <1>1, <1>2 DEF Flow, Edge
  <1>4. ~Step
    <2>1. proc.pc = "idle" => ~Step
      BY DEF Step, at, claim, dev_started, assign_roles, branch, branch_journal, dev,
         dev_journal, dev_status, gates, tester, tester_status, push, pr_open, pr_journal,
         reviewer, reviewer_status, gate_merge, ensure_in_test, ensure_in_review, integrate,
         done, return, no_go, no_go_journal, no_go_status, blocked_status, blocked_journal,
         escalated
    <2>2. proc.pc = "dev_continued" /\ Step => dev_started
      BY DEF Step, at, claim, assign_roles, branch, branch_journal, dev,
         dev_journal, dev_status, gates, tester, tester_status, push, pr_open, pr_journal,
         reviewer, reviewer_status, gate_merge, ensure_in_test, ensure_in_review, integrate,
         done, return, no_go, no_go_journal, no_go_status, blocked_status, blocked_journal,
         escalated
    <2>3. dev_started => proc'.pc = "assign_roles"
      BY Gone DEF dev_started, Typing, Point, InnerPoint
    <2>4. QED BY <1>3, <2>1, <2>2, <2>3
  <1>5. ~crash_or_raise BY DEF crash_or_raise, finish
  <1>6. CASE run_bl
    <2>1. {"dev_continued", "claim"} \subseteq Point BY DEF Point, InnerPoint
    <2>2. goto("claim") => proc'.pc = "claim" BY <2>1, Gone DEF Typing
    <2>3. journal' = journal /\ can_continue_after_resume BY <1>6, <2>2 DEF run_bl
    <2>4. QED BY <2>3 DEF can_continue_after_resume, Resumable
  <1>7. CASE forge_approve \/ stop_run_for_exhaustion \/ (\E pr_seen \in BOOLEAN : forge_resume(pr_seen))
             \/ \E target \in {"TODO", "BLOCKED"} : forge_revert(target)
    <2>1. proc' = proc
      BY <1>7 DEF forge_approve, stop_run_for_exhaustion, forge_resume, forge_revert
    <2>2. QED BY <1>7, <2>1 DEF forge_approve, forge_resume, forge_revert, at
  <1>8. QED BY <1>4, <1>5, <1>6, <1>7 DEF Next, Operator

LEMMA ContinuedNext == Typing /\ Continued /\ [Next]_vars => Continued'
  <1> SUFFICES ASSUME Typing, Continued, [Next]_vars PROVE Continued' OBVIOUS
  <1>0. TypeOK /\ journal \in Seq(Event) BY DEF Typing, TypeOK
  <1>1. CASE UNCHANGED vars BY <1>1 DEF vars, Continued
  <1>2. CASE Next
    <2>1. Sound(journal')
      <3>1. ASSUME NEW e \in Event, journal' = Append(journal, e), Written(e) PROVE Sound(journal')
        BY <1>0, <3>1, SoundAppend DEF Written, Continued
      <3>2. ASSUME NEW pr_seen \in BOOLEAN, forge_resume(pr_seen) PROVE Sound(journal')
        <4> DEFINE x == Ev("WORKTREE_CREATED", "recovery")
                   y == Ev("PR_OPENED", "recovery")
                   z == Ev("RESUMED", "cli")
        <4>1. /\ x \in Event /\ x.by # "continuation"
              /\ y \in Event /\ y.by # "continuation"
              /\ z \in Event /\ z.by # "continuation"
          BY EventTypes DEF Ev
        <4>2. PICK l, m \in Seq(Event) : /\ l = journal \/ l = Append(journal, x)
                                         /\ m = l \/ m = Append(l, y)
                                         /\ journal' = m \/ journal' = Append(m, z)
          BY <1>0, <3>2, ResumeAppends
        <4> HIDE DEF x, y, z
        <4>3. Sound(l) BY <1>0, <4>1, <4>2, SoundAppend DEF Continued
        <4>4. Sound(m) BY <4>1, <4>2, <4>3, SoundAppend
        <4>5. QED BY <4>1, <4>2, <4>4, SoundAppend
      <3>3. ASSUME NEW target \in {"TODO", "BLOCKED"}, forge_revert(target) PROVE Sound(journal')
        <4>1. PICK l \in Seq(Event) : /\ l = Append(journal, Ev("ROLLED_BACK", "machine"))
                                      /\ journal' = Append(l, Ev("ROLLED_BACK", "cli"))
          BY <1>0, <3>3, RevertAppends
        <4>2. /\ Ev("ROLLED_BACK", "machine") \in Event /\ Ev("ROLLED_BACK", "cli") \in Event
              /\ Ev("ROLLED_BACK", "machine").by # "continuation"
              /\ Ev("ROLLED_BACK", "cli").by # "continuation"
          BY EventTypes DEF Ev
        <4>3. Sound(l) BY <1>0, <4>1, <4>2, SoundAppend DEF Continued
        <4>4. QED BY <4>1, <4>2, <4>3, SoundAppend
      <3>4. QED BY <1>2, <3>1, <3>2, <3>3, JournalGrows DEF Continued
    <2>2. proc'.pc = "dev_continued" => Resumable(journal')
      <3>1. ASSUME stop_run_for_exhaustion, Resumable(journal) PROVE Resumable(journal')
        <4>1. /\ Ev("RUN_STOPPED", "scheduler") \in Event
              /\ Ev("RUN_STOPPED", "scheduler").type \in RUN_EVENTS
          BY EventTypes DEF Ev, RUN_EVENTS
        <4>2. journal' = Append(journal, Ev("RUN_STOPPED", "scheduler"))
          BY <3>1 DEF stop_run_for_exhaustion, record
        <4>3. QED BY <1>0, <3>1, <4>1, <4>2, ResumableAppend
      <3>2. QED BY <1>2, <3>1, AboutToContinue DEF Continued
    <2>3. QED BY <2>1, <2>2 DEF Continued
  <1>3. QED BY <1>1, <1>2

\* A lifted stop lets the item continue once, wherever processes die and stops fall.
THEOREM ContinuationsResumed == Spec => []ContinuedOncePerResume
  <1>1. Init => Continued BY DEF Init, Continued, Sound, Continuations, Positions
  <1>2. Typing /\ Continued => ContinuedOncePerResume
    <2> SUFFICES ASSUME Typing, Continued PROVE ContinuedOncePerResume OBVIOUS
    <2>1. DOMAIN journal = 1..Len(journal) BY DEF Typing, TypeOK
    <2>2. QED BY <2>1 DEF Continued, Sound, Continuations, ContinuedOncePerResume
  <1>3. QED BY <1>1, <1>2, ContinuedNext, TypingInit, TypingNext, PTL DEF Spec
---------------------------------------------------------------------------
(* The verification of what is merged. The events of the cycle's epoch say which    *)
(* stages have seen the last development pass, for as long as that epoch is known:  *)
(* before the first NO GO it is the whole journal, after one it is in memory.       *)

Reviews == {"DEV_COMPLETED", "GATES_COMPLETED", "TESTER_COMPLETED", "REVIEWER_COMPLETED"}
Shown == Reviews \cup {"PR_OPENED"}

\* What the event types R of an epoch say of the code c.
Facts(R, c) ==
  /\ "GATES_COMPLETED" \in R => c.gated = c.local
  /\ "TESTER_COMPLETED" \in R => c.tested = c.local
  /\ "REVIEWER_COMPLETED" \in R => c.reviewed = c.local
  /\ "PR_OPENED" \in R => c.pushed = c.local
  /\ R \cap Shown # {} => "DEV_COMPLETED" \in R
  /\ c.merged # 0 => Reviews \subseteq R

FromMerge == {"MERGE", "in_test", "in_review", "integrate", "done"}
FromReviewer == {"pr_journal", "PR_OPEN", "REVIEWER", "reviewer_status"} \cup FromMerge
FromTester == {"tester_status", "PUSH"} \cup FromReviewer

\* What a process at point p knows to be behind it, and what is still ahead.
Passed(p, R, c) ==
  /\ p \in {"dev_status", "GATES", "TESTER"} \cup FromTester => "DEV_COMPLETED" \in R
  /\ p \in {"TESTER"} \cup FromTester => "GATES_COMPLETED" \in R
  /\ p \in FromTester => "TESTER_COMPLETED" \in R
  /\ p \in FromReviewer => c.pushed = c.local
  /\ p \in {"reviewer_status"} \cup FromMerge => "REVIEWER_COMPLETED" \in R
  /\ p = "DEV" => "DEV_COMPLETED" \notin R
  /\ p = "TESTER" => "TESTER_COMPLETED" \notin R
  /\ p = "REVIEWER" => "REVIEWER_COMPLETED" \notin R
  /\ p \in {"no_go", "no_go_journal", "no_go_status"} => c.merged = 0
  /\ p = "no_go_status" => R \cap Shown = {}

\* What is merged has been seen by every stage.
Seen(c) ==
  c.merged # 0 => /\ c.merged = c.local /\ c.merged = c.gated
                  /\ c.merged = c.tested /\ c.merged = c.reviewed

\* An open pull request shows the last pass.
Open(R, w, c) == w.pr = "open" => c.pushed = c.local /\ "DEV_COMPLETED" \in R

Returned(log) == Positions(log, NO_GO_EVENT_TYPES) # {}

Lost(log) ==
  \E i \in Positions(log, NO_GO_EVENT_TYPES) :
    \E j \in Positions(log, {"DEV_STARTED"}) : i < j

Outside == {"idle", "claim", "dev_started", "dev_continued"}

\* Where the epoch of a process stands.
EpochInv ==
  /\ proc.epoch <= Len(journal)
  /\ proc.pc \in Outside => proc.epoch = 0

\* What an epoch shows, before a step and after it.
Since == relevant(journal, proc.epoch)
SinceThen == relevant(journal', proc.epoch)

\* Before the first NO GO the whole journal is the epoch.
FirstCycle ==
  /\ Facts(relevant(journal, 0), code)
  /\ Open(relevant(journal, 0), world, code)
  /\ proc.pc \notin Outside \cup {"no_go_status"} => proc.epoch = 0

\* What is known of a process at work, and what is known of it after a step.
InHand == Facts(Since, code) /\ Passed(proc.pc, Since, code) /\ Seen(code)

Kept ==
  /\ Facts(SinceThen, code') /\ Seen(code')
  /\ proc'.pc \notin Outside => Passed(proc'.pc, SinceThen, code')
  /\ Open(Since, world, code) => Open(SinceThen, world', code')

Verified ==
  /\ EpochInv
  /\ ~Lost(journal) =>
       /\ Seen(code)
       /\ ~Returned(journal) => FirstCycle
       /\ proc.pc \notin Outside => InHand

LEMMA RelevantAppend ==
  ASSUME NEW log \in Seq(Event), NEW e \in Event, NEW epoch \in Nat, epoch <= Len(log) + 1
  PROVE  relevant(Append(log, e), epoch) = relevant(log, epoch) \cup {e.type}
  <1> DEFINE n == Len(log)
             new == Append(log, e)
  <1>1. /\ n \in Nat /\ Len(new) = n + 1 /\ new[n + 1] = e
        /\ \A i \in 1..n : new[i] = log[i]
    BY AppendProperties
  <1> HIDE DEF new
  <1>2. \A i \in 1..(n + 1) : i \in 1..n \/ i = n + 1 BY <1>1
  <1>3. \A i \in 1..n : i \in 1..(n + 1) BY <1>1
  <1>4. n + 1 \in 1..(n + 1) /\ n + 1 >= epoch BY <1>1
  <1>5. relevant(new, epoch) \subseteq relevant(log, epoch) \cup {e.type}
    BY <1>1, <1>2 DEF relevant
  <1>6. relevant(log, epoch) \subseteq relevant(new, epoch) BY <1>1, <1>3 DEF relevant
  <1>7. e.type \in relevant(new, epoch) BY <1>1, <1>4 DEF relevant
  <1>8. QED BY <1>5, <1>6, <1>7 DEF new

\* An epoch that begins with the last event shows that event alone.
LEMMA RelevantLast ==
  ASSUME NEW log \in Seq(Event), NEW e \in Event
  PROVE  relevant(Append(log, e), Len(Append(log, e))) = {e.type}
  <1> DEFINE n == Len(log)
             new == Append(log, e)
  <1>1. n \in Nat /\ Len(new) = n + 1 /\ new[n + 1] = e BY AppendProperties
  <1> HIDE DEF new
  <1>2. {k \in 1..(n + 1) : k >= n + 1} = {n + 1} BY <1>1
  <1>3. QED BY <1>1, <1>2 DEF relevant, new

\* Returns and lost epochs stay.
LEMMA LostAppend ==
  ASSUME NEW log \in Seq(Event), NEW e \in Event
  PROVE  /\ Returned(log) => Returned(Append(log, e))
         /\ Lost(log) => Lost(Append(log, e))
         /\ Returned(log) /\ e.type = "DEV_STARTED" => Lost(Append(log, e))
         /\ e.type \in NO_GO_EVENT_TYPES => Returned(Append(log, e))
  <1> DEFINE n == Len(log)
             new == Append(log, e)
  <1>1. /\ n \in Nat /\ Len(new) = n + 1 /\ new[n + 1] = e
        /\ \A i \in 1..n : new[i] = log[i]
    BY AppendProperties
  <1> HIDE DEF new
  <1>2. \A i \in 1..n : i \in 1..(n + 1) /\ i < n + 1 BY <1>1
  <1>3. n + 1 \in 1..(n + 1) BY <1>1
  <1>4. \A types : Positions(log, types) \subseteq Positions(new, types)
    BY <1>1, <1>2 DEF Positions
  <1>5. \A types : e.type \in types => n + 1 \in Positions(new, types)
    BY <1>1, <1>3 DEF Positions
  <1>6. \A types : \A i \in Positions(log, types) : i < n + 1 BY <1>2 DEF Positions
  <1>7. Returned(log) => Returned(new) BY <1>4 DEF Returned
  <1>8. Lost(log) => Lost(new) BY <1>4 DEF Lost
  <1>9. Returned(log) /\ e.type = "DEV_STARTED" => Lost(new)
    BY <1>4, <1>5, <1>6 DEF Returned, Lost
  <1>10. e.type \in NO_GO_EVENT_TYPES => Returned(new) BY <1>5 DEF Returned
  <1>11. QED BY <1>7, <1>8, <1>9, <1>10 DEF new

\* An event of no stage changes nothing.
LEMMA FactsOther ==
  ASSUME NEW R, NEW c, NEW w, NEW p, NEW t, t \notin Shown
  PROVE  /\ Facts(R, c) => Facts(R \cup {t}, c)
         /\ Passed(p, R, c) => Passed(p, R \cup {t}, c)
         /\ Open(R, w, c) => Open(R \cup {t}, w, c)
  BY DEF Facts, Passed, Open, Shown, Reviews

\* What is behind a process that is past step k.
Before(k, R, c) ==
  /\ k >= 2 => "DEV_COMPLETED" \in R
  /\ k >= 3 => "GATES_COMPLETED" \in R
  /\ k >= 4 => "TESTER_COMPLETED" \in R
  /\ k >= 5 => c.pushed = c.local
  /\ k >= 7 => "REVIEWER_COMPLETED" \in R

\* The loop over STEP_ORDER skips only what the epoch shows.
LEMMA StepPassed ==
  ASSUME NEW k \in 0..8, NEW log, NEW epoch, NEW c,
         Facts(relevant(log, epoch), c), Before(k, relevant(log, epoch), c)
  PROVE  Passed(step_after(k, log, epoch), relevant(log, epoch), c)
  <1> DEFINE p == step_after(k, log, epoch)
             R == relevant(log, epoch)
             done_steps == completed_steps(log, epoch)
  <1>1. /\ "DEV" \in done_steps <=> "DEV_COMPLETED" \in R
        /\ "GATES" \in done_steps <=> "GATES_COMPLETED" \in R
        /\ "TESTER" \in done_steps <=> "TESTER_COMPLETED" \in R
        /\ "PUSH" \in done_steps <=> "PR_OPENED" \in R
        /\ "REVIEWER" \in done_steps <=> "REVIEWER_COMPLETED" \in R
    BY Completed
  <1>2. CASE p = "return" BY <1>2 DEF Passed, FromTester, FromReviewer, FromMerge
  <1>3. ASSUME NEW l \in (k + 1)..8, p = STEP_ORDER[l], p \notin done_steps,
               \A m \in (k + 1)..(l - 1) : STEP_ORDER[m] \in done_steps
        PROVE  Passed(p, R, c)
    <2> HIDE DEF p, R, done_steps
    <2>1. /\ STEP_ORDER[1] = "BRANCH" /\ STEP_ORDER[2] = "DEV" /\ STEP_ORDER[3] = "GATES"
          /\ STEP_ORDER[4] = "TESTER" /\ STEP_ORDER[5] = "PUSH" /\ STEP_ORDER[6] = "PR_OPEN"
          /\ STEP_ORDER[7] = "REVIEWER" /\ STEP_ORDER[8] = "MERGE"
      BY DEF STEP_ORDER
    <2>2. l \in 1..8 /\ \A m \in 1..8 : m < l => m <= k \/ STEP_ORDER[m] \in done_steps
      BY <1>3
    <2>3. /\ l > 2 => "DEV_COMPLETED" \in R
          /\ l > 3 => "GATES_COMPLETED" \in R
          /\ l > 4 => "TESTER_COMPLETED" \in R
          /\ l > 7 => "REVIEWER_COMPLETED" \in R
      <3> USE DEF Before, R
      <3>1. l > 2 => "DEV_COMPLETED" \in R BY <1>1, <2>1, <2>2
      <3>2. l > 3 => "GATES_COMPLETED" \in R BY <1>1, <2>1, <2>2
      <3>3. l > 4 => "TESTER_COMPLETED" \in R BY <1>1, <2>1, <2>2
      <3>4. l > 7 => "REVIEWER_COMPLETED" \in R BY <1>1, <2>1, <2>2
      <3>5. QED BY <3>1, <3>2, <3>3, <3>4
    <2>4. l > 5 => c.pushed = c.local BY <1>1, <2>1, <2>2 DEF Before, R, Facts
    <2>5. \/ (l = 1 /\ p = "BRANCH") \/ (l = 2 /\ p = "DEV") \/ (l = 3 /\ p = "GATES")
          \/ (l = 4 /\ p = "TESTER") \/ (l = 5 /\ p = "PUSH") \/ (l = 6 /\ p = "PR_OPEN")
          \/ (l = 7 /\ p = "REVIEWER") \/ (l = 8 /\ p = "MERGE")
      BY <1>3, <2>1, <2>2
    <2>6. QED
      BY <1>1, <1>3, <2>3, <2>4, <2>5 DEF Passed, FromTester, FromReviewer, FromMerge
  <1>4. QED BY <1>2, <1>3, StepIs

LEMMA SameShown ==
  ASSUME NEW R, NEW S, R \cap Shown = S \cap Shown, NEW c, NEW w, NEW p
  PROVE  /\ Facts(R, c) => Facts(S, c)
         /\ Passed(p, R, c) => Passed(p, S, c)
         /\ Open(R, w, c) => Open(S, w, c)
  <1>1. /\ \A t \in Shown : t \in R <=> t \in S
        /\ {"DEV_COMPLETED", "GATES_COMPLETED", "TESTER_COMPLETED", "REVIEWER_COMPLETED",
            "PR_OPENED"} = Shown
        /\ Reviews \subseteq Shown
    BY DEF Shown, Reviews
  <1>2. Facts(R, c) => Facts(S, c) BY <1>1 DEF Facts
  <1>3. Passed(p, R, c) => Passed(p, S, c) BY <1>1 DEF Passed
  <1>4. Open(R, w, c) => Open(S, w, c) BY <1>1 DEF Open
  <1>5. QED BY <1>2, <1>3, <1>4

\* A stage is shown by the step that ends it.
LEMMA Grown ==
  ASSUME Typing, proc.epoch <= Len(journal), Step \/ crash_or_raise
  PROVE  /\ Since \subseteq SinceThen
         /\ "DEV_COMPLETED" \in SinceThen =>
              "DEV_COMPLETED" \in Since \/ proc.pc \in {"dev_journal", "dev_status", "in_test"}
         /\ "GATES_COMPLETED" \in SinceThen => "GATES_COMPLETED" \in Since \/ proc.pc = "GATES"
         /\ "TESTER_COMPLETED" \in SinceThen => "TESTER_COMPLETED" \in Since \/ proc.pc = "TESTER"
         /\ "REVIEWER_COMPLETED" \in SinceThen =>
              "REVIEWER_COMPLETED" \in Since \/ proc.pc = "REVIEWER"
         /\ "PR_OPENED" \in SinceThen => "PR_OPENED" \in Since \/ proc.pc = "pr_journal"
  <1>0. journal \in Seq(Event) /\ proc.epoch \in Nat /\ Len(journal) \in Nat BY DEF Typing, TypeOK
  <1>1. ~at("idle")
    BY DEF Step, crash_or_raise, at, claim, dev_started, assign_roles, branch,
       branch_journal, dev, dev_journal, dev_status, gates, tester, tester_status, push,
       pr_open, pr_journal, reviewer, reviewer_status, gate_merge, ensure_in_test,
       ensure_in_review, integrate, done, return, no_go, no_go_journal, no_go_status,
       blocked_status, blocked_journal, escalated
  <1>2. CASE journal' = journal BY <1>2 DEF Since, SinceThen
  <1>3. ASSUME NEW e \in Event, journal' = Append(journal, e), Written(e)
        PROVE  /\ SinceThen = Since \cup {e.type}
               /\ e.type = "DEV_COMPLETED" => proc.pc \in {"dev_journal", "dev_status", "in_test"}
               /\ e.type = "GATES_COMPLETED" => proc.pc = "GATES"
               /\ e.type = "TESTER_COMPLETED" => proc.pc = "TESTER"
               /\ e.type = "REVIEWER_COMPLETED" => proc.pc = "REVIEWER"
               /\ e.type = "PR_OPENED" => proc.pc = "pr_journal"
    <2>1. SinceThen = Since \cup {e.type} BY <1>0, <1>3, RelevantAppend DEF Since, SinceThen
    <2>2. QED BY <1>3, <2>1 DEF Written, at, dev_journal, dev_status, ensure_in_test, gates, tester,
            reviewer, pr_journal
  <1>4. Next BY DEF Next
  <1>5. QED BY <1>1, <1>2, <1>3, <1>4, JournalGrows DEF forge_resume, forge_revert

\* A step leads where what it leaves behind allows.
LEMMA LeadsOn ==
  ASSUME Typing, Next, proc.pc \notin Outside \cup {"no_go_journal"},
         Facts(SinceThen, code'),
         \A q : Edge(proc.pc, q) => Passed(q, SinceThen, code'),
         \A k \in 0..8 : Past(proc.pc, k) => Before(k, SinceThen, code'),
         Passed(proc.pc, SinceThen, code')
  PROVE  proc'.pc \notin Outside => Passed(proc'.pc, SinceThen, code')
  <1>1. CASE proc'.pc = "idle" BY <1>1 DEF Outside
  <1>2. CASE proc' = proc BY <1>2
  <1>3. CASE Edge(proc.pc, proc'.pc) BY <1>3
  <1>4. ASSUME NEW k \in 0..8, Past(proc.pc, k), proc'.pc = step_after(k, journal', proc.epoch)
        PROVE  Passed(proc'.pc, SinceThen, code')
    BY <1>4, StepPassed DEF SinceThen
  <1>5. Flow BY ControlFlow
  <1>6. QED BY <1>1, <1>2, <1>3, <1>4, <1>5 DEF Flow

\* The steps that leave the code alone, and show no stage that was not shown.
LEMMA QuietKept ==
  ASSUME Typing, proc.epoch <= Len(journal), InHand, UNCHANGED code,
         Step \/ crash_or_raise,
         proc.pc \notin Outside \cup
           {"DEV", "dev_journal", "GATES", "TESTER", "PUSH", "pr_journal", "REVIEWER", "integrate",
            "no_go_journal", "no_go_status"},
         world'.pr = world.pr \/ proc.pc = "PR_OPEN"
  PROVE  Kept
  <1>1. SinceThen \cap Shown = Since \cap Shown
    BY Grown DEF InHand, Passed, Shown, Reviews, FromTester, FromReviewer, FromMerge
  <1>2. Facts(SinceThen, code') /\ Passed(proc.pc, SinceThen, code')
    BY <1>1, SameShown DEF InHand
  <1>3. Open(Since, world, code) => Open(SinceThen, world', code')
    <2>1. Open(Since, world, code) => Open(SinceThen, world, code) BY <1>1, SameShown
    <2>2. CASE world'.pr = world.pr BY <2>1, <2>2 DEF Open
    <2>3. CASE proc.pc = "PR_OPEN"
      BY <1>2, <2>3 DEF Passed, Open, FromTester, FromReviewer, FromMerge
    <2>4. QED BY <2>2, <2>3
  <1>4. ASSUME NEW q, Edge(proc.pc, q) PROVE Passed(q, SinceThen, code')
    BY <1>2, <1>4 DEF Edge, Passed, Outside, FromTester, FromReviewer, FromMerge
  <1>5. ASSUME NEW k \in 0..8, Past(proc.pc, k) PROVE Before(k, SinceThen, code')
    BY <1>2, <1>5 DEF Past, Before, Passed, FromTester, FromReviewer, FromMerge
  <1>6. Next BY DEF Next
  <1>7. QED BY <1>2, <1>3, <1>4, <1>5, <1>6, LeadsOn DEF Kept, InHand

\* The steps that journal an event of the stage they end.
LEMMA Marked ==
  ASSUME Typing, proc.epoch <= Len(journal), NEW t, NEW who, Ev(t, who) \in Event, record(t, who)
  PROVE  SinceThen = Since \cup {t}
  <1>1. journal \in Seq(Event) /\ proc.epoch \in Nat /\ Len(journal) \in Nat
    BY DEF Typing, TypeOK
  <1>2. Ev(t, who).type = t BY DEF Ev
  <1>3. QED BY <1>1, <1>2, RelevantAppend DEF Since, SinceThen, record

\* A development pass: nothing of the epoch shows one yet.
LEMMA DevKept ==
  ASSUME Typing, proc.epoch <= Len(journal), InHand, dev \/ dev_journal
  PROVE  Kept
  <1>1. CASE dev
    <2>1. proc.pc = "DEV" /\ SinceThen = Since /\ world' = world
      BY <1>1 DEF dev, at, Since, SinceThen
    <2>2. Since \cap Shown = {} BY <2>1 DEF InHand, Passed, Facts
    <2>3. code.merged = 0 BY <2>2 DEF InHand, Facts, Shown, Reviews
    <2>4. code'.merged = 0
      <3>1. code \in [{"local", "pushed", "gated", "tested", "reviewed", "merged", "stray"} -> Nat]
        BY DEF Typing, TypeOK
      <3>2. QED BY <1>1, <2>3, <3>1 DEF dev
    <2>5. proc'.pc \in {"dev_journal", "idle"}
      <3>1. goto("dev_journal") \/ finish("error") BY <1>1 DEF dev
      <3>2. QED BY <3>1 DEF goto, finish, Typing, TypeOK
    <2>6. Facts(SinceThen, code') /\ Seen(code')
      BY <2>1, <2>2, <2>4 DEF Facts, Seen, Shown, Reviews
    <2>7. Passed("dev_journal", SinceThen, code')
      BY DEF Passed, FromTester, FromReviewer, FromMerge
    <2>8. Open(Since, world, code) => world.pr # "open"
      BY <2>2 DEF Open, Shown, Reviews
    <2>9. QED BY <2>1, <2>5, <2>6, <2>7, <2>8 DEF Kept, Outside, Open
  <1>2. CASE dev_journal
    <2>1. SinceThen = Since \cup {"DEV_COMPLETED"} BY <1>2, Marked, EventTypes DEF dev_journal
    <2>2. code' = code /\ world' = world BY <1>2 DEF dev_journal
    <2>3. proc'.pc = "dev_status" BY <1>2 DEF dev_journal, goto, Typing, TypeOK
    <2>4. Facts(SinceThen, code') /\ Seen(code')
      BY <2>1, <2>2 DEF InHand, Facts
    <2>5. Passed("dev_status", SinceThen, code')
      BY <2>1 DEF Passed, FromTester, FromReviewer, FromMerge
    <2>6. Open(Since, world, code) => Open(SinceThen, world', code')
      BY <2>1, <2>2 DEF Open
    <2>7. QED BY <2>3, <2>4, <2>5, <2>6 DEF Kept
  <1>3. QED BY <1>1, <1>2

\* A step that only ends the process.
LEMMA EndKept ==
  ASSUME InHand, UNCHANGED <<journal, world, code>>, NEW x, finish(x)
  PROVE  Kept
  <1>1. SinceThen = Since /\ proc'.pc = "idle" BY DEF Since, SinceThen, finish
  <1>2. QED BY <1>1 DEF Kept, InHand, Outside

\* The process goes on past step k.
LEMMA AdvancedPassed ==
  ASSUME Typing, NEW k \in 0..8, advance(k),
         Facts(SinceThen, code'), Before(k, SinceThen, code')
  PROVE  Passed(proc'.pc, SinceThen, code')
  <1> DEFINE q == step_after(k, journal', proc.epoch)
  <1>1. proc' = [proc EXCEPT !.pc = q] BY DEF advance, goto
  <1>2. proc'.pc = q
    <2> HIDE DEF q
    <2> QED BY <1>1 DEF Typing, TypeOK
  <1>3. QED BY <1>2, StepPassed DEF SinceThen

LEMMA GatesKept ==
  ASSUME Typing, proc.epoch <= Len(journal), InHand, gates
  PROVE  Kept
  <1>1. CASE UNCHANGED <<journal, code>> /\ finish("error")
    BY <1>1, EndKept DEF gates
  <1>2. CASE /\ code' = [code EXCEPT !.gated = code.local]
             /\ record("GATES_COMPLETED", "executor")
             /\ advance(3)
    <2>1. SinceThen = Since \cup {"GATES_COMPLETED"} BY <1>2, Marked, EventTypes
    <2>2. /\ code'.gated = code.local /\ code'.local = code.local /\ code'.merged = code.merged
          /\ code'.tested = code.tested /\ code'.reviewed = code.reviewed
          /\ code'.pushed = code.pushed
      BY <1>2 DEF Typing, TypeOK
    <2>3. "DEV_COMPLETED" \in Since BY DEF InHand, Passed, gates, at
    <2>4. Facts(SinceThen, code') BY <2>1, <2>2, <2>3 DEF InHand, Facts
    <2>5. Seen(code') BY <2>2 DEF InHand, Seen
    <2>6. Before(3, SinceThen, code') BY <2>1, <2>3 DEF Before
    <2>7. Passed(proc'.pc, SinceThen, code')
      <3>1. 3 \in 0..8 OBVIOUS
      <3>2. QED BY <1>2, <2>4, <2>6, <3>1, AdvancedPassed
    <2>8. Open(Since, world, code) => Open(SinceThen, world', code')
      BY <2>1, <2>2 DEF Open, gates
    <2>9. QED BY <2>4, <2>5, <2>7, <2>8 DEF Kept
  <1>3. QED BY <1>1, <1>2 DEF gates

LEMMA TesterKept ==
  ASSUME Typing, proc.epoch <= Len(journal), InHand, tester
  PROVE  Kept
  <1>0. /\ "DEV_COMPLETED" \in Since /\ "GATES_COMPLETED" \in Since
        /\ "TESTER_COMPLETED" \notin Since /\ code.merged = 0
    <2>1. /\ "DEV_COMPLETED" \in Since /\ "GATES_COMPLETED" \in Since
          /\ "TESTER_COMPLETED" \notin Since
      BY DEF InHand, Passed, tester, at
    <2>2. QED BY <2>1 DEF InHand, Facts, Reviews
  <1>1. CASE UNCHANGED <<journal, code>> /\ finish("error")
    BY <1>1, EndKept DEF tester
  <1>2. CASE UNCHANGED <<journal, code>> /\ goto("no_go")
    <2>1. SinceThen = Since /\ code' = code /\ world' = world
      BY <1>2 DEF Since, SinceThen, tester
    <2>2. proc'.pc = "no_go" BY <1>2 DEF goto, Typing, TypeOK
    <2>3. Passed("no_go", SinceThen, code')
      BY <1>0, <2>1 DEF Passed, FromTester, FromReviewer, FromMerge
    <2>4. QED BY <2>1, <2>2, <2>3 DEF Kept, InHand
  <1>3. CASE /\ code' = [code EXCEPT !.tested = code.local]
             /\ record("TESTER_COMPLETED", "executor")
             /\ goto("tester_status")
    <2>1. SinceThen = Since \cup {"TESTER_COMPLETED"} BY <1>3, Marked, EventTypes
    <2>2. /\ code'.tested = code.local /\ code'.local = code.local /\ code'.merged = code.merged
          /\ code'.gated = code.gated /\ code'.reviewed = code.reviewed
          /\ code'.pushed = code.pushed
      BY <1>3 DEF Typing, TypeOK
    <2>3. proc'.pc = "tester_status" BY <1>3 DEF goto, Typing, TypeOK
    <2>4. Facts(SinceThen, code') BY <1>0, <2>1, <2>2 DEF InHand, Facts
    <2>5. Seen(code') BY <1>0, <2>2 DEF Seen
    <2>6. Passed("tester_status", SinceThen, code')
      BY <1>0, <2>1 DEF Passed, FromTester, FromReviewer, FromMerge
    <2>7. Open(Since, world, code) => Open(SinceThen, world', code')
      BY <2>1, <2>2 DEF Open, tester
    <2>8. QED BY <2>3, <2>4, <2>5, <2>6, <2>7 DEF Kept
  <1>4. QED BY <1>1, <1>2, <1>3 DEF tester, refused

LEMMA PushKept ==
  ASSUME Typing, proc.epoch <= Len(journal), InHand, push
  PROVE  Kept
  <1>1. SinceThen = Since /\ world' = world BY DEF push, Since, SinceThen
  <1>2. /\ code'.pushed = code.local /\ code'.local = code.local /\ code'.merged = code.merged
        /\ code'.gated = code.gated /\ code'.reviewed = code.reviewed
        /\ code'.tested = code.tested
    BY DEF push, Typing, TypeOK
  <1>3. /\ "DEV_COMPLETED" \in Since /\ "GATES_COMPLETED" \in Since
        /\ "TESTER_COMPLETED" \in Since
    BY DEF InHand, Passed, push, at, FromTester
  <1>4. Facts(SinceThen, code') BY <1>1, <1>2 DEF InHand, Facts
  <1>5. Seen(code') BY <1>2 DEF InHand, Seen
  <1>6. Before(5, SinceThen, code') BY <1>1, <1>2, <1>3 DEF Before
  <1>7. Passed(proc'.pc, SinceThen, code')
    <2>1. 5 \in 0..8 /\ advance(5) BY DEF push
    <2>2. QED BY <1>4, <1>6, <2>1, AdvancedPassed
  <1>8. Open(Since, world, code) => Open(SinceThen, world', code')
    BY <1>1, <1>2, <1>3 DEF Open
  <1>9. QED BY <1>4, <1>5, <1>7, <1>8 DEF Kept

LEMMA PrKept ==
  ASSUME Typing, proc.epoch <= Len(journal), InHand, pr_journal
  PROVE  Kept
  <1>1. SinceThen = Since \cup {"PR_OPENED"} BY Marked, EventTypes DEF pr_journal
  <1>2. code' = code /\ world' = world BY DEF pr_journal
  <1>3. /\ "DEV_COMPLETED" \in Since /\ "GATES_COMPLETED" \in Since
        /\ "TESTER_COMPLETED" \in Since /\ code.pushed = code.local
    BY DEF InHand, Passed, pr_journal, at, FromTester, FromReviewer
  <1>4. Facts(SinceThen, code') /\ Seen(code') BY <1>1, <1>2, <1>3 DEF InHand, Facts, Reviews
  <1>5. Before(6, SinceThen, code') BY <1>1, <1>2, <1>3 DEF Before
  <1>6. Passed(proc'.pc, SinceThen, code')
    <2>1. 6 \in 0..8 /\ advance(6) BY DEF pr_journal
    <2>2. QED BY <1>4, <1>5, <2>1, AdvancedPassed
  <1>7. Open(Since, world, code) => Open(SinceThen, world', code') BY <1>1, <1>2 DEF Open
  <1>8. QED BY <1>4, <1>6, <1>7 DEF Kept

\* The reviewer sees what was pushed, which is the last pass.
LEMMA ReviewerKept ==
  ASSUME Typing, proc.epoch <= Len(journal), InHand, reviewer
  PROVE  Kept
  <1>0. /\ "DEV_COMPLETED" \in Since /\ "GATES_COMPLETED" \in Since
        /\ "TESTER_COMPLETED" \in Since /\ "REVIEWER_COMPLETED" \notin Since
        /\ code.pushed = code.local /\ code.merged = 0
    <2>1. /\ "DEV_COMPLETED" \in Since /\ "GATES_COMPLETED" \in Since
          /\ "TESTER_COMPLETED" \in Since /\ "REVIEWER_COMPLETED" \notin Since
          /\ code.pushed = code.local
      BY DEF InHand, Passed, reviewer, at, FromTester, FromReviewer
    <2>2. QED BY <2>1 DEF InHand, Facts, Reviews
  <1>1. CASE UNCHANGED <<journal, code>> /\ finish("error")
    BY <1>1, EndKept DEF reviewer
  <1>2. CASE UNCHANGED <<journal, code>> /\ goto("no_go")
    <2>1. SinceThen = Since /\ code' = code /\ world' = world
      BY <1>2 DEF Since, SinceThen, reviewer
    <2>2. proc'.pc = "no_go" BY <1>2 DEF goto, Typing, TypeOK
    <2>3. Passed("no_go", SinceThen, code')
      BY <1>0, <2>1 DEF Passed, FromTester, FromReviewer, FromMerge
    <2>4. QED BY <2>1, <2>2, <2>3 DEF Kept, InHand
  <1>3. CASE /\ code' = [code EXCEPT !.reviewed = code.pushed]
             /\ record("REVIEWER_COMPLETED", "executor")
             /\ goto("reviewer_status")
    <2>1. SinceThen = Since \cup {"REVIEWER_COMPLETED"} BY <1>3, Marked, EventTypes
    <2>2. /\ code'.reviewed = code.local /\ code'.local = code.local /\ code'.merged = code.merged
          /\ code'.gated = code.gated /\ code'.tested = code.tested
          /\ code'.pushed = code.pushed
      BY <1>0, <1>3 DEF Typing, TypeOK
    <2>3. proc'.pc = "reviewer_status" BY <1>3 DEF goto, Typing, TypeOK
    <2>4. Facts(SinceThen, code') BY <1>0, <2>1, <2>2 DEF InHand, Facts
    <2>5. Seen(code') BY <1>0, <2>2 DEF Seen
    <2>6. Passed("reviewer_status", SinceThen, code')
      BY <1>0, <2>1, <2>2 DEF Passed, FromTester, FromReviewer, FromMerge
    <2>7. Open(Since, world, code) => Open(SinceThen, world', code')
      BY <2>1, <2>2 DEF Open, reviewer
    <2>8. QED BY <2>3, <2>4, <2>5, <2>6, <2>7 DEF Kept
  <1>4. QED BY <1>1, <1>2, <1>3 DEF reviewer, refused

\* The merge of what every stage has seen.
LEMMA IntegrateKept ==
  ASSUME Typing, InHand, integrate
  PROVE  Kept
  <1>0. code \in [{"local", "pushed", "gated", "tested", "reviewed", "merged", "stray"} -> Nat]
        /\ proc \in [pc : Point, epoch : Nat]
        /\ world \in [branch : BOOLEAN, pr : {"none", "open", "merged"}, issues : Nat]
    BY DEF Typing, TypeOK
  <1>1. SinceThen = Since BY DEF integrate, Since, SinceThen
  <1>2. /\ "DEV_COMPLETED" \in Since /\ "GATES_COMPLETED" \in Since
        /\ "TESTER_COMPLETED" \in Since /\ "REVIEWER_COMPLETED" \in Since
        /\ code.pushed = code.local
    BY DEF InHand, Passed, integrate, at, FromTester, FromReviewer, FromMerge
  <1>3. /\ code.gated = code.local /\ code.tested = code.local /\ code.reviewed = code.local
    BY <1>2 DEF InHand, Facts
  <1>4. code' = code \/ code' = [code EXCEPT !.merged = code.pushed] BY DEF integrate
  <1>5. /\ code'.local = code.local /\ code'.gated = code.gated /\ code'.tested = code.tested
        /\ code'.reviewed = code.reviewed /\ code'.pushed = code.pushed
        /\ code'.merged = code.merged \/ code'.merged = code.local
    BY <1>0, <1>2, <1>4
  <1>6. Facts(SinceThen, code') BY <1>1, <1>2, <1>3, <1>5 DEF Facts, InHand, Reviews
  <1>7. Seen(code') BY <1>3, <1>5 DEF Seen, InHand
  <1>8. proc'.pc = "done" BY <1>0 DEF integrate, goto
  <1>9. Passed("done", SinceThen, code')
    BY <1>1, <1>2, <1>5 DEF Passed, FromTester, FromReviewer, FromMerge
  <1>10. world'.pr = "merged"
    <2>1. world' = [world EXCEPT !.pr = "merged", !.branch = FALSE] BY DEF integrate
    <2>2. QED BY <1>0, <2>1
  <1>11. QED BY <1>6, <1>7, <1>8, <1>9, <1>10 DEF Kept, Open

\* Every step of a process at work, but those of a correction.
LEMMA CycleKept ==
  ASSUME Typing, proc.epoch <= Len(journal), InHand, Step \/ crash_or_raise,
         proc.pc \notin Outside \cup {"no_go_journal", "no_go_status"}
  PROVE  Kept
  <1>1. CASE \/ dev \/ dev_journal \/ gates \/ tester \/ push \/ pr_journal \/ reviewer \/ integrate
    BY <1>1, DevKept, GatesKept, TesterKept, PushKept, PrKept, ReviewerKept, IntegrateKept
  <1>2. CASE crash_or_raise BY <1>2, EndKept DEF crash_or_raise
  <1>3. CASE \/ assign_roles \/ branch \/ branch_journal \/ dev_status \/ tester_status \/ pr_open
             \/ reviewer_status \/ gate_merge \/ ensure_in_test \/ ensure_in_review \/ done
             \/ return \/ no_go \/ blocked_status \/ blocked_journal \/ escalated
    <2>1. UNCHANGED code
      BY <1>3 DEF assign_roles, branch, branch_journal, dev_status, tester_status, pr_open,
         reviewer_status, gate_merge, ensure_in_test, ensure_in_review, done, return, no_go,
         blocked_status, blocked_journal, escalated
    <2>2. world'.pr = world.pr \/ proc.pc = "PR_OPEN"
      BY <1>3 DEF Typing, TypeOK, at, assign_roles, branch, branch_journal, dev_status,
         tester_status, pr_open, reviewer_status, gate_merge, ensure_in_test, ensure_in_review,
         done, return, no_go, blocked_status, blocked_journal, escalated
    <2>3. proc.pc \notin {"DEV", "dev_journal", "GATES", "TESTER", "PUSH", "pr_journal",
                          "REVIEWER", "integrate"}
      BY <1>3 DEF at, assign_roles, branch, branch_journal, dev_status, tester_status, pr_open,
         reviewer_status, gate_merge, ensure_in_test, ensure_in_review, done, return, no_go,
         blocked_status, blocked_journal, escalated
    <2>4. QED BY <2>1, <2>2, <2>3, QuietKept
  <1>4. ~claim /\ ~dev_started /\ ~no_go_journal /\ ~no_go_status
    BY DEF claim, dev_started, no_go_journal, no_go_status, at, Outside
  <1>5. QED BY <1>1, <1>2, <1>3, <1>4 DEF Step

\* The journal only grows, so that returns and lost epochs stay.
LEMMA GrowsOnly ==
  ASSUME Typing, Next
  PROVE  /\ Len(journal) <= Len(journal')
         /\ Returned(journal) => Returned(journal')
         /\ Lost(journal) => Lost(journal')
  <1>0. TypeOK /\ journal \in Seq(Event) /\ Len(journal) \in Nat BY DEF Typing, TypeOK
  <1> DEFINE Longer(l, m) == /\ Len(l) <= Len(m)
                             /\ Returned(l) => Returned(m)
                             /\ Lost(l) => Lost(m)
  <1>1. ASSUME NEW l \in Seq(Event), NEW e \in Event
        PROVE  Append(l, e) \in Seq(Event) /\ Longer(l, Append(l, e))
    <2>1. Append(l, e) \in Seq(Event) /\ Len(Append(l, e)) = Len(l) + 1 /\ Len(l) \in Nat
      BY AppendProperties
    <2>2. QED BY <2>1, LostAppend
  <1>2. ASSUME NEW l \in Seq(Event), NEW m \in Seq(Event), NEW n \in Seq(Event),
               Longer(l, m), Longer(m, n)
        PROVE  Longer(l, n)
    <2>1. Len(l) \in Nat /\ Len(m) \in Nat /\ Len(n) \in Nat OBVIOUS
    <2>2. QED BY <1>2, <2>1
  <1>3. \A l \in Seq(Event) : Longer(l, l)
    <2>1. \A l \in Seq(Event) : Len(l) \in Nat OBVIOUS
    <2>2. QED BY <2>1
  <1> SUFFICES Longer(journal, journal') OBVIOUS
  <1> HIDE DEF Longer
  <1>4. CASE journal' = journal BY <1>0, <1>3, <1>4
  <1>5. ASSUME NEW e \in Event, journal' = Append(journal, e) PROVE Longer(journal, journal')
    BY <1>0, <1>1, <1>5
  <1>6. ASSUME NEW pr_seen \in BOOLEAN, forge_resume(pr_seen) PROVE Longer(journal, journal')
    <2>1. Ev("WORKTREE_CREATED", "recovery") \in Event /\ Ev("PR_OPENED", "recovery") \in Event
          /\ Ev("RESUMED", "cli") \in Event
      BY EventTypes
    <2>2. PICK l, m \in Seq(Event) :
            /\ l = journal \/ l = Append(journal, Ev("WORKTREE_CREATED", "recovery"))
            /\ m = l \/ m = Append(l, Ev("PR_OPENED", "recovery"))
            /\ journal' = m \/ journal' = Append(m, Ev("RESUMED", "cli"))
      BY <1>0, <1>6, ResumeAppends
    <2>3. Longer(journal, l) BY <1>0, <1>1, <1>3, <2>1, <2>2
    <2>4. Longer(l, m) BY <1>1, <1>3, <2>1, <2>2
    <2>5. Longer(m, journal') /\ journal' \in Seq(Event) BY <1>1, <1>3, <2>1, <2>2
    <2>6. Longer(journal, m) BY <1>0, <1>2, <2>2, <2>3, <2>4
    <2>7. QED BY <1>0, <1>2, <2>2, <2>5, <2>6
  <1>7. ASSUME NEW target \in {"TODO", "BLOCKED"}, forge_revert(target)
        PROVE  Longer(journal, journal')
    <2>1. Ev("ROLLED_BACK", "machine") \in Event /\ Ev("ROLLED_BACK", "cli") \in Event
      BY EventTypes
    <2>2. PICK l \in Seq(Event) : /\ l = Append(journal, Ev("ROLLED_BACK", "machine"))
                                  /\ journal' = Append(l, Ev("ROLLED_BACK", "cli"))
      BY <1>0, <1>7, RevertAppends
    <2>3. Longer(journal, l) BY <1>0, <1>1, <2>1, <2>2
    <2>4. Longer(l, journal') /\ journal' \in Seq(Event) BY <1>1, <2>1, <2>2
    <2>5. QED BY <1>0, <1>2, <2>3, <2>4
  <1>8. QED BY <1>4, <1>5, <1>6, <1>7, JournalGrows

LEMMA EpochNext == ASSUME Typing, EpochInv, Next PROVE EpochInv'
  <1>1. /\ journal' \in Seq(Event) /\ Len(journal) \in Nat /\ Len(journal') \in Nat
        /\ proc.epoch \in Nat /\ Len(journal) <= Len(journal')
    <2>1. Typing' BY TypingNext
    <2>2. journal' \in Seq(Event) BY <2>1 DEF Typing, TypeOK
    <2>3. QED BY <2>2, GrowsOnly DEF Typing, TypeOK
  <1>2. CASE proc' = proc BY <1>1, <1>2 DEF EpochInv
  <1>3. CASE proc'.pc = "idle" /\ proc'.epoch = 0 BY <1>1, <1>3 DEF EpochInv
  <1>4. CASE Edge(proc.pc, proc'.pc) /\ proc'.epoch = proc.epoch
    <2>1. proc'.pc \in Outside => proc.pc \in Outside BY <1>4 DEF Edge, Outside
    <2>2. QED BY <1>1, <1>4, <2>1 DEF EpochInv
  <1>5. ASSUME NEW k \in 0..8, proc'.epoch = proc.epoch,
               proc'.pc = step_after(k, journal', proc.epoch)
        PROVE  EpochInv'
    <2>1. proc'.pc \notin Outside BY <1>5, NextStep DEF CycleSteps, Outside
    <2>2. QED BY <1>1, <1>5, <2>1 DEF EpochInv
  <1>6. CASE no_go_journal
    <2>1. proc' = [pc |-> "no_go_status", epoch |-> Len(journal')] BY <1>6 DEF no_go_journal
    <2>2. QED BY <1>1, <2>1 DEF EpochInv, Outside
  <1>7. CASE proc.pc = "no_go_journal" /\ ~no_go_journal
    <2>1. proc' = proc \/ (proc'.pc = "idle" /\ proc'.epoch = 0)
      <3>1. CASE Step
        BY <1>7, <3>1 DEF Step, at, claim, dev_started, assign_roles, branch,
           branch_journal, dev, dev_journal, dev_status, gates, tester, tester_status, push,
           pr_open, pr_journal, reviewer, reviewer_status, gate_merge, ensure_in_test,
           ensure_in_review, integrate, done, return, no_go, no_go_status,
           blocked_status, blocked_journal, escalated
      <3>2. CASE ~Step
        BY <1>7, <3>2 DEF Next, Operator, run_bl, forge_resume, forge_approve, forge_revert,
           crash_or_raise, stop_run_for_exhaustion, finish, at
      <3>3. QED BY <3>1, <3>2
    <2>2. QED BY <1>2, <1>3, <2>1
  <1>8. QED BY <1>2, <1>3, <1>4, <1>5, <1>6, <1>7, ControlFlow DEF Flow

\* The correction: a new epoch, that shows nothing yet.
LEMMA CorrectionKept ==
  ASSUME Typing, EpochInv, InHand, ~Returned(journal) => FirstCycle,
         no_go_journal \/ no_go_status
  PROVE  /\ Seen(code)'
         /\ ~Returned(journal') => FirstCycle'
         /\ proc'.pc \notin Outside => InHand'
  <1>0. journal \in Seq(Event) /\ proc.epoch \in Nat /\ Len(journal) \in Nat /\ 0 <= Len(journal) + 1
        /\ code' = code /\ world' = world /\ 0 \in Nat
    BY DEF Typing, TypeOK, no_go_journal, no_go_status
  <1>1. CASE no_go_journal
    <2> DEFINE e == Ev("ISSUE_OPENED", "executor")
    <2>1. e \in Event /\ e.type = "ISSUE_OPENED" BY EventTypes DEF Ev
    <2>2. journal' = Append(journal, e) BY <1>1 DEF no_go_journal, record
    <2> HIDE DEF e
    <2>3. proc'.pc = "no_go_status" /\ proc'.epoch = Len(journal')
      BY <1>1 DEF no_go_journal
    <2>4. relevant(journal', Len(journal')) = {"ISSUE_OPENED"} BY <1>0, <2>1, <2>2, RelevantLast
    <2>5. code.merged = 0 BY <1>1 DEF InHand, Passed, no_go_journal, at
    <2>6. InHand'
      <3>1. Since' = {"ISSUE_OPENED"} BY <2>3, <2>4 DEF Since
      <3>2. Facts({"ISSUE_OPENED"}, code) BY <2>5 DEF Facts, Shown, Reviews
      <3>3. Passed("no_go_status", {"ISSUE_OPENED"}, code)
        BY <2>5 DEF Passed, Shown, Reviews, FromTester, FromReviewer, FromMerge
      <3>4. QED BY <1>0, <2>3, <2>5, <3>1, <3>2, <3>3 DEF InHand, Seen
    <2>7. ~Returned(journal') => FirstCycle'
      <3> SUFFICES ASSUME ~Returned(journal') PROVE FirstCycle' OBVIOUS
      <3>1. FirstCycle BY <1>0, <2>1, <2>2, LostAppend
      <3>2. relevant(journal', 0) = relevant(journal, 0) \cup {"ISSUE_OPENED"}
        BY <1>0, <2>1, <2>2, RelevantAppend
      <3>3. "ISSUE_OPENED" \notin Shown BY DEF Shown, Reviews
      <3>4. Facts(relevant(journal', 0), code) /\ Open(relevant(journal', 0), world, code)
        BY <3>1, <3>2, <3>3, FactsOther DEF FirstCycle
      <3>5. QED BY <1>0, <2>3, <3>4 DEF FirstCycle
    <2>8. QED BY <1>0, <2>6, <2>7 DEF InHand, Seen
  <1>2. CASE no_go_status /\ ~can_transition(status, NoGo)
    <2>1. proc'.pc = "idle" /\ journal' = journal
      BY <1>2 DEF no_go_status, transition, finish
    <2>2. FirstCycle => FirstCycle' BY <1>0, <2>1 DEF FirstCycle, Outside
    <2>3. QED BY <1>0, <2>1, <2>2 DEF Outside, InHand, Seen
  <1>3. CASE no_go_status /\ can_transition(status, NoGo)
    <2> DEFINE t == event_type_for_transition(status, NoGo)
               q == step_after(0, journal', proc.epoch)
    <2>1. can_transition(status, NoGo) /\ record(t, "machine") /\ goto(q)
      BY <1>3 DEF no_go_status, transition
    <2>2. /\ NoGo.target = "IN_PROGRESS" /\ NoGo.no_go = TRUE /\ NoGo.privileged_reopen = FALSE
          /\ status \in Status
      BY <1>3 DEF NoGo, Typing, no_go_status, at
    <2>3. t \in NO_GO_EVENT_TYPES
      BY <2>1, <2>2 DEF event_type_for_transition, NO_GO_SOURCES, NO_GO_EVENT_TYPES, can_transition
    <2>4. Ev(t, "machine") \in Event /\ Ev(t, "machine").type = t
      BY <2>2, EventTypes, Requests DEF Ev
    <2> HIDE DEF t
    <2>5. Returned(journal') BY <1>0, <2>1, <2>3, <2>4, LostAppend DEF record
    <2>6. SinceThen = Since \cup {t} BY <2>1, <2>4, Marked DEF EpochInv
    <2>7. code.merged = 0 /\ Since \cap Shown = {} BY <1>3 DEF InHand, Passed, no_go_status, at
    <2>8. SinceThen \cap Shown = {}
      BY <2>3, <2>6, <2>7 DEF Shown, Reviews, NO_GO_EVENT_TYPES
    <2>9. Facts(SinceThen, code') /\ Seen(code')
      BY <1>0, <2>7, <2>8 DEF Facts, Shown, Reviews, Seen
    <2>10. Passed(proc'.pc, SinceThen, code')
      <3>1. 0 \in 0..8 /\ advance(0) BY <2>1 DEF advance
      <3>2. Before(0, SinceThen, code') BY DEF Before
      <3>3. QED BY <2>9, <3>1, <3>2, AdvancedPassed
    <2>11. Since' = SinceThen
      <3>1. proc' = [proc EXCEPT !.pc = q] BY <2>1 DEF goto
      <3>2. proc'.epoch = proc.epoch
        <4> HIDE DEF q
        <4> QED BY <3>1 DEF Typing, TypeOK
      <3>3. QED BY <3>2 DEF Since, SinceThen
    <2>12. QED BY <2>5, <2>9, <2>10, <2>11 DEF InHand
  <1>4. QED BY <1>1, <1>2, <1>3

\* What happens outside the cycle leaves the code alone, and shows at most a pull
\* request that recovery adopts.
LEMMA AsideKept ==
  ASSUME Typing, EpochInv, UNCHANGED <<world, code>>, Seen(code),
         ~Returned(journal) => FirstCycle, Returned(journal) => Returned(journal'),
         proc.pc \notin Outside => InHand,
         NEW R \in SUBSET {"WORKTREE_CREATED", "PR_OPENED", "RESUMED", "ROLLED_BACK", "RUN_STOPPED"},
         \A epoch \in Nat : epoch <= Len(journal) => relevant(journal', epoch) = relevant(journal, epoch) \cup R,
         "PR_OPENED" \in R => world.pr = "open" /\ at("idle"),
         proc' = proc \/ (proc.pc \in Outside /\ proc'.pc \in Outside)
  PROVE  /\ Seen(code)'
         /\ ~Returned(journal') => FirstCycle'
         /\ proc'.pc \notin Outside => InHand'
  <1>0. 0 \in Nat /\ proc.epoch \in Nat /\ Len(journal) \in Nat /\ 0 <= Len(journal)
        /\ proc.epoch <= Len(journal)
    BY DEF Typing, TypeOK, EpochInv
  <1>1. ASSUME NEW S, Facts(S, code), "PR_OPENED" \notin R
        PROVE  /\ Facts(S \cup R, code)
               /\ Open(S, world, code) => Open(S \cup R, world, code)
               /\ \A p : Passed(p, S, code) => Passed(p, S \cup R, code)
    <2>1. S \cap Shown = (S \cup R) \cap Shown BY <1>1 DEF Shown, Reviews
    <2>2. QED BY <1>1, <2>1, SameShown
  <1>2. ~Returned(journal') => FirstCycle'
    <2> SUFFICES ASSUME ~Returned(journal') PROVE FirstCycle' OBVIOUS
    <2>1. FirstCycle OBVIOUS
    <2> DEFINE S == relevant(journal, 0)
    <2>2. relevant(journal', 0) = S \cup R BY <1>0
    <2>3. Facts(S, code) /\ Open(S, world, code) BY <2>1 DEF FirstCycle
    <2> HIDE DEF S
    <2>4. Facts(S \cup R, code) /\ Open(S \cup R, world, code)
      <3>1. CASE "PR_OPENED" \notin R BY <1>1, <2>3, <3>1
      <3>2. CASE "PR_OPENED" \in R
        <4>1. code.pushed = code.local /\ "DEV_COMPLETED" \in S BY <2>3, <3>2 DEF Open
        <4>2. Facts(S \cup R, code) BY <2>3, <4>1 DEF Facts, Reviews
        <4>3. QED BY <4>1, <4>2 DEF Open
      <3>3. QED BY <3>1, <3>2
    <2>5. proc'.pc \notin Outside \cup {"no_go_status"} => proc'.epoch = 0
      BY <2>1 DEF FirstCycle
    <2>6. QED BY <2>2, <2>4, <2>5 DEF FirstCycle
  <1>3. ASSUME proc'.pc \notin Outside PROVE InHand'
    <2>1. proc' = proc /\ proc.pc \notin Outside BY <1>3
    <2>2. "PR_OPENED" \notin R BY <2>1 DEF at, Outside
    <2>3. Since' = Since \cup R BY <1>0, <2>1 DEF Since
    <2>4. InHand BY <2>1
    <2>5. QED BY <1>1, <2>1, <2>2, <2>3, <2>4 DEF InHand
  <1>4. QED BY <1>2, <1>3

LEMMA RelevantSame ==
  ASSUME NEW l \in Seq(Event), NEW e \in Event, NEW epoch \in Nat, epoch <= Len(l)
  PROVE  /\ Append(l, e) \in Seq(Event) /\ epoch <= Len(Append(l, e))
         /\ relevant(Append(l, e), epoch) = relevant(l, epoch) \cup {e.type}
  <1>1. Append(l, e) \in Seq(Event) /\ Len(Append(l, e)) = Len(l) + 1 /\ Len(l) \in Nat
    BY AppendProperties
  <1>2. QED BY <1>1, RelevantAppend

\* What an operator does, or another item of the run.
LEMMA OperatorVerified ==
  ASSUME Typing, EpochInv, Seen(code),
         ~Returned(journal) => FirstCycle, Returned(journal) => Returned(journal'),
         proc.pc \notin Outside => InHand,
         Operator \/ stop_run_for_exhaustion
  PROVE  /\ Seen(code)'
         /\ ~Returned(journal') => FirstCycle'
         /\ proc'.pc \notin Outside => InHand'
  <1>0. TypeOK /\ journal \in Seq(Event) BY DEF Typing, TypeOK
  <1> DEFINE Allowed == {"WORKTREE_CREATED", "PR_OPENED", "RESUMED", "ROLLED_BACK", "RUN_STOPPED"}
             Shows(R) == \A epoch \in Nat : epoch <= Len(journal) =>
                           relevant(journal', epoch) = relevant(journal, epoch) \cup R
             Aside == proc' = proc \/ (proc.pc \in Outside /\ proc'.pc \in Outside)
             Goal == /\ Seen(code)'
                     /\ ~Returned(journal') => FirstCycle'
                     /\ proc'.pc \notin Outside => InHand'
  <1> SUFFICES Goal OBVIOUS
  <1>1. ASSUME NEW R \in SUBSET Allowed, Shows(R), Aside, UNCHANGED <<world, code>>,
               "PR_OPENED" \in R => world.pr = "open" /\ at("idle")
        PROVE  Goal
    BY <1>1, AsideKept
  <1> HIDE DEF Goal
  <1>2. CASE run_bl
    <2>1. Shows({}) BY <1>2 DEF run_bl
    <2>2. Aside BY <1>2 DEF run_bl, goto, at, Outside, Typing, TypeOK
    <2>3. QED BY <1>1, <1>2, <2>1, <2>2 DEF run_bl
  <1>3. CASE forge_approve
    <2>1. Shows({}) BY <1>3 DEF forge_approve
    <2>2. QED BY <1>1, <1>3, <2>1 DEF forge_approve
  <1>4. CASE stop_run_for_exhaustion
    <2>1. Ev("RUN_STOPPED", "scheduler") \in Event /\ Ev("RUN_STOPPED", "scheduler").type = "RUN_STOPPED"
      BY EventTypes DEF Ev
    <2>2. Shows({"RUN_STOPPED"})
      BY <1>0, <1>4, <2>1, RelevantSame DEF stop_run_for_exhaustion, record
    <2>3. QED BY <1>1, <1>4, <2>2 DEF stop_run_for_exhaustion
  <1>5. ASSUME NEW target \in {"TODO", "BLOCKED"}, forge_revert(target) PROVE Goal
    <2> DEFINE x == Ev("ROLLED_BACK", "machine")
               y == Ev("ROLLED_BACK", "cli")
    <2>1. x \in Event /\ y \in Event /\ x.type = "ROLLED_BACK" /\ y.type = "ROLLED_BACK"
      BY EventTypes DEF Ev
    <2>2. PICK l \in Seq(Event) : l = Append(journal, x) /\ journal' = Append(l, y)
      BY <1>0, <1>5, RevertAppends
    <2> HIDE DEF x, y
    <2>3. Shows({"ROLLED_BACK"})
      <3> SUFFICES ASSUME NEW epoch \in Nat, epoch <= Len(journal)
                   PROVE  relevant(journal', epoch) = relevant(journal, epoch) \cup {"ROLLED_BACK"}
        OBVIOUS
      <3>1. epoch <= Len(l) /\ relevant(l, epoch) = relevant(journal, epoch) \cup {"ROLLED_BACK"}
        BY <1>0, <2>1, <2>2, RelevantSame
      <3>2. relevant(Append(l, y), epoch) = relevant(l, epoch) \cup {y.type}
        BY <2>1, <2>2, <3>1, RelevantSame
      <3>3. QED BY <2>1, <2>2, <3>1, <3>2
    <2>4. QED BY <1>1, <1>5, <2>3 DEF forge_revert
  <1>6. ASSUME NEW pr_seen \in BOOLEAN, forge_resume(pr_seen) PROVE Goal
    <2> DEFINE x == Ev("WORKTREE_CREATED", "recovery")
               y == Ev("PR_OPENED", "recovery")
               z == Ev("RESUMED", "cli")
    <2>1. /\ x \in Event /\ x.type = "WORKTREE_CREATED"
          /\ y \in Event /\ y.type = "PR_OPENED"
          /\ z \in Event /\ z.type = "RESUMED"
      BY EventTypes DEF Ev
    <2>2. PICK l, m \in Seq(Event) :
            /\ l = journal \/ (l = Append(journal, x) /\ None(journal, "WORKTREE_CREATED"))
            /\ m = l \/ (m = Append(l, y) /\ None(journal, "PR_OPENED") /\ world.pr = "open")
            /\ journal' = m \/ journal' = Append(m, z)
      BY <1>0, <1>6, ResumeAppends
    <2> HIDE DEF x, y, z
    <2> DEFINE A == IF l = journal THEN {} ELSE {"WORKTREE_CREATED"}
               B == IF m = l THEN {} ELSE {"PR_OPENED"}
               C == IF journal' = m THEN {} ELSE {"RESUMED"}
    <2>3. Shows(A \cup B \cup C)
      <3> SUFFICES ASSUME NEW epoch \in Nat, epoch <= Len(journal)
                   PROVE  relevant(journal', epoch) = relevant(journal, epoch) \cup (A \cup B \cup C)
        OBVIOUS
      <3>0. ASSUME NEW a \in Seq(Event), NEW b, NEW e \in Event, epoch <= Len(a),
                   b = a \/ b = Append(a, e)
            PROVE  /\ b \in Seq(Event) /\ epoch <= Len(b)
                   /\ relevant(b, epoch) = relevant(a, epoch) \cup (IF b = a THEN {} ELSE {e.type})
        <4>1. CASE b = a BY <3>0, <4>1
        <4>2. CASE b # a
          <5>1. b = Append(a, e) BY <3>0, <4>2
          <5>2. /\ Append(a, e) \in Seq(Event) /\ epoch <= Len(Append(a, e))
                /\ relevant(Append(a, e), epoch) = relevant(a, epoch) \cup {e.type}
            BY <3>0, RelevantSame
          <5>3. QED BY <4>2, <5>1, <5>2
        <4>3. QED BY <4>1, <4>2
      <3>1. epoch <= Len(l) /\ relevant(l, epoch) = relevant(journal, epoch) \cup A
        <4>1. l = journal \/ l = Append(journal, x) BY <2>2
        <4>2. /\ epoch <= Len(l)
              /\ relevant(l, epoch) =
                   relevant(journal, epoch) \cup (IF l = journal THEN {} ELSE {x.type})
          <5> HIDE DEF A, B, C
          <5>1. QED BY <1>0, <2>1, <3>0, <4>1
        <4>3. QED BY <2>1, <4>2
      <3>2. epoch <= Len(m) /\ relevant(m, epoch) = relevant(l, epoch) \cup B
        <4>1. m = l \/ m = Append(l, y) BY <2>2
        <4>2. l \in Seq(Event) BY <2>2
        <4>3. QED BY <2>1, <3>0, <3>1, <4>1, <4>2
      <3>3. relevant(journal', epoch) = relevant(m, epoch) \cup C
        <4>1. journal' = m \/ journal' = Append(m, z) BY <2>2
        <4>2. m \in Seq(Event) BY <2>2
        <4>3. QED BY <2>1, <3>0, <3>2, <4>1, <4>2
      <3>4. QED BY <3>1, <3>2, <3>3
    <2>4. A \cup B \cup C \in SUBSET Allowed OBVIOUS
    <2>5. "PR_OPENED" \in A \cup B \cup C => world.pr = "open" BY <2>2
    <2>6. proc' = proc /\ UNCHANGED <<world, code>> /\ at("idle") BY <1>6 DEF forge_resume
    <2> HIDE DEF A, B, C
    <2>7. QED BY <1>1, <2>3, <2>4, <2>5, <2>6
  <1>7. QED BY <1>2, <1>3, <1>4, <1>5, <1>6 DEF Operator

\* The claim of an item and the start of its development.
LEMMA StartVerified ==
  ASSUME Typing, EpochInv, Seen(code), ~Lost(journal'),
         ~Returned(journal) => FirstCycle, Returned(journal) => Returned(journal'),
         claim \/ dev_started
  PROVE  /\ Seen(code)'
         /\ ~Returned(journal') => FirstCycle'
         /\ proc'.pc \notin Outside => InHand'
  <1>0. /\ journal \in Seq(Event) /\ code' = code /\ world' = world
        /\ proc.pc \in {"claim", "dev_started", "dev_continued"} /\ proc.epoch = 0
        /\ proc.epoch <= Len(journal)
    BY DEF Typing, TypeOK, EpochInv, Outside, claim, dev_started, at
  <1>1. SinceThen \cap Shown = Since \cap Shown
    BY <1>0, Grown DEF Step, Shown, Reviews
  <1>2. Since = relevant(journal, 0) /\ SinceThen = relevant(journal', 0)
    BY <1>0 DEF Since, SinceThen
  <1>3. FirstCycle => /\ Facts(relevant(journal', 0), code)
                      /\ Open(relevant(journal', 0), world, code)
    BY <1>1, <1>2, SameShown DEF FirstCycle
  <1>4. CASE claim
    <2>1. proc'.pc \in Outside
      BY <1>4 DEF claim, transition, goto, finish, Outside, Typing, TypeOK
    <2>2. QED BY <1>0, <1>3, <2>1 DEF FirstCycle
  <1>5. CASE dev_started
    <2>1. proc' = [proc EXCEPT !.pc = "assign_roles"] BY <1>5 DEF dev_started, goto
    <2>2. proc'.pc = "assign_roles" /\ proc'.epoch = 0
      BY <1>0, <2>1 DEF Typing, TypeOK
    <2>3. ~Returned(journal)
      <3>1. ASSUME NEW who, Ev("DEV_STARTED", who) \in Event, record("DEV_STARTED", who)
            PROVE  Returned(journal) => Lost(journal')
        <4>1. Ev("DEV_STARTED", who).type = "DEV_STARTED" BY DEF Ev
        <4>2. QED BY <1>0, <3>1, <4>1, LostAppend DEF record
      <3>2. QED BY <1>5, <3>1, EventTypes DEF dev_started
    <2>4. Facts(relevant(journal', 0), code) /\ Open(relevant(journal', 0), world, code)
      BY <1>3, <2>3
    <2>5. Passed("assign_roles", relevant(journal', 0), code)
      BY DEF Passed, FromTester, FromReviewer, FromMerge
    <2>6. InHand' BY <1>0, <2>2, <2>4, <2>5 DEF InHand, Since
    <2>7. QED BY <1>0, <2>2, <2>4, <2>6 DEF FirstCycle
  <1>6. QED BY <1>4, <1>5

\* The steps of the cycle.
LEMMA CycleVerified ==
  ASSUME Typing, EpochInv, Seen(code), InHand,
         ~Returned(journal) => FirstCycle, Returned(journal) => Returned(journal'),
         Step \/ crash_or_raise,
         proc.pc \notin Outside \cup {"no_go_journal", "no_go_status"}
  PROVE  /\ Seen(code)'
         /\ ~Returned(journal') => FirstCycle'
         /\ proc'.pc \notin Outside => InHand'
  <1>1. Kept BY CycleKept DEF EpochInv
  <1>2. proc'.pc \notin Outside => proc'.epoch = proc.epoch
    BY ControlFlow DEF Flow, Next, Outside
  <1>3. proc'.pc \notin Outside => Since' = SinceThen BY <1>2 DEF Since, SinceThen
  <1>4. ASSUME ~Returned(journal') PROVE FirstCycle'
    <2>1. FirstCycle /\ proc.epoch = 0 BY <1>4 DEF FirstCycle
    <2>2. Since = relevant(journal, 0) /\ SinceThen = relevant(journal', 0)
      BY <2>1 DEF Since, SinceThen
    <2>3. QED BY <1>1, <1>2, <2>1, <2>2 DEF FirstCycle, Kept
  <1>5. QED BY <1>1, <1>3, <1>4 DEF Kept, InHand

LEMMA VerifiedNext == Typing /\ Verified /\ [Next]_vars => Verified'
  <1> SUFFICES ASSUME Typing, Verified, [Next]_vars PROVE Verified' OBVIOUS
  <1>1. CASE UNCHANGED vars
    BY <1>1 DEF vars, Verified, EpochInv, Seen, FirstCycle, InHand, Since, Lost, Returned, Outside
  <1>2. CASE Next
    <2>1. EpochInv /\ EpochInv' BY <1>2, EpochNext DEF Verified
    <2>2. SUFFICES ASSUME ~Lost(journal')
                   PROVE  /\ Seen(code)'
                          /\ ~Returned(journal') => FirstCycle'
                          /\ proc'.pc \notin Outside => InHand'
      BY <2>1 DEF Verified
    <2>3. ~Lost(journal) /\ (Returned(journal) => Returned(journal')) BY <1>2, <2>2, GrowsOnly
    <2>4. /\ Seen(code)
          /\ ~Returned(journal) => FirstCycle
          /\ proc.pc \notin Outside => InHand
      BY <2>3 DEF Verified
    <2>5. CASE Operator \/ stop_run_for_exhaustion
      BY <2>1, <2>3, <2>4, <2>5, OperatorVerified
    <2>6. CASE claim \/ dev_started
      BY <2>1, <2>2, <2>3, <2>4, <2>6, StartVerified
    <2>7. CASE no_go_journal \/ no_go_status
      <3>1. InHand BY <2>4, <2>7 DEF no_go_journal, no_go_status, at, Outside
      <3>2. QED BY <2>1, <2>4, <2>7, <3>1, CorrectionKept
    <2>8. CASE (Step \/ crash_or_raise) /\ proc.pc \notin Outside \cup {"no_go_journal", "no_go_status"}
      BY <2>1, <2>3, <2>4, <2>8, CycleVerified
    <2>9. CASE crash_or_raise /\ proc.pc \in Outside \cup {"no_go_journal", "no_go_status"}
      <3>1. proc'.pc = "idle" /\ UNCHANGED <<journal, world, code>>
        BY <2>9 DEF crash_or_raise, finish
      <3>2. QED BY <2>4, <3>1 DEF FirstCycle, Outside, Seen
    <2>10. CASE Step /\ proc.pc \in Outside \cup {"no_go_journal", "no_go_status"}
                /\ ~claim /\ ~dev_started /\ ~no_go_journal /\ ~no_go_status
      BY <2>10 DEF Outside, Step, at, assign_roles, branch,
         branch_journal, dev, dev_journal, dev_status, gates, tester, tester_status, push,
         pr_open, pr_journal, reviewer, reviewer_status, gate_merge, ensure_in_test,
         ensure_in_review, integrate, done, return, no_go, blocked_status, blocked_journal,
         escalated
    <2>11. QED BY <1>2, <2>5, <2>6, <2>7, <2>8, <2>9, <2>10 DEF Next
  <1>3. QED BY <1>1, <1>2

\* Whatever is merged is the last development pass, and the gates, the tester and the
\* reviewer have all seen that pass, through every correction, crash and resume, as
\* long as no process starts after a NO GO.
THEOREM MergesVerified == Spec => []MergedVerified
  <1>1. Init => Verified
    <2> SUFFICES ASSUME Init PROVE Verified OBVIOUS
    <2>1. relevant(journal, 0) = {} BY DEF Init, relevant
    <2>2. code.merged = 0 /\ proc.pc = "idle" /\ proc.epoch = 0 /\ Len(journal) = 0
          /\ world.pr = "none"
      BY DEF Init
    <2>3. QED BY <2>1, <2>2
      DEF Verified, EpochInv, Outside, Seen, FirstCycle, Facts, Open, Shown, Reviews
  <1>2. Verified => MergedVerified
    BY DEF Verified, MergedVerified, Lost, EpochLost, Seen
  <1>3. QED BY <1>1, <1>2, VerifiedNext, TypingInit, TypingNext, PTL DEF Spec
=============================================================================
