------------------------------- MODULE Versions -------------------------------
(* Maintenance of a library: the version gate and its release                   *)
(* (phases/release.py), forge revert (state/rollback.py), forge rollback-version *)
(* (state/version_rollback.py), forge repair-state (state/reconciliation.py) and  *)
(* the approvals they wait for (policy/approval_queue.py), while workers go on    *)
(* with the backlog. One maintenance command runs at a time; each is a sequence   *)
(* of durable effects that a crash may cut short.                                 *)
EXTENDS Naturals, Sequences, FiniteSets, BlTransitions

CONSTANTS
  Items,
  DependsOn,   \* depends_on of each item
  Library,     \* its name, under which rollbacks of its versions are approved
  Released,    \* versions of the library
  ScopeOf,     \* backlog_items_for_library_version
  Criteria,    \* per version, in order: the faulty items of each UC, FEAT, integration gate
  TrustLevel,
  SafeMode,
  Revertable,  \* bound: items an operator reverts
  Astray,      \* bound: items that may show at the start what their status does not say
  MaxOps,      \* bound: commands that pass their approvals
  MaxMoves     \* bound: steps of workers and of people on GitHub

ASSUME ItemsAssumption == IsFiniteSet(Items)
ASSUME DependsOnAssumption == DependsOn \in [Items -> SUBSET Items]
ASSUME ScopeAssumption == ScopeOf \in [Released -> SUBSET Items]
ASSUME CriteriaAssumption ==
  DOMAIN Criteria = Released /\ \A v \in Released : Criteria[v] \in Seq(SUBSET ScopeOf[v])
ASSUME PolicyAssumption == TrustLevel \in {"L0", "L1", "L2"} /\ SafeMode \in BOOLEAN
ASSUME DisjointAssumption == Items \cap Released = {} /\ Library \notin Items
ASSUME RevertableAssumption == Revertable \subseteq Items /\ Astray \subseteq Items
ASSUME BoundAssumption == MaxOps \in Nat /\ MaxMoves \in Nat

VARIABLES
  status,      \* bl_status
  real,        \* what git and GitHub show of an item: "none", "branch", "pr"
  markers,     \* events of an item that say branch, pull request, merge
  tag,         \* v<version>: "none", "local", "pushed"
  corrective,  \* versions with a <tag>-rollback
  release,     \* the GitHub release: "none", "published", "deprecated", "yanked"
  journaled,   \* of TAGGED and RELEASED, the events of each version
  reverting,   \* items with a revert/<item> branch
  approval,    \* latest_action of each item or library and kind
  cmd,         \* the command in progress and what it has read
  touched,     \* items that workers moved since it was typed
  ops,         \* commands typed so far
  moved        \* steps of workers and people so far

git == <<real, tag, corrective, release, reverting>>
vars == <<status, markers, journaled, git, approval, cmd, touched, ops, moved>>

---------------------------------------------------------------------------
(* Approvals.                                                                    *)

SensitiveByLevel ==
  [L0 |-> {"ROLLBACK", "MERGE", "TAG", "RELEASE"}, L1 |-> {"ROLLBACK", "TAG", "RELEASE"}, L2 |-> {}]
DESTRUCTIVE_ACTIONS == {"RELEASE_DEPRECATE", "RELEASE_YANK", "BRANCH_DELETE", "PR_CLOSE"}

requires_approval(kind) ==
  kind \in SensitiveByLevel[TrustLevel] \/ (SafeMode /\ kind \in DESTRUCTIVE_ACTIONS)

RollbackKinds == <<"ROLLBACK", "RELEASE_DEPRECATE", "RELEASE_YANK">>
(* An action is queued under an item, or under the library whatever the version: *)
(* the bl_id of latest_action and gate; the version is only told to the operator. *)
Gated == (Revertable \X {"ROLLBACK"}) \cup
         ({Library} \X {RollbackKinds[n] : n \in DOMAIN RollbackKinds})

\* Mutant of released: any action on record counts as an approval.
Bug_pending_releases(subject, kind) ==
  approval[<<subject, kind>>] # "none" \/ ~requires_approval(kind)

(* latest_action, and the queue when there is none: an approval given once counts  *)
(* for every later command on the item or, for rollback-version, on any version.   *)
released(subject, kind) ==
  \/ approval[<<subject, kind>>] = "APPROVED"
  \/ approval[<<subject, kind>>] = "none" /\ ~requires_approval(kind)

passed(subject, kinds) == \A n \in DOMAIN kinds : released(subject, kinds[n])

(* The first kind that is held stops the command, queued if it was not.            *)
held(subject, kinds) ==
  LET n == CHOOSE k \in DOMAIN kinds :
             ~released(subject, kinds[k]) /\ \A j \in 1..(k - 1) : released(subject, kinds[j])
  IN <<subject, kinds[n]>>

---------------------------------------------------------------------------
(* Graph and versions.                                                           *)

transitive_dependents(i) ==
  LET grown(S) == S \cup {j \in Items : DependsOn[j] \cap (S \cup {i}) # {}}
      after[n \in Nat] == IF n = 0 THEN {} ELSE grown(after[n - 1])
  IN after[Cardinality(Items)]

dependencies_satisfied(i) == \A d \in DependsOn[i] : status[d] = "DONE"

is_library_version_complete(v) ==
  ScopeOf[v] # {} /\ \A i \in ScopeOf[v] : status[i] = "DONE"

---------------------------------------------------------------------------
(* Repair: what an item should be, and the way there.                            *)

infer_status_from_reality(local, r) ==
  IF local = "DONE" /\ r = "none" THEN "DONE"
  ELSE CASE r = "pr" -> "IN_REVIEW" [] r = "branch" -> "IN_PROGRESS" [] OTHER -> "TODO"

_STATUS_PIPELINE == <<"TODO", "READY", "IN_PROGRESS", "IN_TEST", "IN_REVIEW", "DONE">>
index(s) == CHOOSE n \in DOMAIN _STATUS_PIPELINE : _STATUS_PIPELINE[n] = s
Raise == <<Plain("raise")>>

\* Mutant of walk: only its first step is taken.
Bug_first_step(from, to) == <<Plain(_STATUS_PIPELINE[index(from) + 1])>>

walk(from, to) == [n \in 1..(index(to) - index(from)) |-> Plain(_STATUS_PIPELINE[index(from) + n])]

(* The requests that follow a reopening, if any; BLOCKED is on no pipeline and most ways back are  *)
(* refused, both with an exception.                                                *)
forward(from, to) ==
  CASE from = to -> <<>>
    [] from # to /\ can_transition(from, Plain(to)) -> <<Plain(to)>>
    [] from # to /\ ~can_transition(from, Plain(to)) /\ "BLOCKED" \in {from, to} -> Raise
    [] OTHER -> IF index(to) > index(from) THEN walk(from, to)
                ELSE IF from = "IN_REVIEW" /\ to = "IN_PROGRESS" THEN <<NoGo>>
                ELSE Raise

_align_status(from, to) ==
  IF from # "DONE" \/ to = "DONE" THEN forward(from, to)
  ELSE LET reopened == IF to \in {"TODO", "BLOCKED"} THEN to ELSE "IN_PROGRESS"
       IN <<Reopen(reopened)>> \o forward(reopened, to)

\* The events that a status implies.
implied(s) ==
  CASE s \in {"IN_PROGRESS", "IN_TEST"} -> {"WORKTREE_CREATED"}
    [] s = "IN_REVIEW" -> {"WORKTREE_CREATED", "PR_OPENED"}
    [] s = "DONE" -> {"WORKTREE_CREATED", "PR_OPENED", "MERGED"}
    [] OTHER -> {}

---------------------------------------------------------------------------
NoCmd == [pc |-> "idle", kind |-> "none", on |-> {}, target |-> "TODO", todo |-> {},
          found |-> [i \in {} |-> "TODO"], plan |-> <<>>]

\* Where a backlog may stand when maintenance starts: a corrected item keeps its pull
\* request, a merged one may keep its branch; where people pushed branches and opened
\* pull requests by hand, any status may show any of them, with no event of it.
Shown(i) == IF i \in Astray THEN [s \in Status |-> {"none", "branch", "pr"}]
            ELSE [TODO |-> {"none"}, IN_PROGRESS |-> {"branch", "pr"}, IN_REVIEW |-> {"pr"},
                  DONE |-> {"none", "branch"}]

TypeOK ==
  /\ status \in [Items -> Status]
  /\ real \in [Items -> {"none", "branch", "pr"}]
  /\ markers \in [Items -> SUBSET {"WORKTREE_CREATED", "PR_OPENED", "MERGED"}]
  /\ tag \in [Released -> {"none", "local", "pushed"}]
  /\ corrective \subseteq Released
  /\ release \in [Released -> {"none", "published", "deprecated", "yanked"}]
  /\ journaled \in [Released -> SUBSET {"TAGGED", "RELEASED"}]
  /\ reverting \subseteq Items
  /\ approval \in [Gated -> {"none", "PENDING", "APPROVED"}]
  /\ cmd.pc \in {"idle", "pr", "reopen", "dependents", "adr", "deprecate", "yank", "corrective",
                 "scoped", "version_issue", "rolled_back", "gate", "tag", "push", "publish",
                 "tagged", "released", "no_go_issue", "faulty", "issue_opened", "list", "align",
                 "walk", "replay"}
  /\ cmd.on \subseteq Items \cup Released
  /\ cmd.todo \subseteq Items
  /\ Len(cmd.plan) \in 0..4 /\ \A n \in DOMAIN cmd.plan : cmd.plan[n] \in TransitionRequest
  /\ touched \subseteq Items
  /\ ops \in 0..MaxOps
  /\ moved \in 0..MaxMoves

Init ==
  /\ status \in [Items -> {"TODO", "IN_PROGRESS", "IN_REVIEW", "DONE"}]
  /\ \A i \in Items : status[i] # "TODO" => dependencies_satisfied(i)
  /\ real \in [Items -> {"none", "branch", "pr"}]
  /\ \A i \in Items : real[i] \in Shown(i)[status[i]]
  /\ markers = [i \in Items |-> IF i \in Astray THEN {}
                               ELSE implied(status[i]) \cup
                                    IF real[i] = "pr" THEN {"PR_OPENED"} ELSE {}]
  /\ \E out \in SUBSET {v \in Released : is_library_version_complete(v)} :
       /\ journaled = [v \in Released |-> IF v \in out THEN {"TAGGED", "RELEASED"} ELSE {}]
       /\ tag = [v \in Released |-> IF v \in out THEN "pushed" ELSE "none"]
       /\ release = [v \in Released |-> IF v \in out THEN "published" ELSE "none"]
  /\ corrective = {} /\ reverting = {}
  /\ approval = [g \in Gated |-> "none"]
  /\ cmd = NoCmd
  /\ touched = {}
  /\ ops = 0 /\ moved = 0

---------------------------------------------------------------------------
(* Workers, as the executor module details them, and people on GitHub.           *)

moves(i, s) == status' = [status EXCEPT ![i] = s]
marks(i, m) == markers' = [markers EXCEPT ![i] = @ \cup m]
shows(i, r) == real' = [real EXCEPT ![i] = r]
meets(i) == touched' = IF cmd.pc = "idle" THEN {} ELSE touched \cup {i}
\* Bound: nothing is followed once the last command has ended.
followed == ops < MaxOps \/ cmd.pc # "idle"

aside ==
  /\ followed /\ moved < MaxMoves /\ moved' = moved + 1
  /\ UNCHANGED <<tag, corrective, release, journaled, reverting, approval, cmd, ops>>

start(i) ==
  /\ status[i] \in {"TODO", "READY"} /\ dependencies_satisfied(i)
  /\ moves(i, "IN_PROGRESS") /\ marks(i, {"WORKTREE_CREATED"})
  /\ shows(i, IF real[i] = "pr" THEN "pr" ELSE "branch")
  /\ meets(i) /\ aside

submit(i) ==
  /\ status[i] \in {"IN_PROGRESS", "IN_TEST"}
  /\ IF status[i] = "IN_PROGRESS"
       THEN moves(i, "IN_TEST") /\ UNCHANGED <<markers, real>>
       ELSE moves(i, "IN_REVIEW") /\ marks(i, {"PR_OPENED"}) /\ shows(i, "pr")
  /\ meets(i) /\ aside

merge(i) ==
  /\ status[i] = "IN_REVIEW" /\ real[i] = "pr"
  /\ moves(i, "DONE") /\ marks(i, {"MERGED"})
  /\ \E r \in {"none", "branch"} : shows(i, r)
  /\ meets(i) /\ aside

no_go(i) ==
  /\ can_transition(status[i], NoGo)
  /\ moves(i, "IN_PROGRESS")
  /\ UNCHANGED <<markers, real>>
  /\ meets(i) /\ aside

block(i) ==
  /\ status[i] \in INTERRUPTED_STATUSES
  /\ moves(i, "BLOCKED")
  /\ UNCHANGED <<markers, real>>
  /\ meets(i) /\ aside

\* A pull request is closed, a branch deleted by hand or by cleanup-orphans.
drift(i) ==
  /\ real[i] # "none"
  /\ shows(i, IF real[i] = "pr" THEN "branch" ELSE "none")
  /\ UNCHANGED <<status, markers, touched>> /\ aside

forge_approve(g) ==
  /\ approval[g] = "PENDING" /\ ops < MaxOps
  /\ approval' = [approval EXCEPT ![g] = "APPROVED"]
  /\ UNCHANGED <<status, markers, journaled, git, cmd, touched, ops, moved>>

---------------------------------------------------------------------------
(* Commands.                                                                     *)

goes(pc) == cmd' = [cmd EXCEPT !.pc = pc]
subject(x) == x \in cmd.on
ends == cmd' = NoCmd
still == UNCHANGED <<approval, ops, moved>>

typed(c) ==
  /\ cmd.pc = "idle" /\ ops < MaxOps
  /\ cmd' = c
  /\ ops' = ops + 1
  /\ touched' = {}
  /\ UNCHANGED <<status, markers, journaled, git, approval, moved>>

\* Bound: one action waits for its approval at a time, and one item, or the library, asks.
refused(x, kinds) ==
  /\ cmd.pc = "idle" /\ ops < MaxOps
  /\ \A g \in Gated : approval[g] \in {"none", IF g[1] = x THEN "APPROVED" ELSE "none"}
  /\ ~passed(x, kinds) /\ approval[held(x, kinds)] = "none"
  /\ approval' = [approval EXCEPT ![held(x, kinds)] = "PENDING"]
  /\ UNCHANGED <<status, markers, journaled, git, cmd, touched, ops, moved>>

reopen(i, s) ==
  /\ can_transition(status[i], Reopen(s))
  /\ moves(i, s)

\* Loops follow a sorted order: some fixed one here.
next_of(S) == CHOOSE i \in S : TRUE

\* The next item of a loop that reopens those that are DONE.
reopen_if_done(i, s) ==
  /\ cmd.todo # {} /\ i = next_of(cmd.todo)
  /\ IF status[i] = "DONE" THEN reopen(i, s) ELSE UNCHANGED status
  /\ cmd' = [cmd EXCEPT !.todo = @ \ {i}]
  /\ UNCHANGED <<markers, journaled, git, touched>> /\ still

loop_ends(from, to) ==
  /\ cmd.pc = from /\ cmd.todo = {}
  /\ goes(to)
  /\ UNCHANGED <<status, markers, journaled, git, touched>> /\ still

(* forge revert                                                                  *)

revert_bl(i, target, with_pr) ==
  \/ refused(i, <<"ROLLBACK">>)
  \/ /\ passed(i, <<"ROLLBACK">>) /\ status[i] = "DONE"
     /\ typed([NoCmd EXCEPT !.pc = IF with_pr THEN "pr" ELSE "reopen", !.kind = "revert",
                            !.on = {i}, !.target = target])

\* A branch of that name, a conflict or a squash commit ends the command here.
default_prepare_revert_pr(i) ==
  /\ cmd.pc = "pr" /\ subject(i)
  /\ \/ i \notin reverting /\ goes("reopen")
     \/ ends
  /\ reverting' = reverting \cup {i}
  /\ UNCHANGED <<status, markers, journaled, real, tag, corrective, release, touched>> /\ still

\* Mutant of dependents_of: only the direct dependents.
Bug_direct_dependents(i) == {j \in Items : i \in DependsOn[j]}

dependents_of(i) == transitive_dependents(i)

execute_rollback(i) ==
  /\ cmd.pc = "reopen" /\ subject(i)
  /\ reopen(i, cmd.target)
  /\ cmd' = [cmd EXCEPT !.pc = "dependents", !.todo = dependents_of(i)]
  /\ UNCHANGED <<markers, journaled, git, touched>> /\ still

invalidate_done_dependents(i) == cmd.pc = "dependents" /\ reopen_if_done(i, "TODO")

record_adr ==
  /\ cmd.pc = "adr"
  /\ ends
  /\ UNCHANGED <<status, markers, journaled, git, touched>> /\ still

(* forge rollback-version                                                        *)

rollback_library_version(v, yank) ==
  \/ refused(Library, RollbackKinds)
  \/ /\ passed(Library, RollbackKinds) /\ ScopeOf[v] # {} /\ tag[v] # "none"
     /\ typed([NoCmd EXCEPT !.pc = IF yank /\ release[v] # "none" THEN "deprecate" ELSE "corrective",
                            !.kind = "version", !.on = {v}])

edits(v, from, r, to) ==
  /\ cmd.pc = from /\ subject(v)
  /\ release' = [release EXCEPT ![v] = r]
  /\ goes(to)
  /\ UNCHANGED <<status, markers, journaled, real, tag, corrective, reverting, touched>> /\ still

deprecate_github_release(v) == edits(v, "deprecate", "deprecated", "yank")
yank_published_release(v) == edits(v, "yank", "yanked", "corrective")

_create_corrective_tag(v) ==
  /\ cmd.pc = "corrective" /\ subject(v)
  /\ corrective' = corrective \cup {v}
  /\ cmd' = [cmd EXCEPT !.pc = "scoped", !.todo = ScopeOf[v]]
  /\ UNCHANGED <<status, markers, journaled, real, tag, release, reverting, touched>> /\ still

_reopen_version_backlog_items(i) == cmd.pc = "scoped" /\ reopen_if_done(i, "TODO")

\* gh issue create: the last step of a version rollback but its event and its decision
\* record, and the first of a gate NO GO. A gh that fails ends the command, as crash does.
create_version_issue ==
  /\ cmd.pc \in {"version_issue", "no_go_issue"}
  /\ goes(IF cmd.kind = "version" THEN "rolled_back" ELSE "faulty")
  /\ UNCHANGED <<status, markers, journaled, git, touched>> /\ still

\* ROLLED_BACK with the frozen milestones, or ISSUE_OPENED.
append_outcome ==
  /\ cmd.pc \in {"rolled_back", "issue_opened"}
  /\ IF cmd.kind = "version" THEN goes("adr") ELSE ends
  /\ UNCHANGED <<status, markers, journaled, git, touched>> /\ still

(* The version gate and the release                                              *)

execute_version_release(v) ==
  /\ is_library_version_complete(v)
  /\ typed([NoCmd EXCEPT !.pc = "gate", !.kind = "release", !.on = {v}])

\* The first criterion that fails stops the gate and names its items.
evaluate_version_gate(v) ==
  /\ cmd.pc = "gate" /\ subject(v)
  /\ \/ goes("tag")
     \/ \E n \in DOMAIN Criteria[v] :
               cmd' = [cmd EXCEPT !.pc = "no_go_issue", !.todo = Criteria[v][n]]
  /\ UNCHANGED <<status, markers, journaled, git, touched>> /\ still

create_version_tag(v) ==
  /\ cmd.pc = "tag" /\ subject(v)
  /\ IF tag[v] = "none" THEN tag' = [tag EXCEPT ![v] = "local"] /\ goes("push")
                        ELSE UNCHANGED tag /\ goes("publish")
  /\ UNCHANGED <<status, markers, journaled, real, corrective, release, reverting, touched>> /\ still

push_tag(v) ==
  /\ cmd.pc = "push" /\ subject(v)
  /\ \/ tag' = [tag EXCEPT ![v] = "pushed"] /\ goes("publish")
     \/ UNCHANGED tag /\ ends
  /\ UNCHANGED <<status, markers, journaled, real, corrective, release, reverting, touched>> /\ still

\* Mutant of release_accepted: the failure of gh is not looked at.
Bug_refusal_ignored(v) == TRUE

\* gh refuses a tag that is only local.
release_accepted(v) == release[v] # "none" \/ tag[v] = "pushed"

create_github_release(v) ==
  /\ cmd.pc = "publish" /\ subject(v)
  /\ release' = IF release[v] = "none" /\ tag[v] = "pushed"
                  THEN [release EXCEPT ![v] = "published"] ELSE release
  /\ IF release_accepted(v) THEN goes("tagged") ELSE ends
  /\ UNCHANGED <<status, markers, journaled, real, tag, corrective, reverting, touched>> /\ still

\* The two events that end a release, each a transaction of its own.
append_tagged(v) ==
  /\ cmd.pc = "tagged" /\ subject(v)
  /\ journaled' = [journaled EXCEPT ![v] = @ \cup {"TAGGED"}]
  /\ goes("released")
  /\ UNCHANGED <<status, markers, git, touched>> /\ still

append_released(v) ==
  /\ cmd.pc = "released" /\ subject(v)
  /\ journaled' = [journaled EXCEPT ![v] = @ \cup {"RELEASED"}]
  /\ ends
  /\ UNCHANGED <<status, markers, git, touched>> /\ still

apply_version_no_go_side_effects(i) == cmd.pc = "faulty" /\ reopen_if_done(i, "IN_PROGRESS")

(* forge repair-state                                                            *)

repair_forge_state(strategy) ==
  typed([NoCmd EXCEPT !.pc = "list", !.kind = strategy, !.todo = Items])

\* One item is probed at a time; an item without divergence is left out.
list_divergences(i) ==
  LET remote == infer_status_from_reality(status[i], real[i]) IN
  /\ cmd.pc = "list" /\ cmd.todo # {} /\ i = next_of(cmd.todo)
  /\ cmd' = [cmd EXCEPT !.todo = @ \ {i},
               !.found = IF remote = status[i] THEN @
                         ELSE [j \in DOMAIN @ \cup {i} |->
                                 IF j = i THEN [local |-> status[i], remote |-> remote] ELSE @[j]]]
  /\ UNCHANGED <<status, markers, journaled, git, touched>> /\ still

\* git or gh fails and the probe raises: nothing that was found is repaired.
probe_fails ==
  /\ cmd.pc = "list" /\ cmd.todo # {}
  /\ ends
  /\ UNCHANGED <<status, markers, journaled, git, touched>> /\ still

listed ==
  /\ cmd.pc = "list" /\ cmd.todo = {}
  /\ cmd' = [cmd EXCEPT !.pc = IF cmd.kind = "trust-remote" THEN "align" ELSE "replay",
                        !.todo = DOMAIN cmd.found]
  /\ UNCHANGED <<status, markers, journaled, git, touched>> /\ still

align(i) ==
  LET plan == _align_status(cmd.found[i].local, cmd.found[i].remote) IN
  /\ cmd.pc = "align" /\ cmd.todo # {} /\ i = next_of(cmd.todo)
  /\ cmd' = IF plan = Raise THEN NoCmd
            ELSE [cmd EXCEPT !.pc = "walk", !.on = {i}, !.plan = plan, !.todo = @ \ {i}]
  /\ UNCHANGED <<status, markers, journaled, git, touched>> /\ still

\* A transition that a worker has made illegal since raises.
align_step(i) ==
  /\ cmd.pc = "walk" /\ subject(i)
  /\ IF cmd.plan = <<>> THEN goes("align") /\ UNCHANGED status
     ELSE IF ~can_transition(status[i], Head(cmd.plan)) THEN ends /\ UNCHANGED status
     ELSE moves(i, Head(cmd.plan).target) /\ cmd' = [cmd EXCEPT !.plan = Tail(@)]
  /\ UNCHANGED <<markers, journaled, git, touched>> /\ still

missing(i) == implied(cmd.found[i].local) \ markers[i]

_apply_trust_local(i) ==
  /\ cmd.pc = "replay" /\ cmd.todo # {} /\ i = next_of(cmd.todo)
  /\ IF missing(i) = {} THEN cmd' = [cmd EXCEPT !.todo = @ \ {i}] /\ UNCHANGED markers
                        ELSE (\E m \in missing(i) : marks(i, {m})) /\ UNCHANGED cmd
  /\ UNCHANGED <<status, journaled, git, touched>> /\ still

repaired ==
  /\ cmd.pc \in {"align", "replay"} /\ cmd.todo = {}
  /\ ends
  /\ UNCHANGED <<status, markers, journaled, git, touched>> /\ still

crash ==
  /\ cmd.pc # "idle"
  /\ ends
  /\ UNCHANGED <<status, markers, journaled, git, touched>> /\ still

---------------------------------------------------------------------------
commandStep ==
  \/ \E i \in Items :
       \/ default_prepare_revert_pr(i) \/ execute_rollback(i) \/ invalidate_done_dependents(i)
       \/ _reopen_version_backlog_items(i) \/ apply_version_no_go_side_effects(i)
       \/ list_divergences(i) \/ align(i) \/ align_step(i) \/ _apply_trust_local(i)
  \/ \E v \in Released :
       \/ deprecate_github_release(v) \/ yank_published_release(v) \/ _create_corrective_tag(v)
       \/ evaluate_version_gate(v) \/ create_version_tag(v) \/ push_tag(v) \/ create_github_release(v)
       \/ append_tagged(v) \/ append_released(v)
  \/ loop_ends("dependents", "adr") \/ loop_ends("scoped", "version_issue")
  \/ loop_ends("faulty", "issue_opened")
  \/ create_version_issue \/ append_outcome \/ record_adr \/ probe_fails \/ listed \/ repaired

Next ==
  \/ \E i \in Items : start(i) \/ submit(i) \/ no_go(i) \/ merge(i) \/ block(i) \/ drift(i)
  \/ \E g \in Gated : forge_approve(g)
  \/ \E i \in Revertable, target \in {"TODO", "BLOCKED"}, with_pr \in BOOLEAN :
       revert_bl(i, target, with_pr)
  \/ \E v \in Released, yank \in BOOLEAN : rollback_library_version(v, yank)
  \/ \E v \in Released : execute_version_release(v)
  \/ \E s \in {"trust-remote", "trust-local"} : repair_forge_state(s)
  \/ commandStep
  \/ crash

Spec == Init /\ [][Next]_vars
---------------------------------------------------------------------------
\* The names under which the command in progress had to be approved.
asked_for == IF cmd.kind = "version" THEN {Library} ELSE cmd.on

(* EXG-RBK-05: a rollback is subject to the trust level, and in safe mode so are    *)
(* the deprecation and the yank of a release. No step of a revert is taken without *)
(* the approval of its item, none of a version rollback without all those of the   *)
(* library, across the retries that ask for them one after the other. Approvals    *)
(* are the library's: one that was given for a version counts for every other.     *)
ApprovedFirst ==
  \A g \in Gated :
    (/\ cmd.kind \in {"revert", "version"} /\ g[1] \in asked_for
     /\ requires_approval(g[2])) => approval[g] = "APPROVED"

\* The types with it, as the induction needs them.
ApprovalInv == TypeOK /\ ApprovedFirst

(* EXG-RBK-01: when the decision of a revert is recorded, every finished item that  *)
(* depends on the reverted one, directly or not, was reopened; workers may only     *)
(* have finished one since.                                                         *)
DependentsReopened ==
  (cmd.kind = "revert" /\ cmd.pc = "adr") =>
    \A i \in cmd.on : \A j \in transitive_dependents(i) : status[j] = "DONE" => j \in touched

(* EXG-VER-01: at every crash between the push, the publication and the two events, *)
(* and in every later attempt, RELEASED comes after TAGGED, an event after the     *)
(* publication on GitHub and that after the push of the tag; from the gate to the  *)
(* last event every item of the version stays DONE.                                *)
ReleaseCovers ==
  /\ \A v \in Released :
       /\ "RELEASED" \in journaled[v] => "TAGGED" \in journaled[v]
       /\ journaled[v] # {} => release[v] # "none"
       /\ release[v] # "none" => tag[v] = "pushed"
  /\ cmd.pc \in {"gate", "tag", "push", "publish", "tagged", "released"} =>
       \A v \in cmd.on : ScopeOf[v] # {} /\ \A i \in ScopeOf[v] : status[i] = "DONE"

(* EXG-RBK-03: an item that trust-remote has dealt with has the status that the     *)
(* probe of GitHub gave it, unless a worker has moved it since.                     *)
RepairSettles ==
  (cmd.kind = "trust-remote" /\ cmd.pc \in {"align", "walk"}) =>
    \A i \in DOMAIN cmd.found \ (cmd.todo \cup IF cmd.pc = "walk" THEN cmd.on ELSE {}) :
      i \in touched \/ status[i] = cmd.found[i].remote
=============================================================================
