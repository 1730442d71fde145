---------------------------- MODULE VersionsProofs ----------------------------
(***************************************************************************)
(* No rollback without its approvals, no version journaled as released     *)
(* without its tag and its release, no revert that leaves a dependent DONE *)
(* and no repair that settles an item elsewhere than GitHub shows it, for  *)
(* every backlog, every set of versions and every interleaving of          *)
(* commands, crashes and workers.                                          *)
(***************************************************************************)
EXTENDS Versions, FiniteSetTheorems, SequenceTheorems, WellFoundedInduction, TLAPS

\* The shape of the command in progress: the fields that its steps replace.
Shape == DOMAIN cmd = {"pc", "kind", "on", "target", "todo", "found", "plan"}

Repair == {"list", "align", "walk", "replay"}
Release == {"gate", "tag", "push", "publish", "tagged", "released"}
Edit == {"deprecate", "yank"}

\* What a step of commandStep may do to the command: end it, go on with the same kind and
\* subjects within the same part of the code, or take up the next item of a repair.
Ended == cmd' = NoCmd
GoesOn ==
  /\ Shape' /\ cmd'.kind = cmd.kind /\ cmd'.on = cmd.on
  /\ cmd'.pc \in Repair => cmd.pc \in Repair
  /\ cmd'.pc \in Release => cmd.pc \in Release
  /\ cmd'.pc \in Edit => cmd.pc \in Edit
TakesUp == Shape' /\ cmd'.kind = cmd.kind /\ cmd.pc = "align" /\ cmd'.pc = "walk"

LEMMA ShapeNoCmd == DOMAIN NoCmd = {"pc", "kind", "on", "target", "todo", "found", "plan"}
  BY DEF NoCmd

LEMMA Item_step ==
  ASSUME Shape, NEW i,
         \/ default_prepare_revert_pr(i) \/ execute_rollback(i) \/ invalidate_done_dependents(i)
         \/ _reopen_version_backlog_items(i) \/ apply_version_no_go_side_effects(i)
         \/ list_divergences(i) \/ align(i) \/ align_step(i) \/ _apply_trust_local(i)
  PROVE  cmd' = cmd \/ Ended \/ GoesOn \/ TakesUp
  <1> USE DEF Shape, Ended, GoesOn, Repair, Release, Edit, goes, ends
  <1>1. CASE default_prepare_revert_pr(i) BY <1>1 DEF default_prepare_revert_pr
  <1>2. CASE execute_rollback(i) BY <1>2 DEF execute_rollback
  <1>3. CASE invalidate_done_dependents(i)
    BY <1>3 DEF invalidate_done_dependents, reopen_if_done
  <1>4. CASE _reopen_version_backlog_items(i)
    BY <1>4 DEF _reopen_version_backlog_items, reopen_if_done
  <1>5. CASE apply_version_no_go_side_effects(i)
    BY <1>5 DEF apply_version_no_go_side_effects, reopen_if_done
  <1>6. CASE list_divergences(i)
    <2>1. PICK x : cmd' = [cmd EXCEPT !.todo = cmd.todo \ {i}, !.found = x]
      BY <1>6 DEF list_divergences
    <2>2. QED BY <2>1
  <1>7. CASE align(i)
    <2>1. \/ cmd' = NoCmd
          \/ \E plan : cmd' = [cmd EXCEPT !.pc = "walk", !.on = {i}, !.plan = plan,
                                          !.todo = cmd.todo \ {i}]
      BY <1>7 DEF align
    <2>2. cmd.pc = "align" BY <1>7 DEF align
    <2>3. QED BY <2>1, <2>2 DEF TakesUp
  <1>8. CASE align_step(i) BY <1>8 DEF align_step
  <1>9. CASE _apply_trust_local(i) BY <1>9 DEF _apply_trust_local
  <1>10. QED BY <1>1, <1>2, <1>3, <1>4, <1>5, <1>6, <1>7, <1>8, <1>9

LEMMA Version_step ==
  ASSUME Shape, NEW v,
         \/ deprecate_github_release(v) \/ yank_published_release(v) \/ _create_corrective_tag(v)
         \/ evaluate_version_gate(v) \/ create_version_tag(v) \/ push_tag(v)
         \/ create_github_release(v) \/ append_tagged(v) \/ append_released(v)
  PROVE  cmd' = cmd \/ Ended \/ GoesOn
  <1> USE DEF Shape, Ended, GoesOn, Repair, Release, Edit, goes, ends
  <1>1. CASE deprecate_github_release(v) \/ yank_published_release(v)
    BY <1>1 DEF deprecate_github_release, yank_published_release, edits
  <1>2. CASE _create_corrective_tag(v) BY <1>2 DEF _create_corrective_tag
  <1>3. CASE evaluate_version_gate(v)
    <2>1. \/ cmd' = [cmd EXCEPT !.pc = "tag"]
          \/ \E S : cmd' = [cmd EXCEPT !.pc = "no_go_issue", !.todo = S]
      BY <1>3 DEF evaluate_version_gate
    <2>2. cmd.pc = "gate" BY <1>3 DEF evaluate_version_gate
    <2>3. QED BY <2>1, <2>2
  <1>4. CASE create_version_tag(v) BY <1>4 DEF create_version_tag
  <1>5. CASE push_tag(v) BY <1>5 DEF push_tag
  <1>6. CASE create_github_release(v) \/ append_tagged(v) \/ append_released(v)
    BY <1>6 DEF create_github_release, append_tagged, append_released
  <1>7. QED BY <1>1, <1>2, <1>3, <1>4, <1>5, <1>6

LEMMA Command_step ==
  ASSUME Shape, commandStep \/ crash
  PROVE  cmd' = cmd \/ Ended \/ GoesOn \/ TakesUp
  <1>1. CASE \/ loop_ends("dependents", "adr") \/ loop_ends("scoped", "version_issue")
             \/ loop_ends("faulty", "issue_opened") \/ create_version_issue \/ append_outcome
             \/ record_adr \/ probe_fails \/ listed \/ repaired \/ crash
    <2> USE DEF Shape, Ended, GoesOn, Repair, Release, Edit, goes, ends
    <2>1. CASE \/ loop_ends("dependents", "adr") \/ loop_ends("scoped", "version_issue")
               \/ loop_ends("faulty", "issue_opened")
      BY <2>1 DEF loop_ends
    <2>2. CASE create_version_issue \/ append_outcome
      BY <2>2 DEF create_version_issue, append_outcome
    <2>3. CASE listed BY <2>3 DEF listed
    <2>4. CASE record_adr \/ probe_fails \/ repaired \/ crash
      BY <2>4 DEF record_adr, probe_fails, repaired, crash
    <2>5. QED BY <1>1, <2>1, <2>2, <2>3, <2>4
  <1>2. QED BY <1>1, Item_step, Version_step DEF commandStep

---------------------------------------------------------------------------
(* Approvals: a repair never works for a revert or a rollback, so the subjects of *)
(* these are the ones they were typed for.                                         *)
ApprovalIInv ==
  /\ Shape
  /\ DOMAIN approval = Gated
  /\ cmd.pc \in Repair => cmd.kind \notin {"revert", "version"}
  /\ ApprovedFirst

LEMMA Init_ApprovalIInv == Init => ApprovalIInv
  <1> SUFFICES ASSUME Init PROVE ApprovalIInv OBVIOUS
  <1>1. cmd = NoCmd /\ approval = [g \in Gated |-> "none"] BY DEF Init
  <1>2. NoCmd.pc = "idle" /\ NoCmd.on = {} BY DEF NoCmd
  <1>3. NoCmd.kind = "none" BY DEF NoCmd
  <1>4. QED BY <1>1, <1>2, <1>3, ShapeNoCmd DEF ApprovalIInv, Shape, ApprovedFirst, Repair

\* An approval that was given stays given.
LEMMA ApprovalsStay ==
  ASSUME DOMAIN approval = Gated, [Next]_vars
  PROVE  /\ DOMAIN approval' = Gated
         /\ \A g \in Gated : approval[g] = "APPROVED" => approval'[g] = "APPROVED"
  <1>1. CASE \E g \in Gated : forge_approve(g) BY <1>1 DEF forge_approve
  <1>2. ASSUME NEW x, NEW kinds, refused(x, kinds)
        PROVE  /\ DOMAIN approval' = Gated
               /\ \A g \in Gated : approval[g] = "APPROVED" => approval'[g] = "APPROVED"
    BY <1>2 DEF refused
  <1>3. CASE UNCHANGED approval BY <1>3
  <1>4. ASSUME NEW c, typed(c) PROVE UNCHANGED approval BY <1>4 DEF typed
  <1>5. CASE commandStep \/ crash
    BY <1>3, <1>5 DEF commandStep, crash, still, default_prepare_revert_pr, execute_rollback,
       invalidate_done_dependents, _reopen_version_backlog_items,
       apply_version_no_go_side_effects, reopen_if_done, list_divergences, align, align_step,
       _apply_trust_local, deprecate_github_release, yank_published_release, edits,
       _create_corrective_tag, evaluate_version_gate, create_version_tag, push_tag,
       create_github_release, append_tagged, append_released, loop_ends, create_version_issue,
       append_outcome, record_adr, probe_fails, listed, repaired
  <1>6. CASE \E i \in Items : start(i) \/ submit(i) \/ no_go(i) \/ merge(i) \/ block(i) \/ drift(i)
    BY <1>3, <1>6 DEF start, submit, no_go, merge, block, drift, aside
  <1>7. CASE UNCHANGED vars BY <1>7 DEF vars
  <1>8. CASE \/ \E i \in Revertable, target \in {"TODO", "BLOCKED"}, with_pr \in BOOLEAN :
                  revert_bl(i, target, with_pr)
             \/ \E v \in Released, yank \in BOOLEAN : rollback_library_version(v, yank)
             \/ \E v \in Released : execute_version_release(v)
             \/ \E s \in {"trust-remote", "trust-local"} : repair_forge_state(s)
    BY <1>2, <1>3, <1>4, <1>8
    DEF revert_bl, rollback_library_version, execute_version_release, repair_forge_state
  <1>9. QED BY <1>1, <1>5, <1>6, <1>7, <1>8 DEF Next

\* What a released action needs is approved.
LEMMA ReleasedApproved ==
  ASSUME NEW x, NEW kind, released(x, kind), requires_approval(kind)
  PROVE  approval[<<x, kind>>] = "APPROVED"
  BY DEF released

LEMMA Next_ApprovalIInv ==
  ASSUME ApprovalIInv, [Next]_vars PROVE ApprovalIInv'
  <1>0. /\ DOMAIN approval' = Gated
        /\ \A g \in Gated : approval[g] = "APPROVED" => approval'[g] = "APPROVED"
    BY ApprovalsStay DEF ApprovalIInv
  <1>1. CASE cmd' = cmd BY <1>0, <1>1 DEF ApprovalIInv, Shape, ApprovedFirst, asked_for, Repair
  <1>2. CASE Ended
    <2>1. NoCmd.pc = "idle" /\ NoCmd.kind = "none" BY DEF NoCmd
    <2>2. QED BY <1>0, <1>2, <2>1, ShapeNoCmd
          DEF Ended, ApprovalIInv, Shape, ApprovedFirst, Repair
  <1>3. CASE GoesOn
    BY <1>0, <1>3 DEF GoesOn, ApprovalIInv, ApprovedFirst, asked_for
  <1>4. CASE TakesUp
    BY <1>0, <1>4 DEF TakesUp, ApprovalIInv, ApprovedFirst, Repair
  <1>5. ASSUME NEW i \in Revertable, NEW target, NEW with_pr, revert_bl(i, target, with_pr)
        PROVE  ApprovalIInv'
    <2>1. CASE refused(i, <<"ROLLBACK">>) BY <1>1, <2>1 DEF refused
    <2>2. CASE ~refused(i, <<"ROLLBACK">>)
      <3>1. PICK pc \in {"pr", "reopen"} :
              cmd' = [NoCmd EXCEPT !.pc = pc, !.kind = "revert", !.on = {i}, !.target = target]
        BY <1>5, <2>2 DEF revert_bl, typed
      <3>2. released(i, "ROLLBACK") BY <1>5, <2>2 DEF revert_bl, passed
      <3>3. cmd'.pc = pc /\ cmd'.kind = "revert" /\ cmd'.on = {i} /\ Shape'
        BY <3>1 DEF Shape, NoCmd
      <3>4. UNCHANGED approval BY <1>5, <2>2 DEF revert_bl, typed
      <3>5. ASSUME NEW g \in Gated, g[1] = i, requires_approval(g[2])
            PROVE  approval[g] = "APPROVED"
        <4>1. g \in Revertable \X {"ROLLBACK"}
          BY <3>5, DisjointAssumption, RevertableAssumption DEF Gated
        <4>2. g = <<i, "ROLLBACK">> BY <3>5, <4>1
        <4>3. QED BY <3>2, <3>5, <4>2, ReleasedApproved
      <3>6. ApprovedFirst' BY <3>3, <3>4, <3>5 DEF ApprovedFirst, asked_for, requires_approval
      <3>7. QED BY <1>0, <3>3, <3>6 DEF ApprovalIInv, Repair
    <2>3. QED BY <2>1, <2>2
  <1>6. ASSUME NEW v \in Released, NEW yank, rollback_library_version(v, yank)
        PROVE  ApprovalIInv'
    <2>1. CASE refused(Library, RollbackKinds) BY <1>1, <2>1 DEF refused
    <2>2. CASE ~refused(Library, RollbackKinds)
      <3>1. PICK pc \in {"deprecate", "corrective"} :
              cmd' = [NoCmd EXCEPT !.pc = pc, !.kind = "version", !.on = {v}]
        BY <1>6, <2>2 DEF rollback_library_version, typed
      <3>2. \A n \in DOMAIN RollbackKinds : released(Library, RollbackKinds[n])
        BY <1>6, <2>2 DEF rollback_library_version, passed
      <3>3. cmd'.pc = pc /\ cmd'.kind = "version" /\ Shape' BY <3>1 DEF Shape, NoCmd
      <3>4. UNCHANGED approval BY <1>6, <2>2 DEF rollback_library_version, typed
      <3>5. ASSUME NEW g \in Gated, g[1] = Library, requires_approval(g[2])
            PROVE  approval[g] = "APPROVED"
        <4>1. g \in {Library} \X {RollbackKinds[n] : n \in DOMAIN RollbackKinds}
          BY <3>5, DisjointAssumption, RevertableAssumption DEF Gated
        <4>2. PICK n \in DOMAIN RollbackKinds : g = <<Library, RollbackKinds[n]>> BY <3>5, <4>1
        <4>3. QED BY <3>2, <3>5, <4>2, ReleasedApproved
      <3>6. ApprovedFirst' BY <3>3, <3>4, <3>5 DEF ApprovedFirst, asked_for, requires_approval
      <3>7. QED BY <1>0, <3>3, <3>6 DEF ApprovalIInv, Repair
    <2>3. QED BY <2>1, <2>2
  <1>7. CASE \/ \E v \in Released : execute_version_release(v)
             \/ \E s \in {"trust-remote", "trust-local"} : repair_forge_state(s)
    <2>1. /\ Shape' /\ cmd'.kind \in {"release", "trust-remote", "trust-local"}
      BY <1>7 DEF execute_version_release, repair_forge_state, typed, Shape, NoCmd
    <2>2. QED BY <1>0, <2>1 DEF ApprovalIInv, ApprovedFirst
  <1>8. CASE commandStep \/ crash
    BY <1>1, <1>2, <1>3, <1>4, <1>8, Command_step DEF ApprovalIInv
  <1>9. CASE \/ \E i \in Items : start(i) \/ submit(i) \/ no_go(i) \/ merge(i) \/ block(i) \/ drift(i)
             \/ \E g \in Gated : forge_approve(g)
    BY <1>1, <1>9 DEF start, submit, no_go, merge, block, drift, aside, forge_approve
  <1>10. CASE UNCHANGED vars BY <1>1, <1>10 DEF vars
  <1>11. QED BY <1>5, <1>6, <1>7, <1>8, <1>9, <1>10 DEF Next

\* EXG-RBK-05 for every trust level and safe mode: every step of a revert has the approval of
\* its item, and every step of a version rollback all the approvals that its library needs,
\* whichever version they were asked for.
THEOREM RollbackApproved == Spec => []ApprovedFirst
  <1>1. Init => ApprovalIInv BY Init_ApprovalIInv
  <1>2. ApprovalIInv /\ [Next]_vars => ApprovalIInv' BY Next_ApprovalIInv
  <1>3. ApprovalIInv => ApprovedFirst BY DEF ApprovalIInv
  <1>4. QED BY <1>1, <1>2, <1>3, PTL DEF Spec

---------------------------------------------------------------------------
(* Releases: a tag is pushed before anything is published, and nothing reopens an  *)
(* item while its version is being released, since one command works at a time.    *)
Published ==
  /\ DOMAIN tag = Released /\ DOMAIN release = Released /\ DOMAIN journaled = Released
  /\ \A v \in Released : /\ "RELEASED" \in journaled[v] => "TAGGED" \in journaled[v]
                         /\ journaled[v] # {} => release[v] # "none"
                         /\ release[v] # "none" => tag[v] = "pushed"
  /\ cmd.pc \in Edit => \A v \in cmd.on : v \in Released /\ release[v] # "none"
  /\ cmd.pc \in {"tagged", "released"} => \A v \in cmd.on : v \in Released /\ release[v] # "none"
  /\ cmd.pc = "released" => \A v \in cmd.on : "TAGGED" \in journaled[v]
  /\ cmd.pc \in Release => \A v, w \in cmd.on : v = w

Covered ==
  /\ DOMAIN status = Items
  /\ cmd.pc \in Release =>
       \A v \in cmd.on : v \in Released /\ ScopeOf[v] # {} /\ \A i \in ScopeOf[v] : status[i] = "DONE"

ReleaseIInv == Shape /\ Published /\ Covered

LEMMA Init_ReleaseIInv == Init => ReleaseIInv
  <1> SUFFICES ASSUME Init PROVE ReleaseIInv OBVIOUS
  <1>1. Shape /\ cmd.pc = "idle" BY ShapeNoCmd DEF Init, Shape, NoCmd
  <1>2. DOMAIN status = Items BY DEF Init
  <1>3. PICK out \in SUBSET Released :
          /\ journaled = [v \in Released |-> IF v \in out THEN {"TAGGED", "RELEASED"} ELSE {}]
          /\ tag = [v \in Released |-> IF v \in out THEN "pushed" ELSE "none"]
          /\ release = [v \in Released |-> IF v \in out THEN "published" ELSE "none"]
    BY DEF Init
  <1>4. QED BY <1>1, <1>2, <1>3 DEF ReleaseIInv, Published, Covered, Edit, Release

\* Steps that leave tags and releases as they are.
Quiet == UNCHANGED <<tag, release, journaled>>

LEMMA QuietSteps ==
  ASSUME Shape, [Next]_vars
  PROVE  \/ Quiet
         \/ \E v \in Released : \/ deprecate_github_release(v) \/ yank_published_release(v)
                                \/ create_version_tag(v) \/ push_tag(v)
                                \/ create_github_release(v)
                                \/ append_tagged(v) \/ append_released(v)
  <1>1. CASE UNCHANGED vars BY <1>1 DEF vars, git, Quiet
  <1>2. CASE \E i \in Items : start(i) \/ submit(i) \/ no_go(i) \/ merge(i) \/ block(i) \/ drift(i)
    BY <1>2 DEF start, submit, no_go, merge, block, drift, aside, Quiet
  <1>3. CASE \E g \in Gated : forge_approve(g) BY <1>3 DEF forge_approve, git, Quiet
  <1>4. ASSUME NEW c, typed(c) PROVE Quiet BY <1>4 DEF typed, git, Quiet
  <1>5. ASSUME NEW x, NEW kinds, refused(x, kinds) PROVE Quiet BY <1>5 DEF refused, git, Quiet
  <1>6. CASE \/ \E i \in Revertable, target \in {"TODO", "BLOCKED"}, with_pr \in BOOLEAN :
                  revert_bl(i, target, with_pr)
             \/ \E v \in Released, yank \in BOOLEAN : rollback_library_version(v, yank)
             \/ \E v \in Released : execute_version_release(v)
             \/ \E s \in {"trust-remote", "trust-local"} : repair_forge_state(s)
    BY <1>4, <1>5, <1>6
    DEF revert_bl, rollback_library_version, execute_version_release, repair_forge_state
  <1>7. CASE commandStep \/ crash
    BY <1>7 DEF commandStep, crash, git, Quiet, default_prepare_revert_pr, execute_rollback,
       invalidate_done_dependents, _reopen_version_backlog_items,
       apply_version_no_go_side_effects, reopen_if_done, list_divergences, align, align_step,
       _apply_trust_local, _create_corrective_tag, evaluate_version_gate, loop_ends,
       create_version_issue, append_outcome, record_adr, probe_fails, listed, repaired
  <1>8. QED BY <1>1, <1>2, <1>3, <1>6, <1>7 DEF Next

\* What a step may do to the command, its start included.
LEMMA CommandChanges ==
  ASSUME Shape, [Next]_vars
  PROVE  \/ cmd' = cmd \/ Ended \/ GoesOn \/ TakesUp
         \/ Shape' /\ cmd'.pc \in {"pr", "reopen", "corrective", "list"}
         \/ \E v \in Released : \/ /\ Shape' /\ cmd'.pc = "deprecate" /\ cmd'.on = {v}
                                   /\ release[v] # "none"
                                \/ Shape' /\ cmd'.on = {v} /\ execute_version_release(v)
  <1>1. CASE UNCHANGED vars BY <1>1 DEF vars
  <1>2. CASE \/ \E i \in Items : start(i) \/ submit(i) \/ no_go(i) \/ merge(i) \/ block(i) \/ drift(i)
             \/ \E g \in Gated : forge_approve(g)
    BY <1>2 DEF start, submit, no_go, merge, block, drift, aside, forge_approve
  <1>3. ASSUME NEW i \in Revertable, NEW target, NEW with_pr, revert_bl(i, target, with_pr)
        PROVE  cmd' = cmd \/ (Shape' /\ cmd'.pc \in {"pr", "reopen"})
    BY <1>3 DEF revert_bl, refused, typed, Shape, NoCmd
  <1>4. ASSUME NEW v \in Released, NEW yank, rollback_library_version(v, yank)
        PROVE  \/ cmd' = cmd
               \/ Shape' /\ cmd'.pc = "corrective"
               \/ Shape' /\ cmd'.pc = "deprecate" /\ cmd'.on = {v} /\ release[v] # "none"
    BY <1>4 DEF rollback_library_version, refused, typed, Shape, NoCmd
  <1>5. ASSUME NEW v \in Released, execute_version_release(v)
        PROVE  Shape' /\ cmd'.on = {v}
    BY <1>5 DEF execute_version_release, typed, Shape, NoCmd
  <1>6. ASSUME NEW s, repair_forge_state(s)
        PROVE  Shape' /\ cmd'.pc = "list"
    BY <1>6 DEF repair_forge_state, typed, Shape, NoCmd
  <1>7. CASE commandStep \/ crash BY <1>7, Command_step
  <1>8. QED BY <1>1, <1>2, <1>3, <1>4, <1>5, <1>6, <1>7 DEF Next

\* What publication leaves in git, on GitHub and in the journal.
Facts ==
  /\ DOMAIN tag = Released /\ DOMAIN release = Released /\ DOMAIN journaled = Released
  /\ \A v \in Released : /\ "RELEASED" \in journaled[v] => "TAGGED" \in journaled[v]
                         /\ journaled[v] # {} => release[v] # "none"
                         /\ release[v] # "none" => tag[v] = "pushed"

\* A release that exists, and an event that is in the journal, stay.
Kept ==
  \A v \in Released : /\ release[v] # "none" => release'[v] # "none"
                      /\ journaled[v] \subseteq journaled'[v]

LEMMA FactsStay ==
  ASSUME ReleaseIInv, [Next]_vars PROVE Facts' /\ Kept
  <1>1. Facts BY DEF ReleaseIInv, Published, Facts
  <1>2. CASE Quiet BY <1>1, <1>2 DEF Quiet, Facts, Kept
  <1>3. ASSUME NEW v \in Released, deprecate_github_release(v) \/ yank_published_release(v)
        PROVE  Facts' /\ Kept
    <2>1. v \in cmd.on /\ cmd.pc \in Edit /\ UNCHANGED <<tag, journaled>>
      BY <1>3 DEF deprecate_github_release, yank_published_release, edits, subject, Edit
    <2>2. PICK r \in {"deprecated", "yanked"} : release' = [release EXCEPT ![v] = r]
      BY <1>3 DEF deprecate_github_release, yank_published_release, edits
    <2>3. release[v] # "none" BY <2>1 DEF ReleaseIInv, Published
    <2>4. QED BY <1>1, <2>1, <2>2, <2>3 DEF Facts, Kept
  <1>4. ASSUME NEW v \in Released, create_version_tag(v) PROVE Facts' /\ Kept
    BY <1>1, <1>4 DEF create_version_tag, Facts, Kept
  <1>5. ASSUME NEW v \in Released, push_tag(v) PROVE Facts' /\ Kept
    BY <1>1, <1>5 DEF push_tag, Facts, Kept
  <1>6. ASSUME NEW v \in Released, create_github_release(v) PROVE Facts' /\ Kept
    BY <1>1, <1>6 DEF create_github_release, Facts, Kept
  <1>7. ASSUME NEW v \in Released, append_tagged(v) \/ append_released(v) PROVE Facts' /\ Kept
    <2>1. PICK e \in {"TAGGED", "RELEASED"} :
            /\ journaled' = [journaled EXCEPT ![v] = journaled[v] \cup {e}]
            /\ e = "TAGGED" => cmd.pc = "tagged"
            /\ e = "RELEASED" => cmd.pc = "released"
      BY <1>7 DEF append_tagged, append_released
    <2>2. v \in cmd.on /\ UNCHANGED <<tag, release>>
      BY <1>7 DEF append_tagged, append_released, git, subject
    <2>3. release[v] # "none" /\ (e = "RELEASED" => "TAGGED" \in journaled[v])
      BY <2>1, <2>2 DEF ReleaseIInv, Published
    <2>4. QED BY <1>1, <2>1, <2>2, <2>3 DEF Facts, Kept
  <1>8. QED BY <1>2, <1>3, <1>4, <1>5, <1>6, <1>7, QuietSteps DEF ReleaseIInv

\* How a release comes to journal its events.
LEMMA Publishes ==
  ASSUME ReleaseIInv, [Next]_vars, cmd'.pc \in {"tagged", "released"}
  PROVE  \/ cmd' = cmd
         \/ \E v \in Released : create_github_release(v) /\ cmd'.pc = "tagged" /\ cmd'.on = cmd.on
         \/ \E v \in Released : append_tagged(v) /\ cmd'.pc = "released" /\ cmd'.on = cmd.on
  <1> USE DEF ReleaseIInv, Shape, goes, ends
  <1>1. CASE UNCHANGED vars BY <1>1 DEF vars
  <1>2. CASE \/ \E i \in Items : start(i) \/ submit(i) \/ no_go(i) \/ merge(i) \/ block(i) \/ drift(i)
             \/ \E g \in Gated : forge_approve(g)
    BY <1>2 DEF start, submit, no_go, merge, block, drift, aside, forge_approve
  <1>3. CASE \/ \E i \in Revertable, target \in {"TODO", "BLOCKED"}, with_pr \in BOOLEAN :
                  revert_bl(i, target, with_pr)
             \/ \E v \in Released, yank \in BOOLEAN : rollback_library_version(v, yank)
             \/ \E v \in Released : execute_version_release(v)
             \/ \E s \in {"trust-remote", "trust-local"} : repair_forge_state(s)
    BY <1>3 DEF revert_bl, rollback_library_version, execute_version_release,
       repair_forge_state, refused, typed, NoCmd
  <1>4. CASE commandStep \/ crash
    <2>1. cmd' # NoCmd BY DEF NoCmd
    <2>2. ASSUME NEW i \in Items,
                 \/ default_prepare_revert_pr(i) \/ execute_rollback(i)
                 \/ invalidate_done_dependents(i) \/ _reopen_version_backlog_items(i)
                 \/ apply_version_no_go_side_effects(i) \/ list_divergences(i) \/ align(i)
                 \/ align_step(i) \/ _apply_trust_local(i)
          PROVE  cmd' = cmd
      <3>1. CASE list_divergences(i)
        <4>1. PICK x : cmd' = [cmd EXCEPT !.todo = cmd.todo \ {i}, !.found = x]
          BY <3>1 DEF list_divergences
        <4>2. cmd.pc = "list" BY <3>1 DEF list_divergences
        <4>3. QED BY <4>1, <4>2
      <3>2. CASE align(i) BY <2>1, <3>2 DEF align
      <3>3. CASE align_step(i) BY <2>1, <3>3 DEF align_step
      <3>4. CASE \/ default_prepare_revert_pr(i) \/ execute_rollback(i) \/ _apply_trust_local(i)
        BY <2>1, <3>4 DEF default_prepare_revert_pr, execute_rollback, _apply_trust_local
      <3>5. CASE \/ invalidate_done_dependents(i) \/ _reopen_version_backlog_items(i)
                 \/ apply_version_no_go_side_effects(i)
        BY <3>5 DEF invalidate_done_dependents, _reopen_version_backlog_items,
           apply_version_no_go_side_effects, reopen_if_done
      <3>6. QED BY <2>2, <3>1, <3>2, <3>3, <3>4, <3>5
    <2>3. ASSUME NEW v \in Released,
                 \/ deprecate_github_release(v) \/ yank_published_release(v)
                 \/ _create_corrective_tag(v) \/ create_version_tag(v) \/ push_tag(v)
                 \/ append_released(v)
          PROVE  FALSE
      BY <2>1, <2>3 DEF deprecate_github_release, yank_published_release, edits,
         _create_corrective_tag, create_version_tag, push_tag, append_released
    <2>4. ASSUME NEW v \in Released, evaluate_version_gate(v) PROVE FALSE
      <3>1. \/ cmd' = [cmd EXCEPT !.pc = "tag"]
            \/ \E S : cmd' = [cmd EXCEPT !.pc = "no_go_issue", !.todo = S]
        BY <2>4 DEF evaluate_version_gate
      <3>2. QED BY <3>1
    <2>5. ASSUME NEW v \in Released, create_github_release(v) \/ append_tagged(v)
          PROVE  \/ create_github_release(v) /\ cmd'.pc = "tagged" /\ cmd'.on = cmd.on
                 \/ append_tagged(v) /\ cmd'.pc = "released" /\ cmd'.on = cmd.on
      BY <2>1, <2>5 DEF create_github_release, append_tagged
    <2>6. CASE \/ loop_ends("dependents", "adr") \/ loop_ends("scoped", "version_issue")
               \/ loop_ends("faulty", "issue_opened") \/ create_version_issue
               \/ append_outcome \/ record_adr \/ probe_fails \/ listed \/ repaired \/ crash
      BY <2>1, <2>6 DEF loop_ends, create_version_issue, append_outcome, record_adr,
         probe_fails, listed, repaired, crash
    <2>7. QED BY <1>4, <2>2, <2>3, <2>4, <2>5, <2>6 DEF commandStep
  <1>5. QED BY <1>1, <1>2, <1>3, <1>4 DEF Next

LEMMA Next_Published ==
  ASSUME ReleaseIInv, [Next]_vars PROVE Published'
  <1>1. Facts' /\ Kept BY FactsStay
  <1>2. cmd'.pc \in Edit => \A v \in cmd'.on : v \in Released /\ release'[v] # "none"
    <2>1. CASE cmd' = cmd \/ GoesOn
      BY <1>1, <2>1 DEF ReleaseIInv, Published, GoesOn, Kept
    <2>2. ASSUME NEW v \in Released, cmd'.pc = "deprecate", cmd'.on = {v}, release[v] # "none"
          PROVE  \A w \in cmd'.on : w \in Released /\ release'[w] # "none"
      BY <1>1, <2>2 DEF Kept
    <2>3. CASE Ended \/ TakesUp \/ cmd'.pc \in {"pr", "reopen", "corrective", "list"}
      BY <2>3 DEF Ended, TakesUp, NoCmd, Edit
    <2>4. ASSUME NEW v \in Released, execute_version_release(v) PROVE cmd'.pc \notin Edit
      BY <2>4 DEF execute_version_release, typed, NoCmd, Edit
    <2>5. QED BY <2>1, <2>2, <2>3, <2>4, CommandChanges DEF ReleaseIInv
  <1>3. ASSUME cmd'.pc \in {"tagged", "released"}
        PROVE  /\ \A v \in cmd'.on : v \in Released /\ release'[v] # "none"
               /\ cmd'.pc = "released" => \A v \in cmd'.on : "TAGGED" \in journaled'[v]
    <2>1. CASE cmd' = cmd BY <1>1, <1>3, <2>1 DEF ReleaseIInv, Published, Kept
    <2>2. ASSUME NEW v \in Released, create_github_release(v), cmd'.pc = "tagged",
                 cmd'.on = cmd.on
          PROVE  \A w \in cmd'.on : w \in Released /\ release'[w] # "none"
      <3>1. cmd.pc = "publish" /\ v \in cmd.on BY <2>2 DEF create_github_release, subject
      <3>2. \A w \in cmd.on : w = v BY <3>1 DEF ReleaseIInv, Published, Release
      <3>3. release_accepted(v)
        BY <2>2 DEF create_github_release, ends, NoCmd
      <3>4. release'[v] # "none"
        BY <2>2, <3>3 DEF create_github_release, release_accepted, ReleaseIInv, Published
      <3>5. QED BY <2>2, <3>2, <3>4
    <2>3. ASSUME NEW v \in Released, append_tagged(v), cmd'.pc = "released", cmd'.on = cmd.on
          PROVE  \A w \in cmd'.on : /\ w \in Released /\ release'[w] # "none"
                                    /\ "TAGGED" \in journaled'[w]
      <3>1. cmd.pc = "tagged" /\ v \in cmd.on /\ release' = release
            /\ journaled' = [journaled EXCEPT ![v] = journaled[v] \cup {"TAGGED"}]
        BY <2>3 DEF append_tagged, subject, git
      <3>2. \A w \in cmd.on : w = v BY <3>1 DEF ReleaseIInv, Published, Release
      <3>3. QED BY <2>3, <3>1, <3>2 DEF ReleaseIInv, Published
    <2>4. QED BY <1>3, <2>1, <2>2, <2>3, Publishes
  <1>4. cmd'.pc \in Release => \A v, w \in cmd'.on : v = w
    <2>1. CASE cmd' = cmd \/ GoesOn BY <2>1 DEF ReleaseIInv, Published, GoesOn
    <2>2. ASSUME NEW v \in Released, cmd'.on = {v} PROVE \A u, w \in cmd'.on : u = w BY <2>2
    <2>3. CASE Ended \/ TakesUp \/ cmd'.pc \in {"pr", "reopen", "corrective", "list"}
      BY <2>3 DEF Ended, TakesUp, NoCmd, Release
    <2>4. QED BY <2>1, <2>2, <2>3, CommandChanges DEF ReleaseIInv
  <1>5. QED BY <1>1, <1>2, <1>3, <1>4 DEF Published, Facts

\* While a version is being released, finished items stay finished.
LEMMA DoneStays ==
  ASSUME DOMAIN status = Items, Shape, [Next]_vars
  PROVE  /\ DOMAIN status' = Items
         /\ cmd.pc \in Release =>
              \A j \in Items : status[j] = "DONE" => status'[j] = "DONE"
  <1> DEFINE Stays == /\ DOMAIN status' = Items
                      /\ cmd.pc \in Release =>
                           \A j \in Items : status[j] = "DONE" => status'[j] = "DONE"
  <1>1. ASSUME UNCHANGED status PROVE Stays BY <1>1
  <1>2. ASSUME NEW i, NEW s, moves(i, s), status[i] # "DONE" \/ cmd.pc \notin Release
        PROVE  Stays
    BY <1>2 DEF moves
  <1>3. CASE \E i \in Items : start(i) \/ submit(i) \/ no_go(i) \/ merge(i) \/ block(i) \/ drift(i)
    <2>1. PICK i \in Items : start(i) \/ submit(i) \/ no_go(i) \/ merge(i) \/ block(i) \/ drift(i)
      BY <1>3
    <2>2. CASE start(i) BY <1>2, <2>2 DEF start
    <2>3. CASE submit(i)
      <3>1. status[i] # "DONE" /\ (moves(i, "IN_TEST") \/ moves(i, "IN_REVIEW"))
        BY <2>3 DEF submit
      <3>2. QED BY <1>2, <3>1
    <2>4. CASE no_go(i)
      <3>1. ~can_transition("DONE", NoGo)
        BY DEF can_transition, NoGo, LEGAL_TRANSITIONS, Status
      <3>2. QED BY <1>2, <2>4, <3>1 DEF no_go
    <2>5. CASE merge(i) BY <1>2, <2>5 DEF merge
    <2>6. CASE block(i) BY <1>2, <2>6 DEF block, INTERRUPTED_STATUSES
    <2>7. CASE drift(i) BY <1>1, <2>7 DEF drift
    <2>8. QED BY <2>1, <2>2, <2>3, <2>4, <2>5, <2>6, <2>7
  <1>4. CASE UNCHANGED vars BY <1>1, <1>4 DEF vars
  <1>5. CASE \/ \E g \in Gated : forge_approve(g)
             \/ \E i \in Revertable, target \in {"TODO", "BLOCKED"}, with_pr \in BOOLEAN :
                  revert_bl(i, target, with_pr)
             \/ \E v \in Released, yank \in BOOLEAN : rollback_library_version(v, yank)
             \/ \E v \in Released : execute_version_release(v)
             \/ \E s \in {"trust-remote", "trust-local"} : repair_forge_state(s)
    BY <1>1, <1>5 DEF forge_approve, revert_bl, rollback_library_version,
       execute_version_release, repair_forge_state, refused, typed
  <1>6. CASE commandStep \/ crash
    <2>1. ASSUME NEW i, reopen_if_done(i, "TODO") \/ reopen_if_done(i, "IN_PROGRESS"),
                 cmd.pc \notin Release
          PROVE  Stays
      BY <1>1, <1>2, <2>1 DEF reopen_if_done, reopen
    <2>2. ASSUME NEW i, \/ execute_rollback(i) \/ invalidate_done_dependents(i)
                        \/ _reopen_version_backlog_items(i)
                        \/ apply_version_no_go_side_effects(i)
          PROVE  Stays
      <3>1. cmd.pc \notin Release
        BY <2>2 DEF execute_rollback, invalidate_done_dependents,
           _reopen_version_backlog_items, apply_version_no_go_side_effects, Release
      <3>2. CASE execute_rollback(i) BY <1>2, <3>1, <3>2 DEF execute_rollback, reopen
      <3>3. CASE ~execute_rollback(i)
        BY <2>1, <2>2, <3>1, <3>3 DEF invalidate_done_dependents,
           _reopen_version_backlog_items, apply_version_no_go_side_effects
      <3>4. QED BY <3>2, <3>3
    <2>3. ASSUME NEW i, align_step(i) PROVE Stays
      <3>1. cmd.pc \notin Release BY <2>3 DEF align_step, Release
      <3>2. UNCHANGED status \/ moves(i, Head(cmd.plan).target) BY <2>3 DEF align_step
      <3>3. QED BY <1>1, <1>2, <3>1, <3>2
    <2>4. CASE \/ \E i \in Items : \/ default_prepare_revert_pr(i) \/ list_divergences(i)
                                  \/ align(i) \/ _apply_trust_local(i)
               \/ \E v \in Released :
                    \/ deprecate_github_release(v) \/ yank_published_release(v)
                    \/ _create_corrective_tag(v) \/ evaluate_version_gate(v)
                    \/ create_version_tag(v) \/ push_tag(v) \/ create_github_release(v)
                    \/ append_tagged(v) \/ append_released(v)
               \/ loop_ends("dependents", "adr") \/ loop_ends("scoped", "version_issue")
               \/ loop_ends("faulty", "issue_opened") \/ create_version_issue \/ append_outcome
               \/ record_adr \/ probe_fails \/ listed \/ repaired \/ crash
      BY <1>1, <2>4 DEF default_prepare_revert_pr, list_divergences, align,
         _apply_trust_local, deprecate_github_release, yank_published_release, edits,
         _create_corrective_tag, evaluate_version_gate, create_version_tag, push_tag,
         create_github_release, append_tagged, append_released, loop_ends, create_version_issue,
         append_outcome, record_adr, probe_fails, listed, repaired, crash
    <2>5. QED BY <1>6, <2>2, <2>3, <2>4 DEF commandStep
  <1>7. QED BY <1>3, <1>4, <1>5, <1>6 DEF Next

LEMMA Next_Covered ==
  ASSUME ReleaseIInv, [Next]_vars PROVE Covered'
  <1>1. /\ DOMAIN status' = Items
        /\ cmd.pc \in Release =>
             \A j \in Items : status[j] = "DONE" => status'[j] = "DONE"
    BY DoneStays DEF ReleaseIInv, Covered
  <1>2. \A v \in Released : ScopeOf[v] \subseteq Items BY ScopeAssumption
  <1>3. CASE cmd' = cmd \/ GoesOn
    BY <1>1, <1>2, <1>3 DEF ReleaseIInv, Covered, GoesOn
  <1>4. CASE Ended \/ TakesUp \/ cmd'.pc \in {"pr", "reopen", "corrective", "list", "deprecate"}
    BY <1>1, <1>4 DEF Ended, TakesUp, NoCmd, Release, Covered
  <1>5. ASSUME NEW v \in Released, cmd'.on = {v}, execute_version_release(v) PROVE Covered'
    BY <1>1, <1>5
    DEF execute_version_release, typed, is_library_version_complete, Covered
  <1>6. QED BY <1>3, <1>4, <1>5, CommandChanges DEF ReleaseIInv

LEMMA Next_ReleaseIInv ==
  ASSUME ReleaseIInv, [Next]_vars PROVE ReleaseIInv'
  <1>1. Shape'
    BY CommandChanges, ShapeNoCmd DEF ReleaseIInv, Shape, Ended, GoesOn, TakesUp
  <1>2. QED BY <1>1, Next_Published, Next_Covered DEF ReleaseIInv

\* EXG-VER-01 for every library, whatever the crashes between the effects of a release and
\* however often it is tried again: the tag is pushed before GitHub has the release, which it has
\* before either event, TAGGED comes before RELEASED, and what is being released is complete.
THEOREM ReleaseComplete == Spec => []ReleaseCovers
  <1>1. Init => ReleaseIInv BY Init_ReleaseIInv
  <1>2. ReleaseIInv /\ [Next]_vars => ReleaseIInv' BY Next_ReleaseIInv
  <1>3. ReleaseIInv => ReleaseCovers
    BY DEF ReleaseIInv, Published, Covered, ReleaseCovers, Release
  <1>4. QED BY <1>1, <1>2, <1>3, PTL DEF Spec

---------------------------------------------------------------------------
(* The dependents of an item: the recursive function of the module is defined for *)
(* every number of rounds, and its rounds reach a fixed point.                     *)
\* A set of numbers that is not empty has a least one.
LEMMA Least ==
  ASSUME NEW S \in SUBSET Nat, S # {}
  PROVE  \E n \in S : \A m \in S : n <= m
  <1>1. PICK x \in S : \A y \in S : ~(<<y, x>> \in OpToRel(<, Nat))
    BY WFMin, NatLessThanWellFounded
  <1>2. \A y \in S : ~(y < x) BY <1>1 DEF OpToRel
  <1>3. QED BY <1>2

\* A set that has 0, and n + 1 whenever it has n, is all of Nat.
LEMMA Everything ==
  ASSUME NEW S, 0 \in S, \A n \in Nat : n \in S => n + 1 \in S
  PROVE  \A n \in Nat : n \in S
  <1> SUFFICES ASSUME Nat \ S # {} PROVE FALSE OBVIOUS
  <1>1. PICK n \in Nat \ S : \A m \in Nat \ S : n <= m BY Least
  <1>2. n # 0 /\ n - 1 \in Nat OBVIOUS
  <1>3. n - 1 \in S BY <1>1, <1>2
  <1>4. QED BY <1>1, <1>2, <1>3

\* Iterating a function is well defined.
LEMMA Iterates ==
  ASSUME NEW T, NEW a \in T, NEW G \in [T -> T]
  PROVE  \E g \in [Nat -> T] : g[0] = a /\ \A n \in Nat : n # 0 => g[n] = G[g[n - 1]]
  <1> DEFINE Upto(n) == {h \in [Nat -> T] : h[0] = a /\ \A m \in Nat : m < n => h[m + 1] = G[h[m]]}
             Some == {n \in Nat : Upto(n) # {}}
             Same == {n \in Nat : \A x, y \in Upto(n) : x[n] = y[n]}
             pick(n) == CHOOSE h \in Upto(n) : TRUE
             g == [n \in Nat |-> pick(n)[n]]
  <1>1. \A n \in Nat : n \in Some
    <2>1. 0 \in Some
      <3>1. [m \in Nat |-> a] \in Upto(0) OBVIOUS
      <3>2. QED BY <3>1
    <2>2. ASSUME NEW n \in Nat, n \in Some PROVE n + 1 \in Some
      <3>1. PICK h \in Upto(n) : TRUE BY <2>2
      <3> DEFINE k == [h EXCEPT ![n + 1] = G[h[n]]]
      <3>2. k \in [Nat -> T] OBVIOUS
      <3>3. k[0] = a OBVIOUS
      <3>4. ASSUME NEW m \in Nat, m < n + 1 PROVE k[m + 1] = G[k[m]]
        <4>1. CASE m = n BY <4>1
        <4>2. CASE m < n BY <4>2
        <4>3. QED BY <3>4, <4>1, <4>2
      <3> HIDE DEF k
      <3>5. k \in Upto(n + 1) BY <3>2, <3>3, <3>4
      <3> HIDE DEF Upto
      <3>6. n + 1 \in Nat /\ Upto(n + 1) # {} BY <3>5
      <3>7. QED BY <3>6
    <2> HIDE DEF Some
    <2>3. QED BY <2>1, <2>2, Everything
  <1>2. \A n \in Nat : n \in Same
    <2>1. 0 \in Same OBVIOUS
    <2>2. ASSUME NEW n \in Nat, n \in Same PROVE n + 1 \in Same
      <3>1. ASSUME NEW x \in Upto(n + 1), NEW y \in Upto(n + 1) PROVE x[n + 1] = y[n + 1]
        <4>1. x \in Upto(n) /\ y \in Upto(n) OBVIOUS
        <4>2. x[n + 1] = G[x[n]] /\ y[n + 1] = G[y[n]] OBVIOUS
        <4>3. x[n] = y[n] BY <2>2, <4>1
        <4>4. QED BY <4>2, <4>3
      <3>2. QED BY <3>1
    <2> HIDE DEF Same
    <2>3. QED BY <2>1, <2>2, Everything
  <1>3. \A n \in Nat : pick(n) \in Upto(n) BY <1>1
  <1> HIDE DEF pick
  <1>4. g \in [Nat -> T] BY <1>3
  <1>5. g[0] = a BY <1>3
  <1>6. ASSUME NEW n \in Nat, n # 0 PROVE g[n] = G[g[n - 1]]
    <2>1. n - 1 \in Nat /\ (n - 1) + 1 = n BY <1>6
    <2>2. pick(n) \in Upto(n - 1) /\ pick(n)[n] = G[pick(n)[n - 1]] BY <1>3, <2>1
    <2>3. pick(n)[n - 1] = pick(n - 1)[n - 1] BY <1>2, <1>3, <2>1, <2>2
    <2>4. QED BY <2>1, <2>2, <2>3
  <1> HIDE DEF g
  <1>7. QED BY <1>4, <1>5, <1>6

\* One more round: the items that depend on i or on one of S join S.
Grown(S, i) == S \cup {j \in Items : DependsOn[j] \cap (S \cup {i}) # {}}

\* The rounds that transitive_dependents counts.
LEMMA Rounds ==
  ASSUME NEW i
  PROVE  \E f \in [Nat -> SUBSET Items] :
           /\ f[0] = {} /\ \A n \in Nat : f[n + 1] = Grown(f[n], i)
           /\ transitive_dependents(i) = f[Cardinality(Items)]
  <1> DEFINE grown(S) == S \cup {j \in Items : DependsOn[j] \cap (S \cup {i}) # {}}
             G == [S \in SUBSET Items |-> grown(S)]
             Is(f) == f = [n \in Nat |-> IF n = 0 THEN {} ELSE grown(f[n - 1])]
             f == CHOOSE x : Is(x)
  <1>1. G \in [SUBSET Items -> SUBSET Items] OBVIOUS
  <1> HIDE DEF G
  <1>2. PICK g \in [Nat -> SUBSET Items] :
          g[0] = {} /\ \A n \in Nat : n # 0 => g[n] = G[g[n - 1]]
    <2> DEFINE T == SUBSET Items
               none == {}
    <2>1. none \in T /\ G \in [T -> T] BY <1>1
    <2> HIDE DEF T, none
    <2>2. \E g \in [Nat -> T] : g[0] = none /\ \A n \in Nat : n # 0 => g[n] = G[g[n - 1]]
      BY <2>1, Iterates
    <2>3. QED BY <2>2 DEF T, none
  <1>3. Is(g)
    <2>1. \A n \in Nat : n # 0 => n - 1 \in Nat OBVIOUS
    <2>2. \A n \in Nat : n # 0 => G[g[n - 1]] = grown(g[n - 1]) BY <2>1 DEF G
    <2> HIDE DEF grown
    <2>3. QED BY <1>2, <2>2
  <1>4. Is(f) BY <1>3
  <1>5. transitive_dependents(i) = f[Cardinality(Items)] BY DEF transitive_dependents
  <1> HIDE DEF f
  <1>6. f[0] = {} /\ DOMAIN f = Nat /\ f = [n \in Nat |-> f[n]] BY <1>4
  <1>7. ASSUME NEW n \in Nat PROVE f[n + 1] = Grown(f[n], i)
    <2>1. n + 1 \in Nat /\ n + 1 # 0 /\ (n + 1) - 1 = n OBVIOUS
    <2> HIDE DEF grown
    <2>2. f[n + 1] = grown(f[(n + 1) - 1]) BY <1>4, <2>1
    <2>3. QED BY <2>1, <2>2 DEF grown, Grown
  <1>8. \A n \in Nat : f[n] \in SUBSET Items
    <2> DEFINE In == {n \in Nat : f[n] \in SUBSET Items}
    <2>1. 0 \in In BY <1>6
    <2>2. ASSUME NEW n \in Nat, n \in In PROVE n + 1 \in In BY <1>7, <2>2 DEF Grown
    <2> HIDE DEF In
    <2>3. \A n \in Nat : n \in In BY <2>1, <2>2, Everything
    <2>4. QED BY <2>3 DEF In
  <1>9. f \in [Nat -> SUBSET Items] BY <1>6, <1>8
  <1> QED BY <1>5, <1>6, <1>7, <1>9

\* forge revert looks at every item that depends on the reverted one, directly or through
\* others, and at no other: as many rounds as there are items always suffice.
THEOREM DependentsAreTransitive ==
  ASSUME NEW i
  PROVE  /\ transitive_dependents(i) \subseteq Items
         /\ \A j \in Items : DependsOn[j] \cap (transitive_dependents(i) \cup {i}) # {}
                               => j \in transitive_dependents(i)
         /\ \A S : (\A j \in Items : DependsOn[j] \cap (S \cup {i}) # {} => j \in S)
                     => transitive_dependents(i) \subseteq S
  <1>1. PICK f \in [Nat -> SUBSET Items] :
           /\ f[0] = {} /\ \A n \in Nat : f[n + 1] = Grown(f[n], i)
           /\ transitive_dependents(i) = f[Cardinality(Items)]
    BY Rounds
  <1> DEFINE N == Cardinality(Items)
  <1>2. N \in Nat BY ItemsAssumption, FS_CardinalityType
  <1>3. ASSUME NEW S, \A j \in Items : DependsOn[j] \cap (S \cup {i}) # {} => j \in S
        PROVE  f[N] \subseteq S
    <2> DEFINE In == {n \in Nat : f[n] \subseteq S}
    <2>1. 0 \in In BY <1>1
    <2>2. ASSUME NEW n \in Nat, n \in In PROVE n + 1 \in In
      <3>1. f[n + 1] = Grown(f[n], i) /\ f[n] \subseteq S BY <1>1, <2>2
      <3>2. Grown(f[n], i) \subseteq S BY <1>3, <3>1 DEF Grown
      <3>3. QED BY <3>1, <3>2
    <2> HIDE DEF In
    <2>3. \A n \in Nat : n \in In BY <2>1, <2>2, Everything
    <2>4. QED BY <1>2, <2>3 DEF In
  <1>4. ASSUME NEW n \in Nat PROVE Cardinality(f[n]) >= n \/ Grown(f[n], i) = f[n]
    <2> DEFINE In == {m \in Nat : Cardinality(f[m]) >= m \/ Grown(f[m], i) = f[m]}
    <2>1. 0 \in In BY <1>1, FS_EmptySet
    <2>2. ASSUME NEW m \in Nat, m \in In PROVE m + 1 \in In
      <3>1. f[m + 1] = Grown(f[m], i) BY <1>1
      <3>2. CASE Grown(f[m], i) = f[m] BY <3>1, <3>2
      <3>3. CASE Grown(f[m], i) # f[m]
        <4>1. Cardinality(f[m]) >= m BY <2>2, <3>3
        <4>2. f[m] \subseteq f[m + 1] /\ f[m] # f[m + 1] /\ f[m + 1] \in SUBSET Items
          BY <1>1, <3>1, <3>3 DEF Grown
        <4>3. IsFiniteSet(f[m + 1]) BY <4>2, ItemsAssumption, FS_Subset
        <4>4. Cardinality(f[m]) < Cardinality(f[m + 1])
          BY <4>2, <4>3, FS_Subset, FS_CardinalityType
        <4>5. Cardinality(f[m]) \in Nat /\ Cardinality(f[m + 1]) \in Nat
          BY <4>2, <4>3, FS_Subset, FS_CardinalityType
        <4>6. QED BY <4>1, <4>4, <4>5
      <3>4. QED BY <3>2, <3>3
    <2> HIDE DEF In
    <2>3. \A m \in Nat : m \in In BY <2>1, <2>2, Everything
    <2>4. QED BY <2>3 DEF In
  <1>5. Grown(f[N], i) = f[N]
    <2>1. f[N] \in SUBSET Items BY <1>2
    <2>2. CASE Cardinality(f[N]) >= N
      <3>1. f[N] = Items BY <1>2, <2>1, <2>2, ItemsAssumption, FS_Subset, FS_CardinalityType
      <3>2. QED BY <3>1 DEF Grown
    <2>3. QED BY <1>2, <1>4, <2>2
  <1> HIDE DEF N
  <1>6. \A j \in Items : DependsOn[j] \cap (f[N] \cup {i}) # {} => j \in f[N] BY <1>5 DEF Grown
  <1>7. f[N] \subseteq Items BY <1>1, <1>2
  <1>8. transitive_dependents(i) = f[N] BY <1>1 DEF N
  <1> QED BY <1>3, <1>6, <1>7, <1>8

---------------------------------------------------------------------------
(* Types. What a repair may find and plan comes first: the plans are few and short, *)
(* because a probe never asks for READY, IN_TEST, BLOCKED or DONE.                  *)
Seen == {"TODO", "IN_PROGRESS", "IN_REVIEW"}

\* What a probe may find of an item that is not as it should be.
Divergence ==
  {d \in [local : Status, remote : Seen] :
     d.local # d.remote /\ (d.local = "DONE" => d.remote # "TODO")}

\* What is still to be requested, from any point of the way.
Plans == {<<>>, <<Plain("TODO")>>, <<Plain("IN_PROGRESS")>>, <<NoGo>>, <<Reopen("IN_PROGRESS")>>,
          <<Plain("IN_REVIEW")>>, <<Plain("IN_TEST"), Plain("IN_REVIEW")>>,
          <<Plain("IN_PROGRESS"), Plain("IN_TEST"), Plain("IN_REVIEW")>>,
          <<Reopen("IN_PROGRESS"), Plain("IN_TEST"), Plain("IN_REVIEW")>>,
          <<Plain("READY"), Plain("IN_PROGRESS"), Plain("IN_TEST"), Plain("IN_REVIEW")>>}

LEMMA Requests ==
  /\ \A s : /\ Plain(s).target = s /\ ~Plain(s).no_go /\ ~Plain(s).privileged_reopen
            /\ Reopen(s).target = s /\ ~Reopen(s).no_go /\ Reopen(s).privileged_reopen
  /\ NoGo.target = "IN_PROGRESS" /\ NoGo.no_go /\ ~NoGo.privileged_reopen
  BY DEF Plain, Reopen, NoGo

LEMMA Pipeline ==
  /\ index("TODO") = 1 /\ index("READY") = 2 /\ index("IN_PROGRESS") = 3 /\ index("IN_TEST") = 4
  /\ index("IN_REVIEW") = 5 /\ index("DONE") = 6
  <1>1. /\ DOMAIN _STATUS_PIPELINE = 1..6
        /\ _STATUS_PIPELINE[1] = "TODO" /\ _STATUS_PIPELINE[2] = "READY"
        /\ _STATUS_PIPELINE[3] = "IN_PROGRESS" /\ _STATUS_PIPELINE[4] = "IN_TEST"
        /\ _STATUS_PIPELINE[5] = "IN_REVIEW" /\ _STATUS_PIPELINE[6] = "DONE"
    BY DEF _STATUS_PIPELINE
  <1> DEFINE P == _STATUS_PIPELINE
  <1>2. \A n \in 1..6 : \A m \in 1..6 : P[n] = P[m] => n = m BY <1>1
  <1> HIDE DEF P
  <1>3. ASSUME NEW n \in 1..6 PROVE index(P[n]) = n
    <2>1. index(P[n]) = CHOOSE m \in 1..6 : P[m] = P[n] BY <1>1 DEF index, P
    <2>2. QED BY <1>2, <2>1
  <1>4. QED BY <1>1, <1>3 DEF P

\* Which requests are legal from where.
LEMMA Legal ==
  ASSUME NEW s \in Status, NEW t \in Seen
  PROVE  can_transition(s, Plain(t)) <=>
           \/ t = "TODO" /\ s = "READY"
           \/ t = "IN_PROGRESS" /\ s \in {"TODO", "READY", "BLOCKED"}
           \/ t = "IN_REVIEW" /\ s = "IN_TEST"
  BY Requests DEF can_transition, LEGAL_TRANSITIONS, NO_GO_SOURCES, Status, Seen

LEMMA PlanSteps ==
  /\ Plain("TODO") \in TransitionRequest /\ Plain("READY") \in TransitionRequest
  /\ Plain("IN_PROGRESS") \in TransitionRequest /\ Plain("IN_TEST") \in TransitionRequest
  /\ Plain("IN_REVIEW") \in TransitionRequest /\ NoGo \in TransitionRequest
  /\ Reopen("IN_PROGRESS") \in TransitionRequest
  BY DEF TransitionRequest, Plain, NoGo, Reopen, Status

\* Short sequences, taken apart.
LEMMA Short ==
  ASSUME NEW T, NEW a \in T, NEW b \in T, NEW c \in T, NEW d \in T
  PROVE  /\ Head(<<a>>) = a /\ Tail(<<a>>) = <<>> /\ Len(<<a>>) = 1
         /\ Head(<<a, b>>) = a /\ Tail(<<a, b>>) = <<b>> /\ Len(<<a, b>>) = 2
         /\ Head(<<a, b, c>>) = a /\ Tail(<<a, b, c>>) = <<b, c>> /\ Len(<<a, b, c>>) = 3
         /\ Head(<<a, b, c, d>>) = a /\ Tail(<<a, b, c, d>>) = <<b, c, d>>
         /\ Len(<<a, b, c, d>>) = 4
         /\ <<a>> \o <<>> = <<a>>
  <1>1. Head(<<a>>) = a /\ Tail(<<a>>) = <<>> /\ Len(<<a>>) = 1 OBVIOUS
  <1>2. Head(<<a, b>>) = a /\ Tail(<<a, b>>) = <<b>> /\ Len(<<a, b>>) = 2 OBVIOUS
  <1>3. Head(<<a, b, c>>) = a /\ Len(<<a, b, c>>) = 3 OBVIOUS
  <1>4. Tail(<<a, b, c>>) = <<b, c>> OBVIOUS
  <1>5. Head(<<a, b, c, d>>) = a /\ Len(<<a, b, c, d>>) = 4 OBVIOUS
  <1>6. Tail(<<a, b, c, d>>) = <<b, c, d>> OBVIOUS
  <1>7. <<a>> \o <<>> = <<a>> OBVIOUS
  <1>8. QED BY <1>1, <1>2, <1>3, <1>4, <1>5, <1>6, <1>7

LEMMA Joined ==
  ASSUME NEW T, NEW a \in T, NEW b \in T, NEW c \in T
  PROVE  <<a>> \o <<b, c>> = <<a, b, c>>
  <1> DEFINE s == <<a>>
             u == <<b, c>>
             v == s \o u
             w == <<a, b, c>>
  <1>1. s \in Seq(T) /\ u \in Seq(T) /\ w \in Seq(T) /\ Len(s) = 1 /\ Len(u) = 2 /\ Len(w) = 3
    OBVIOUS
  <1>2. s[1] = a /\ u[1] = b /\ u[2] = c /\ w[1] = a /\ w[2] = b /\ w[3] = c OBVIOUS
  <1> HIDE DEF s, u, w
  <1>3. /\ v \in Seq(T) /\ Len(v) = Len(s) + Len(u)
        /\ \A n \in 1..Len(s) + Len(u) : v[n] = IF n <= Len(s) THEN s[n] ELSE u[n - Len(s)]
    BY <1>1, ConcatProperties
  <1> HIDE DEF v
  <1>4. v[1] = a /\ v[2] = b /\ v[3] = c BY <1>1, <1>2, <1>3
  <1>5. \A n \in 1..3 : v[n] = w[n] BY <1>2, <1>4
  <1>6. v = w BY <1>1, <1>3, <1>5
  <1>7. QED BY <1>6 DEF s, u, v, w

\* The steps along the pipeline to a review.
LEMMA Walks ==
  /\ walk("IN_PROGRESS", "IN_REVIEW") = <<Plain("IN_TEST"), Plain("IN_REVIEW")>>
  /\ walk("READY", "IN_REVIEW") = <<Plain("IN_PROGRESS"), Plain("IN_TEST"), Plain("IN_REVIEW")>>
  /\ walk("TODO", "IN_REVIEW") =
       <<Plain("READY"), Plain("IN_PROGRESS"), Plain("IN_TEST"), Plain("IN_REVIEW")>>
  <1> DEFINE P == _STATUS_PIPELINE
  <1>1. /\ P[2] = "READY" /\ P[3] = "IN_PROGRESS" /\ P[4] = "IN_TEST" /\ P[5] = "IN_REVIEW"
    BY DEF _STATUS_PIPELINE
  <1>2. /\ walk("IN_PROGRESS", "IN_REVIEW") = [n \in 1..2 |-> Plain(P[3 + n])]
        /\ walk("READY", "IN_REVIEW") = [n \in 1..3 |-> Plain(P[2 + n])]
        /\ walk("TODO", "IN_REVIEW") = [n \in 1..4 |-> Plain(P[1 + n])]
    BY Pipeline DEF walk
  <1> HIDE DEF P
  <1>3. [n \in 1..2 |-> Plain(P[3 + n])] = <<Plain(P[4]), Plain(P[5])>> OBVIOUS
  <1>4. [n \in 1..3 |-> Plain(P[2 + n])] = <<Plain(P[3]), Plain(P[4]), Plain(P[5])>> OBVIOUS
  <1>5. [n \in 1..4 |-> Plain(P[1 + n])] = <<Plain(P[2]), Plain(P[3]), Plain(P[4]), Plain(P[5])>>
    OBVIOUS
  <1>6. QED BY <1>1, <1>2, <1>3, <1>4, <1>5

\* A plan that leads to status t.
To(p, t) == p \in Plans /\ p # <<>> /\ p[Len(p)].target = t

LEMMA PlansLead ==
  /\ To(<<Plain("TODO")>>, "TODO") /\ To(<<Plain("IN_PROGRESS")>>, "IN_PROGRESS")
  /\ To(<<NoGo>>, "IN_PROGRESS") /\ To(<<Reopen("IN_PROGRESS")>>, "IN_PROGRESS")
  /\ To(<<Plain("IN_REVIEW")>>, "IN_REVIEW")
  /\ To(<<Plain("IN_TEST"), Plain("IN_REVIEW")>>, "IN_REVIEW")
  /\ To(<<Plain("IN_PROGRESS"), Plain("IN_TEST"), Plain("IN_REVIEW")>>, "IN_REVIEW")
  /\ To(<<Reopen("IN_PROGRESS"), Plain("IN_TEST"), Plain("IN_REVIEW")>>, "IN_REVIEW")
  /\ To(<<Plain("READY"), Plain("IN_PROGRESS"), Plain("IN_TEST"), Plain("IN_REVIEW")>>, "IN_REVIEW")
  BY Requests DEF To, Plans

LEMMA PlanLeads ==
  ASSUME NEW d \in Divergence, _align_status(d.local, d.remote) # Raise
  PROVE  To(_align_status(d.local, d.remote), d.remote)
  <1> DEFINE s == d.local
             t == d.remote
             plan == _align_status(s, t)
  <1>1. s \in Status /\ t \in Seen /\ s # t /\ (s = "DONE" => t # "TODO") BY DEF Divergence
  <1>2. plan # Raise OBVIOUS
  <1>3. CASE s = "DONE"
    <2>1. plan = <<Reopen("IN_PROGRESS")>> \o forward("IN_PROGRESS", t)
      BY <1>1, <1>3 DEF _align_status, Seen
    <2>2. CASE t = "IN_PROGRESS"
      <3>1. forward("IN_PROGRESS", "IN_PROGRESS") = <<>> BY DEF forward
      <3>2. plan = <<Reopen("IN_PROGRESS")>> BY <2>1, <2>2, <3>1, PlanSteps, Short
      <3>3. QED BY <2>2, <3>2, PlansLead
    <2>3. CASE t = "IN_REVIEW"
      <3>1. ~can_transition("IN_PROGRESS", Plain("IN_REVIEW")) BY Legal DEF Status, Seen
      <3>2. forward("IN_PROGRESS", "IN_REVIEW") = walk("IN_PROGRESS", "IN_REVIEW")
        BY <3>1, Pipeline DEF forward
      <3> DEFINE a == Reopen("IN_PROGRESS")
                 b == Plain("IN_TEST")
                 c == Plain("IN_REVIEW")
      <3>3. plan = <<a, b, c>>
        <4>1. plan = <<a>> \o <<b, c>> BY <2>1, <2>3, <3>2, Walks
        <4>2. a \in TransitionRequest /\ b \in TransitionRequest /\ c \in TransitionRequest
          BY PlanSteps
        <4>3. QED BY <4>1, <4>2, Joined
      <3>4. QED BY <2>3, <3>3, PlansLead
    <2>4. QED BY <1>1, <1>3, <2>2, <2>3 DEF Seen
  <1>4. CASE s # "DONE"
    <2>1. plan = forward(s, t) BY <1>4 DEF _align_status
    <2>2. CASE can_transition(s, Plain(t))
      <3>1. plan = <<Plain(t)>> BY <1>1, <2>1, <2>2 DEF forward
      <3>2. QED BY <1>1, <3>1, PlansLead DEF Seen
    <2>3. CASE ~can_transition(s, Plain(t)) /\ s = "BLOCKED"
      <3>1. plan = Raise BY <1>1, <2>1, <2>3 DEF forward
      <3>2. QED BY <1>2, <3>1
    <2>4. CASE ~can_transition(s, Plain(t)) /\ s # "BLOCKED"
      <3>1. plan = IF index(t) > index(s) THEN walk(s, t)
                   ELSE IF s = "IN_REVIEW" /\ t = "IN_PROGRESS" THEN <<NoGo>> ELSE Raise
        BY <1>1, <2>1, <2>4 DEF forward, Seen
      <3>2. CASE index(t) > index(s)
        <4>1. t = "IN_REVIEW" /\ s \in {"TODO", "READY", "IN_PROGRESS"}
          BY <1>1, <1>4, <2>4, <3>2, Legal, Pipeline DEF Status, Seen
        <4>2. QED BY <3>1, <3>2, <4>1, Walks, PlansLead
      <3>3. CASE ~(index(t) > index(s))
        <4>1. plan = <<NoGo>> /\ t = "IN_PROGRESS" BY <1>2, <3>1, <3>3
        <4>2. QED BY <4>1, PlansLead
      <3>4. QED BY <3>2, <3>3
    <2>5. QED BY <2>2, <2>3, <2>4
  <1>5. QED BY <1>3, <1>4

\* The rest of a plan, and where its next step leads.
Continues(p) ==
  /\ Head(p) \in TransitionRequest /\ Tail(p) \in Plans
  /\ Tail(p) = <<>> => p[Len(p)].target = Head(p).target
  /\ Tail(p) # <<>> => Tail(p)[Len(Tail(p))] = p[Len(p)]

LEMMA PlanRest == ASSUME NEW p \in Plans, p # <<>> PROVE Continues(p)
  <1> DEFINE T == TransitionRequest
  <1>0. <<>> \in Plans BY DEF Plans
  <1>1. ASSUME NEW a \in T, p = <<a>> PROVE Continues(p)
    BY <1>0, <1>1, Short DEF Continues
  <1>2. ASSUME NEW a \in T, NEW b \in T, p = <<a, b>>, <<b>> \in Plans PROVE Continues(p)
    <2>1. Head(p) = a /\ Tail(p) = <<b>> /\ Len(p) = 2 /\ Len(<<b>>) = 1 BY <1>2, Short
    <2>2. p[2] = b /\ <<b>>[1] = b /\ <<b>> # <<>> BY <1>2
    <2>3. QED BY <1>2, <2>1, <2>2 DEF Continues
  <1>3. ASSUME NEW a \in T, NEW b \in T, NEW c \in T, p = <<a, b, c>>, <<b, c>> \in Plans
        PROVE  Continues(p)
    <2>1. Head(p) = a /\ Tail(p) = <<b, c>> /\ Len(p) = 3 /\ Len(<<b, c>>) = 2 BY <1>3, Short
    <2>2. p[3] = c /\ <<b, c>>[2] = c /\ <<b, c>> # <<>> BY <1>3
    <2>3. QED BY <1>3, <2>1, <2>2 DEF Continues
  <1>4. ASSUME NEW a \in T, NEW b \in T, NEW c \in T, NEW d \in T, p = <<a, b, c, d>>,
               <<b, c, d>> \in Plans
        PROVE  Continues(p)
    <2>1. Head(p) = a /\ Tail(p) = <<b, c, d>> /\ Len(p) = 4 /\ Len(<<b, c, d>>) = 3
      BY <1>4, Short
    <2>2. p[4] = d /\ <<b, c, d>>[3] = d /\ <<b, c, d>> # <<>> BY <1>4
    <2>3. QED BY <1>4, <2>1, <2>2 DEF Continues
  <1>5. /\ <<Plain("IN_REVIEW")>> \in Plans
        /\ <<Plain("IN_TEST"), Plain("IN_REVIEW")>> \in Plans
        /\ <<Plain("IN_PROGRESS"), Plain("IN_TEST"), Plain("IN_REVIEW")>> \in Plans
    BY DEF Plans
  <1>6. CASE p \in {<<Plain("TODO")>>, <<Plain("IN_PROGRESS")>>, <<NoGo>>,
                    <<Reopen("IN_PROGRESS")>>, <<Plain("IN_REVIEW")>>}
    BY <1>1, <1>6, PlanSteps
  <1>7. CASE p = <<Plain("IN_TEST"), Plain("IN_REVIEW")>> BY <1>2, <1>5, <1>7, PlanSteps
  <1>8. CASE \/ p = <<Plain("IN_PROGRESS"), Plain("IN_TEST"), Plain("IN_REVIEW")>>
             \/ p = <<Reopen("IN_PROGRESS"), Plain("IN_TEST"), Plain("IN_REVIEW")>>
    BY <1>3, <1>5, <1>8, PlanSteps
  <1>9. CASE p = <<Plain("READY"), Plain("IN_PROGRESS"), Plain("IN_TEST"), Plain("IN_REVIEW")>>
    BY <1>4, <1>5, <1>9, PlanSteps
  <1>10. QED BY <1>6, <1>7, <1>8, <1>9 DEF Plans

LEMMA PlanTypes ==
  ASSUME NEW p \in Plans
  PROVE  Len(p) \in 0..4 /\ \A n \in DOMAIN p : p[n] \in TransitionRequest
  <1>1. PICK a \in TransitionRequest, b \in TransitionRequest, c \in TransitionRequest,
             d \in TransitionRequest :
          p \in {<<>>, <<a>>, <<a, b>>, <<a, b, c>>, <<a, b, c, d>>}
    BY PlanSteps DEF Plans
  <1>2. QED BY <1>1

---------------------------------------------------------------------------
\* Where items stand, and what git and GitHub show of them.
Standing ==
  /\ status \in [Items -> Status]
  /\ real \in [Items -> {"none", "branch", "pr"}]

Pcs == {"idle", "pr", "reopen", "dependents", "adr", "deprecate", "yank", "corrective",
        "scoped", "version_issue", "rolled_back", "gate", "tag", "push", "publish", "tagged",
        "released", "no_go_issue", "faulty", "issue_opened", "list", "align", "walk", "replay"}

Commanded ==
  /\ Shape
  /\ cmd.pc \in Pcs
  /\ cmd.on \subseteq Items \cup Released
  /\ cmd.target \in {"TODO", "BLOCKED"}
  /\ cmd.todo \subseteq Items
  /\ DOMAIN cmd.found \subseteq Items
  /\ \A i \in DOMAIN cmd.found : cmd.found[i] \in Divergence
  /\ cmd.plan \in Plans
  /\ cmd.pc \in {"align", "walk"} => cmd.todo \subseteq DOMAIN cmd.found

Recorded ==
  /\ markers \in [Items -> SUBSET {"WORKTREE_CREATED", "PR_OPENED", "MERGED"}]
  /\ tag \in [Released -> {"none", "local", "pushed"}]
  /\ corrective \subseteq Released
  /\ release \in [Released -> {"none", "published", "deprecated", "yanked"}]
  /\ journaled \in [Released -> SUBSET {"TAGGED", "RELEASED"}]
  /\ reverting \subseteq Items
  /\ approval \in [Gated -> {"none", "PENDING", "APPROVED"}]
  /\ touched \subseteq Items
  /\ ops \in 0..MaxOps
  /\ moved \in 0..MaxMoves

Types == Standing /\ Commanded /\ Recorded

LEMMA TypesOK == Types => TypeOK
  <1> SUFFICES ASSUME Types PROVE TypeOK OBVIOUS
  <1>1. status \in [Items -> Status] BY DEF Types, Standing
  <1>2. Len(cmd.plan) \in 0..4 /\ \A n \in DOMAIN cmd.plan : cmd.plan[n] \in TransitionRequest
    BY PlanTypes DEF Types, Commanded
  <1>3. QED BY <1>1, <1>2 DEF Types, Standing, Commanded, Recorded, TypeOK, Pcs

LEMMA NoCmdFields ==
  /\ NoCmd.pc = "idle" /\ NoCmd.kind = "none" /\ NoCmd.on = {} /\ NoCmd.target = "TODO"
  /\ NoCmd.todo = {} /\ NoCmd.plan = <<>> /\ DOMAIN NoCmd.found = {}
  BY DEF NoCmd

LEMMA NoCmdCommanded == ASSUME cmd = NoCmd PROVE Commanded
  BY NoCmdFields, ShapeNoCmd DEF Commanded, Shape, Pcs, Plans

LEMMA Init_Types == Init => Types
  <1> SUFFICES ASSUME Init PROVE Types OBVIOUS
  <1>1. Commanded BY NoCmdCommanded DEF Init
  <1>2. Standing
    BY DEF Init, Standing, Status
  <1>3. Recorded
    <2>1. markers \in [Items -> SUBSET {"WORKTREE_CREATED", "PR_OPENED", "MERGED"}]
      BY DEF Init, implied
    <2>2. /\ journaled \in [Released -> SUBSET {"TAGGED", "RELEASED"}]
          /\ tag \in [Released -> {"none", "local", "pushed"}]
          /\ release \in [Released -> {"none", "published", "deprecated", "yanked"}]
      BY DEF Init
    <2>3. QED BY <2>1, <2>2, BoundAssumption DEF Init, Recorded
  <1>4. QED BY <1>1, <1>2, <1>3 DEF Types

\* What a probe finds.
LEMMA ProbeFinds ==
  ASSUME NEW s \in Status, NEW r \in {"none", "branch", "pr"},
         infer_status_from_reality(s, r) # s
  PROVE  [local |-> s, remote |-> infer_status_from_reality(s, r)] \in Divergence
  BY DEF infer_status_from_reality, Divergence, Seen, Status

LEMMA WorkerTypes ==
  ASSUME Types, NEW i \in Items,
         start(i) \/ submit(i) \/ no_go(i) \/ merge(i) \/ block(i) \/ drift(i)
  PROVE  Types'
  <1>1. Commanded'
    <2>1. cmd' = cmd BY DEF start, submit, no_go, merge, block, drift, aside
    <2>2. QED BY <2>1 DEF Types, Commanded, Shape
  <1>2. moved' \in 0..MaxMoves /\ touched' \subseteq Items
    <2>1. moved < MaxMoves /\ moved' = moved + 1
      BY DEF start, submit, no_go, merge, block, drift, aside
    <2>2. touched' \in {{}, touched, touched \cup {i}}
      BY DEF start, submit, no_go, merge, block, drift, aside, meets
    <2>3. QED BY <2>1, <2>2, BoundAssumption DEF Types, Recorded
  <1>3. markers' \in [Items -> SUBSET {"WORKTREE_CREATED", "PR_OPENED", "MERGED"}]
    <2>1. markers' = markers \/ \E m \in {"WORKTREE_CREATED", "PR_OPENED", "MERGED"} : marks(i, {m})
      BY DEF start, submit, no_go, merge, block, drift
    <2>2. QED BY <2>1 DEF marks, Types, Recorded
  <1>4. Recorded'
    <2>1. UNCHANGED <<tag, corrective, release, journaled, reverting, approval, ops>>
      BY DEF start, submit, no_go, merge, block, drift, aside
    <2>2. QED BY <1>2, <1>3, <2>1 DEF Types, Recorded
  <1>5. Standing'
    <2> USE DEF Types, Standing, Status, moves, shows
    <2>1. CASE start(i) BY <2>1 DEF start
    <2>2. CASE submit(i) BY <2>2 DEF submit
    <2>3. CASE no_go(i) BY <2>3 DEF no_go
    <2>4. CASE merge(i) BY <2>4 DEF merge
    <2>5. CASE block(i) BY <2>5 DEF block
    <2>6. CASE drift(i) BY <2>6 DEF drift
    <2>7. QED BY <2>1, <2>2, <2>3, <2>4, <2>5, <2>6
  <1>6. QED BY <1>1, <1>4, <1>5 DEF Types

\* What a command types: it starts with no plan and nothing found.
Fresh(c) ==
  /\ DOMAIN c = {"pc", "kind", "on", "target", "todo", "found", "plan"}
  /\ c.pc \in Pcs \ {"align", "walk"} /\ c.on \in SUBSET (Items \cup Released)
  /\ c.target \in {"TODO", "BLOCKED"}
  /\ c.todo \in SUBSET Items /\ DOMAIN c.found = {} /\ c.plan = <<>>

LEMMA TypedTypes ==
  ASSUME Types, NEW c, Fresh(c), typed(c) PROVE Types'
  <1>1. Commanded'
    <2>1. cmd' = c BY DEF typed
    <2>2. QED BY <2>1 DEF Commanded, Plans, Shape, Fresh
  <1>2. ops' \in 0..MaxOps
    <2>1. ops < MaxOps /\ ops' = ops + 1 BY DEF typed
    <2>2. QED BY <2>1, BoundAssumption DEF Types, Recorded
  <1>3. touched' = {} /\ UNCHANGED <<status, markers, journaled, git, approval, moved>>
    BY DEF typed
  <1>4. QED BY <1>1, <1>2, <1>3 DEF Types, Standing, Recorded, git

LEMMA RefusedTypes ==
  ASSUME Types, NEW x, NEW kinds, refused(x, kinds) PROVE Types'
  BY DEF Types, Standing, Commanded, Shape, Recorded, refused, git

LEMMA StartTypes ==
  ASSUME Types,
         \/ \E i \in Revertable, target \in {"TODO", "BLOCKED"}, with_pr \in BOOLEAN :
              revert_bl(i, target, with_pr)
         \/ \E v \in Released, yank \in BOOLEAN : rollback_library_version(v, yank)
         \/ \E v \in Released : execute_version_release(v)
         \/ \E s \in {"trust-remote", "trust-local"} : repair_forge_state(s)
  PROVE  Types'
  <1>1. ASSUME NEW i \in Revertable, NEW target \in {"TODO", "BLOCKED"}, NEW with_pr,
               revert_bl(i, target, with_pr)
        PROVE  Types'
    <2>1. CASE refused(i, <<"ROLLBACK">>) BY <2>1, RefusedTypes
    <2>2. CASE ~refused(i, <<"ROLLBACK">>)
      <3>1. PICK pc \in {"pr", "reopen"} :
              typed([NoCmd EXCEPT !.pc = pc, !.kind = "revert", !.on = {i}, !.target = target])
        BY <1>1, <2>2 DEF revert_bl
      <3>2. Fresh([NoCmd EXCEPT !.pc = pc, !.kind = "revert", !.on = {i}, !.target = target])
        BY RevertableAssumption DEF Fresh, NoCmd, Pcs
      <3>3. QED BY <3>1, <3>2, TypedTypes
    <2>3. QED BY <2>1, <2>2
  <1>2. ASSUME NEW v \in Released, NEW yank, rollback_library_version(v, yank) PROVE Types'
    <2>1. CASE refused(Library, RollbackKinds) BY <2>1, RefusedTypes
    <2>2. CASE ~refused(Library, RollbackKinds)
      <3>1. PICK pc \in {"deprecate", "corrective"} :
              typed([NoCmd EXCEPT !.pc = pc, !.kind = "version", !.on = {v}])
        BY <1>2, <2>2 DEF rollback_library_version
      <3>2. Fresh([NoCmd EXCEPT !.pc = pc, !.kind = "version", !.on = {v}])
        BY DEF Fresh, NoCmd, Pcs
      <3>3. QED BY <3>1, <3>2, TypedTypes
    <2>3. QED BY <2>1, <2>2
  <1>3. ASSUME NEW v \in Released, execute_version_release(v) PROVE Types'
    <2>1. typed([NoCmd EXCEPT !.pc = "gate", !.kind = "release", !.on = {v}])
      BY <1>3 DEF execute_version_release
    <2>2. Fresh([NoCmd EXCEPT !.pc = "gate", !.kind = "release", !.on = {v}])
      BY DEF Fresh, NoCmd, Pcs
    <2>3. QED BY <2>1, <2>2, TypedTypes
  <1>4. ASSUME NEW s, repair_forge_state(s) PROVE Types'
    <2>1. typed([NoCmd EXCEPT !.pc = "list", !.kind = s, !.todo = Items])
      BY <1>4 DEF repair_forge_state
    <2>2. Fresh([NoCmd EXCEPT !.pc = "list", !.kind = s, !.todo = Items])
      BY DEF Fresh, NoCmd, Pcs
    <2>3. QED BY <2>1, <2>2, TypedTypes
  <1>5. QED BY <1>1, <1>2, <1>3, <1>4

\* A command that only moves on: what else a step of it leaves as it was.
LEMMA EndsTypes ==
  ASSUME cmd' = NoCmd PROVE Commanded'
  BY NoCmdFields, ShapeNoCmd DEF Commanded, Shape, Pcs, Plans

LEMMA GoesTypes ==
  ASSUME Commanded, NEW pc \in Pcs \ {"align", "walk"}, NEW todo \in SUBSET Items,
         cmd' = [cmd EXCEPT !.pc = pc, !.todo = todo]
  PROVE  Commanded'
  BY DEF Commanded, Shape

LEMMA ReopenTypes ==
  ASSUME Standing, NEW i \in Items, NEW s \in {"TODO", "BLOCKED", "IN_PROGRESS"}, reopen(i, s),
         UNCHANGED real
  PROVE  Standing'
  BY DEF reopen, moves, Standing, Status

LEMMA NextOfIn == ASSUME NEW S, S # {} PROVE next_of(S) \in S
  BY DEF next_of

LEMMA ReopenIfDoneTypes ==
  ASSUME Types, NEW i, NEW s \in {"TODO", "IN_PROGRESS"}, reopen_if_done(i, s)
  PROVE  Types'
  <1>1. i \in cmd.todo /\ i \in Items BY NextOfIn DEF reopen_if_done, Types, Commanded
  <1>2. UNCHANGED <<markers, journaled, git, touched, approval, ops, moved>>
    BY DEF reopen_if_done, still
  <1>3. Standing'
    <2>1. CASE UNCHANGED status BY <1>2, <2>1 DEF Types, Standing, git
    <2>2. CASE ~UNCHANGED status
      <3>1. reopen(i, s) BY <2>2 DEF reopen_if_done
      <3>2. QED BY <1>1, <1>2, <3>1, ReopenTypes DEF Types, git
    <2>3. QED BY <2>1, <2>2
  <1>4. Commanded'
    <2>1. cmd' = [cmd EXCEPT !.todo = cmd.todo \ {i}] BY DEF reopen_if_done
    <2>2. QED BY <2>1 DEF Types, Commanded, Shape
  <1>5. QED BY <1>2, <1>3, <1>4 DEF Types, Recorded, git

LEMMA ItemCommandTypes ==
  ASSUME Types, NEW i \in Items,
         \/ default_prepare_revert_pr(i) \/ execute_rollback(i) \/ invalidate_done_dependents(i)
         \/ _reopen_version_backlog_items(i) \/ apply_version_no_go_side_effects(i)
         \/ list_divergences(i) \/ align(i) \/ align_step(i) \/ _apply_trust_local(i)
  PROVE  Types'
  <1>1. CASE default_prepare_revert_pr(i)
    <2>1. cmd' = NoCmd \/ cmd' = [cmd EXCEPT !.pc = "reopen"]
      BY <1>1 DEF default_prepare_revert_pr, goes, ends
    <2>2. Commanded' BY <2>1, EndsTypes DEF Types, Commanded, Shape, Pcs
    <2>3. /\ reverting' = reverting \cup {i}
          /\ UNCHANGED <<status, markers, journaled, real, tag, corrective, release, touched,
                         approval, ops, moved>>
      BY <1>1 DEF default_prepare_revert_pr, still
    <2>4. QED BY <2>2, <2>3 DEF Types, Standing, Recorded
  <1>2. CASE execute_rollback(i)
    <2>1. cmd' = [cmd EXCEPT !.pc = "dependents", !.todo = transitive_dependents(i)]
      BY <1>2 DEF execute_rollback, dependents_of
    <2>2. Commanded'
      BY <2>1, DependentsAreTransitive, GoesTypes DEF Types, Pcs
    <2>3. reopen(i, cmd.target) /\ cmd.target \in {"TODO", "BLOCKED", "IN_PROGRESS"}
      BY <1>2 DEF execute_rollback, Types, Commanded
    <2>4. UNCHANGED <<markers, journaled, git, touched, approval, ops, moved>>
      BY <1>2 DEF execute_rollback, still
    <2>5. Standing' BY <2>3, <2>4, ReopenTypes DEF Types, git
    <2>6. QED BY <2>2, <2>4, <2>5 DEF Types, Recorded, git
  <1>3. CASE \/ invalidate_done_dependents(i) \/ _reopen_version_backlog_items(i)
             \/ apply_version_no_go_side_effects(i)
    BY <1>3, ReopenIfDoneTypes DEF invalidate_done_dependents, _reopen_version_backlog_items,
       apply_version_no_go_side_effects
  <1>4. CASE list_divergences(i)
    <2> DEFINE remote == infer_status_from_reality(status[i], real[i])
               found == IF remote = status[i] THEN cmd.found
                        ELSE [j \in DOMAIN cmd.found \cup {i} |->
                                IF j = i THEN [local |-> status[i], remote |-> remote]
                                ELSE cmd.found[j]]
    <2>1. cmd.pc = "list" /\ cmd' = [cmd EXCEPT !.todo = cmd.todo \ {i}, !.found = found]
      BY <1>4 DEF list_divergences
    <2>2. UNCHANGED <<status, markers, journaled, git, touched, approval, ops, moved>>
      BY <1>4 DEF list_divergences, still
    <2>3. remote # status[i] => [local |-> status[i], remote |-> remote] \in Divergence
      BY ProbeFinds DEF Types, Standing
    <2> HIDE DEF remote
    <2>4. DOMAIN found \subseteq Items /\ \A j \in DOMAIN found : found[j] \in Divergence
      BY <2>3 DEF Types, Commanded
    <2> HIDE DEF found
    <2>5. Commanded' BY <2>1, <2>4 DEF Types, Commanded, Shape
    <2>6. QED BY <2>2, <2>5 DEF Types, Standing, Recorded, git
  <1>5. CASE align(i)
    <2> DEFINE plan == _align_status(cmd.found[i].local, cmd.found[i].remote)
    <2>0. cmd.pc = "align" BY <1>5 DEF align
    <2>1. i \in cmd.todo /\ cmd' = IF plan = Raise THEN NoCmd
                                   ELSE [cmd EXCEPT !.pc = "walk", !.on = {i}, !.plan = plan,
                                                    !.todo = cmd.todo \ {i}]
      BY <1>5, NextOfIn DEF align
    <2>2. cmd.found[i] \in Divergence BY <2>0, <2>1 DEF Types, Commanded
    <2>3. plan # Raise => plan \in Plans BY <2>2, PlanLeads DEF To
    <2> HIDE DEF plan
    <2>4. plan = Raise => Commanded' BY <2>1, EndsTypes
    <2>5. ASSUME plan # Raise PROVE Commanded'
      <3>1. cmd' = [cmd EXCEPT !.pc = "walk", !.on = {i}, !.plan = plan, !.todo = cmd.todo \ {i}]
        BY <2>1, <2>5
      <3>2. plan \in Plans BY <2>3, <2>5
      <3>3. cmd.todo \subseteq DOMAIN cmd.found BY <2>0 DEF Types, Commanded
      <3>4. Shape' /\ cmd'.pc = "walk" /\ cmd'.on = {i} /\ cmd'.target = cmd.target
            /\ cmd'.todo = cmd.todo \ {i} /\ cmd'.found = cmd.found /\ cmd'.plan = plan
        BY <3>1 DEF Types, Commanded, Shape
      <3>5. QED BY <3>2, <3>3, <3>4 DEF Types, Commanded, Pcs
    <2>6. Commanded' BY <2>4, <2>5
    <2>7. UNCHANGED <<status, markers, journaled, git, touched, approval, ops, moved>>
      BY <1>5 DEF align, still
    <2>8. QED BY <2>6, <2>7 DEF Types, Standing, Recorded, git
  <1>6. CASE align_step(i)
    <2>1. UNCHANGED <<markers, journaled, git, touched, approval, ops, moved>>
      BY <1>6 DEF align_step, still
    <2>2. CASE cmd.plan = <<>> \/ ~can_transition(status[i], Head(cmd.plan))
      <3>1. UNCHANGED status /\ (cmd' = NoCmd \/ cmd' = [cmd EXCEPT !.pc = "align"])
        BY <1>6, <2>2 DEF align_step, goes, ends
      <3>2. Commanded'
        <4>1. cmd.pc = "walk" BY <1>6 DEF align_step
        <4>2. cmd' = [cmd EXCEPT !.pc = "align"] => Commanded'
          BY <4>1 DEF Types, Commanded, Shape, Pcs
        <4>3. QED BY <3>1, <4>2, EndsTypes
      <3>3. QED BY <2>1, <3>1, <3>2 DEF Types, Standing, Recorded, git
    <2>3. CASE ~(cmd.plan = <<>> \/ ~can_transition(status[i], Head(cmd.plan)))
      <3>1. status' = [status EXCEPT ![i] = Head(cmd.plan).target]
            /\ cmd' = [cmd EXCEPT !.plan = Tail(cmd.plan)]
        BY <1>6, <2>3 DEF align_step, moves
      <3>2. Head(cmd.plan).target \in Status /\ Tail(cmd.plan) \in Plans
        BY <2>3, PlanRest DEF Types, Commanded, Continues, TransitionRequest
      <3>3. Commanded' BY <3>1, <3>2 DEF Types, Commanded, Shape
      <3>4. Standing' BY <2>1, <3>1, <3>2 DEF Types, Standing, git
      <3>5. QED BY <2>1, <3>3, <3>4 DEF Types, Recorded, git
    <2>4. QED BY <2>2, <2>3
  <1>7. CASE _apply_trust_local(i)
    <2>1. UNCHANGED <<status, journaled, git, touched, approval, ops, moved>>
      BY <1>7 DEF _apply_trust_local, still
    <2>2. cmd' = cmd \/ cmd' = [cmd EXCEPT !.todo = cmd.todo \ {i}]
      BY <1>7 DEF _apply_trust_local
    <2>3. markers' = markers \/ \E m \in missing(i) : markers' = [markers EXCEPT ![i] = @ \cup {m}]
      BY <1>7 DEF _apply_trust_local, marks
    <2>4. missing(i) \subseteq {"WORKTREE_CREATED", "PR_OPENED", "MERGED"}
      BY DEF missing, implied
    <2>5. markers' \in [Items -> SUBSET {"WORKTREE_CREATED", "PR_OPENED", "MERGED"}]
      BY <2>3, <2>4 DEF Types, Recorded
    <2>6. Commanded' BY <2>2 DEF Types, Commanded, Shape
    <2>7. QED BY <2>1, <2>5, <2>6 DEF Types, Standing, Recorded, git
  <1>8. QED BY <1>1, <1>2, <1>3, <1>4, <1>5, <1>6, <1>7

LEMMA VersionCommandTypes ==
  ASSUME Types, NEW v \in Released,
         \/ deprecate_github_release(v) \/ yank_published_release(v) \/ _create_corrective_tag(v)
         \/ evaluate_version_gate(v) \/ create_version_tag(v) \/ push_tag(v)
         \/ create_github_release(v) \/ append_tagged(v) \/ append_released(v)
  PROVE  Types'
  <1>0. UNCHANGED <<status, real, markers, reverting, touched, approval, ops, moved>>
    BY DEF deprecate_github_release, yank_published_release, edits, _create_corrective_tag,
       evaluate_version_gate, create_version_tag, push_tag, create_github_release, append_tagged,
       append_released, still, git
  <1>1. Standing' BY <1>0 DEF Types, Standing
  <1>2. Commanded'
    <2>1. CASE \/ deprecate_github_release(v) \/ yank_published_release(v)
               \/ create_version_tag(v) \/ push_tag(v) \/ create_github_release(v)
               \/ append_tagged(v) \/ append_released(v)
      <3>1. \/ cmd' = NoCmd
            \/ \E pc \in {"yank", "corrective", "push", "publish", "tagged", "released"} :
                 cmd' = [cmd EXCEPT !.pc = pc]
        BY <2>1 DEF deprecate_github_release, yank_published_release, edits, create_version_tag,
           push_tag, create_github_release, append_tagged, append_released, goes, ends
      <3>2. QED BY <3>1, EndsTypes DEF Types, Commanded, Shape, Pcs
    <2>2. CASE _create_corrective_tag(v)
      <3>1. cmd' = [cmd EXCEPT !.pc = "scoped", !.todo = ScopeOf[v]]
        BY <2>2 DEF _create_corrective_tag
      <3>2. ScopeOf[v] \in SUBSET Items BY ScopeAssumption
      <3>3. QED BY <3>1, <3>2, GoesTypes DEF Types, Pcs
    <2>3. CASE evaluate_version_gate(v)
      <3>1. \/ cmd' = [cmd EXCEPT !.pc = "tag"]
            \/ \E n \in DOMAIN Criteria[v] :
                 cmd' = [cmd EXCEPT !.pc = "no_go_issue", !.todo = Criteria[v][n]]
        BY <2>3 DEF evaluate_version_gate, goes
      <3>2. \A n \in DOMAIN Criteria[v] : Criteria[v][n] \in SUBSET Items
        <4>1. Criteria[v] \in Seq(SUBSET ScopeOf[v]) /\ ScopeOf[v] \subseteq Items
          BY CriteriaAssumption, ScopeAssumption
        <4>2. QED BY <4>1
      <3>3. ASSUME NEW n \in DOMAIN Criteria[v],
                   cmd' = [cmd EXCEPT !.pc = "no_go_issue", !.todo = Criteria[v][n]]
            PROVE  Commanded'
        BY <3>2, <3>3, GoesTypes DEF Types, Pcs
      <3>4. CASE cmd' = [cmd EXCEPT !.pc = "tag"]
        BY <3>4 DEF Types, Commanded, Shape, Pcs
      <3>5. QED BY <3>1, <3>3, <3>4
    <2>4. QED BY <2>1, <2>2, <2>3
  <1>3. Recorded'
    <2>1. CASE deprecate_github_release(v) \/ yank_published_release(v)
      <3>1. UNCHANGED <<tag, corrective, journaled>>
            /\ \E r \in {"deprecated", "yanked"} : release' = [release EXCEPT ![v] = r]
        BY <2>1 DEF deprecate_github_release, yank_published_release, edits
      <3>2. QED BY <1>0, <3>1 DEF Types, Recorded
    <2>2. CASE _create_corrective_tag(v)
      BY <1>0, <2>2 DEF _create_corrective_tag, Types, Recorded
    <2>3. CASE evaluate_version_gate(v)
      BY <1>0, <2>3 DEF evaluate_version_gate, Types, Recorded, git
    <2>4. CASE create_version_tag(v)
      BY <1>0, <2>4 DEF create_version_tag, Types, Recorded
    <2>5. CASE push_tag(v)
      BY <1>0, <2>5 DEF push_tag, Types, Recorded
    <2>6. CASE create_github_release(v)
      <3>1. /\ UNCHANGED <<tag, corrective, journaled>>
            /\ release' = release \/ release' = [release EXCEPT ![v] = "published"]
        BY <2>6 DEF create_github_release
      <3>2. QED BY <1>0, <3>1 DEF Types, Recorded
    <2>7. CASE append_tagged(v) \/ append_released(v)
      <3>1. /\ UNCHANGED <<tag, corrective, release>>
            /\ \E e \in {"TAGGED", "RELEASED"} :
                 journaled' = [journaled EXCEPT ![v] = journaled[v] \cup {e}]
        BY <2>7 DEF append_tagged, append_released, git
      <3>2. QED BY <1>0, <3>1 DEF Types, Recorded
    <2>8. QED BY <2>1, <2>2, <2>3, <2>4, <2>5, <2>6, <2>7
  <1>4. QED BY <1>1, <1>2, <1>3 DEF Types

LEMMA OtherCommandTypes ==
  ASSUME Types,
         \/ loop_ends("dependents", "adr") \/ loop_ends("scoped", "version_issue")
         \/ loop_ends("faulty", "issue_opened") \/ create_version_issue \/ append_outcome
         \/ record_adr \/ probe_fails \/ listed \/ repaired \/ crash
  PROVE  Types'
  <1>1. UNCHANGED <<status, markers, journaled, git, touched, approval, ops, moved>>
    BY DEF loop_ends, create_version_issue, append_outcome, record_adr, probe_fails, listed,
       repaired, crash, still
  <1>2. \/ cmd' = NoCmd
        \/ \E pc \in {"adr", "version_issue", "rolled_back", "faulty", "issue_opened"} :
             cmd' = [cmd EXCEPT !.pc = pc]
        \/ \E pc \in {"align", "replay"} : cmd' = [cmd EXCEPT !.pc = pc, !.todo = DOMAIN cmd.found]
    BY DEF loop_ends, create_version_issue, append_outcome, record_adr, probe_fails, listed,
       repaired, crash, goes, ends
  <1>3. Commanded' BY <1>2, EndsTypes DEF Types, Commanded, Shape, Pcs
  <1>4. QED BY <1>1, <1>3 DEF Types, Standing, Recorded, git

LEMMA Next_Types == ASSUME Types, [Next]_vars PROVE Types'
  <1>1. CASE UNCHANGED vars BY <1>1 DEF vars, git, Types, Standing, Commanded, Shape, Recorded
  <1>2. CASE \E g \in Gated : forge_approve(g)
    BY <1>2 DEF forge_approve, git, Types, Standing, Commanded, Shape, Recorded
  <1>3. CASE commandStep \/ crash
    BY <1>3, ItemCommandTypes, VersionCommandTypes, OtherCommandTypes DEF commandStep
  <1>4. QED BY <1>1, <1>2, <1>3, WorkerTypes, StartTypes DEF Next

\* The types of the library in maintenance, with the approvals asked for under the item or the
\* library: in particular, what a repair has planned is never more than the four requests from
\* TODO to a review, whatever branches and pull requests an item shows.
THEOREM ApprovalTypes == Spec => []ApprovalInv
  <1>1. Init => Types BY Init_Types
  <1>2. Types /\ [Next]_vars => Types' BY Next_Types
  <1>3. QED BY <1>1, <1>2, TypesOK, RollbackApproved, PTL DEF Spec, ApprovalInv

---------------------------------------------------------------------------
(* Reverts and repairs. Both work item by item while workers go on, so what they   *)
(* have done is only kept for the items that no worker has touched.                *)

\* What a step does to a command that is under way: a worker or a person acts beside it, it
\* ends, or it takes a step of its own.
Beside ==
  /\ cmd' = cmd
  /\ cmd.pc # "idle" => /\ touched \subseteq touched'
                        /\ \A j \in Items : status'[j] # status[j] => j \in touched'
Elsewhere == cmd'.pc \notin {"dependents", "adr", "align", "walk"}

LEMMA WhoSteps ==
  ASSUME Types, [Next]_vars
  PROVE  \/ Beside \/ Elsewhere
         \/ UNCHANGED touched /\ commandStep
  <1>1. CASE UNCHANGED vars BY <1>1 DEF vars, Beside
  <1>2. CASE \E i \in Items : start(i) \/ submit(i) \/ no_go(i) \/ merge(i) \/ block(i) \/ drift(i)
    <2>1. PICK i \in Items : start(i) \/ submit(i) \/ no_go(i) \/ merge(i) \/ block(i) \/ drift(i)
      BY <1>2
    <2>2. cmd' = cmd BY <2>1 DEF start, submit, no_go, merge, block, drift, aside
    <2>3. CASE drift(i) BY <2>2, <2>3 DEF drift, Beside
    <2>4. CASE ~drift(i)
      <3>1. meets(i) /\ \E s : moves(i, s)
        BY <2>1, <2>4 DEF start, submit, no_go, merge, block
      <3>2. \A j \in Items : status'[j] # status[j] => j = i
        BY <3>1 DEF moves, Types, Standing
      <3>3. cmd.pc # "idle" => touched' = touched \cup {i} BY <3>1 DEF meets
      <3>4. QED BY <2>2, <3>2, <3>3 DEF Beside
    <2>5. QED BY <2>3, <2>4
  <1>3. CASE \E g \in Gated : forge_approve(g) BY <1>3 DEF forge_approve, Beside
  <1>4. ASSUME NEW x, NEW kinds, refused(x, kinds) PROVE Beside
    BY <1>4 DEF refused, Beside
  <1>5. CASE \/ \E i \in Revertable, target \in {"TODO", "BLOCKED"}, with_pr \in BOOLEAN :
                  revert_bl(i, target, with_pr)
             \/ \E v \in Released, yank \in BOOLEAN : rollback_library_version(v, yank)
             \/ \E v \in Released : execute_version_release(v)
             \/ \E s \in {"trust-remote", "trust-local"} : repair_forge_state(s)
    <2>1. ASSUME NEW i, NEW target, NEW with_pr, revert_bl(i, target, with_pr)
          PROVE  Beside \/ Elsewhere
      BY <1>4, <2>1 DEF revert_bl, typed, Elsewhere, NoCmd
    <2>2. ASSUME NEW v, NEW yank, rollback_library_version(v, yank)
          PROVE  Beside \/ Elsewhere
      BY <1>4, <2>2 DEF rollback_library_version, typed, Elsewhere, NoCmd
    <2>3. ASSUME NEW v, execute_version_release(v) PROVE Elsewhere
      BY <2>3 DEF execute_version_release, typed, Elsewhere, NoCmd
    <2>4. ASSUME NEW s, repair_forge_state(s) PROVE Elsewhere
      BY <2>4 DEF repair_forge_state, typed, Elsewhere, NoCmd
    <2>5. QED BY <1>5, <2>1, <2>2, <2>3, <2>4
  <1>6. CASE crash BY <1>6, NoCmdFields DEF crash, ends, Elsewhere
  <1>7. CASE commandStep
    <2>1. UNCHANGED touched
      BY <1>7 DEF commandStep, default_prepare_revert_pr, execute_rollback,
         invalidate_done_dependents, _reopen_version_backlog_items,
         apply_version_no_go_side_effects, reopen_if_done, list_divergences, align, align_step,
         _apply_trust_local, deprecate_github_release, yank_published_release, edits,
         _create_corrective_tag, evaluate_version_gate, create_version_tag, push_tag,
         create_github_release, append_tagged, append_released, loop_ends, create_version_issue,
       append_outcome, record_adr, probe_fails, listed, repaired
    <2>2. QED BY <1>7, <2>1
  <1>8. QED BY <1>1, <1>2, <1>3, <1>5, <1>6, <1>7 DEF Next

\* The steps of commands by the part of the code they enter or stay in.
LEMMA EntersLoop ==
  ASSUME Types, commandStep, ~Elsewhere
  PROVE  \/ \E i \in Items : \/ execute_rollback(i) \/ invalidate_done_dependents(i)
                             \/ align(i) \/ align_step(i)
         \/ loop_ends("dependents", "adr")
         \/ cmd.kind = "version" /\ cmd'.kind = "version" /\ cmd'.pc = "adr"
         \/ listed
  <1> USE DEF Elsewhere
  <1>0. cmd' = NoCmd => Elsewhere BY NoCmdFields
  <1>1. ASSUME NEW i \in Items,
               \/ default_prepare_revert_pr(i) \/ _reopen_version_backlog_items(i)
               \/ apply_version_no_go_side_effects(i) \/ list_divergences(i)
               \/ _apply_trust_local(i)
        PROVE  FALSE
    <2>1. CASE default_prepare_revert_pr(i)
      BY <1>0, <2>1 DEF default_prepare_revert_pr, goes, ends, Types, Commanded, Shape
    <2>2. CASE ~default_prepare_revert_pr(i)
      <3>1. cmd.pc \in {"scoped", "faulty", "list", "replay"}
        BY <1>1, <2>2 DEF _reopen_version_backlog_items, apply_version_no_go_side_effects,
           list_divergences, _apply_trust_local
      <3>2. \/ cmd' = cmd \/ cmd' = [cmd EXCEPT !.todo = cmd.todo \ {i}]
            \/ \E x : cmd' = [cmd EXCEPT !.todo = cmd.todo \ {i}, !.found = x]
        BY <1>1, <2>2 DEF _reopen_version_backlog_items, apply_version_no_go_side_effects,
           list_divergences, _apply_trust_local, reopen_if_done
      <3>3. cmd'.pc = cmd.pc BY <3>2 DEF Types, Commanded, Shape
      <3>4. QED BY <3>1, <3>3
    <2>3. QED BY <2>1, <2>2
  <1>2. ASSUME NEW v \in Released,
               \/ deprecate_github_release(v) \/ yank_published_release(v)
               \/ _create_corrective_tag(v) \/ evaluate_version_gate(v)
               \/ create_version_tag(v) \/ push_tag(v) \/ create_github_release(v)
               \/ append_tagged(v) \/ append_released(v)
        PROVE  FALSE
    <2>1. \/ cmd' = NoCmd
          \/ \E pc \in {"yank", "corrective", "tag", "push", "publish", "tagged", "released"} :
               cmd' = [cmd EXCEPT !.pc = pc]
          \/ \E pc \in {"scoped", "no_go_issue"} : \E S : cmd' = [cmd EXCEPT !.pc = pc, !.todo = S]
      BY <1>2 DEF deprecate_github_release, yank_published_release, edits, create_version_tag,
         push_tag, create_github_release, append_tagged, append_released, _create_corrective_tag,
         evaluate_version_gate, goes, ends
    <2>2. QED BY <1>0, <2>1 DEF Types, Commanded, Shape
  <1>3. ASSUME \/ loop_ends("scoped", "version_issue") \/ loop_ends("faulty", "issue_opened")
               \/ record_adr \/ probe_fails \/ repaired \/ create_version_issue
        PROVE  FALSE
    BY <1>0, <1>3 DEF loop_ends, record_adr, probe_fails, repaired, create_version_issue, goes,
       ends, Types, Commanded, Shape
  <1>4. CASE append_outcome
    BY <1>0, <1>4 DEF append_outcome, goes, ends, Types, Commanded, Shape
  <1>5. QED BY <1>1, <1>2, <1>3, <1>4 DEF commandStep

\* A revert has one subject.
Single == cmd.kind = "revert" => \A i, j \in cmd.on : i = j

LEMMA Next_Single == ASSUME ApprovalIInv, Single, [Next]_vars PROVE Single'
  <1>1. CASE cmd' = cmd BY <1>1 DEF Single
  <1>2. CASE Ended BY <1>2, NoCmdFields DEF Ended, Single
  <1>3. CASE GoesOn BY <1>3 DEF GoesOn, Single
  <1>4. CASE TakesUp BY <1>4 DEF TakesUp, ApprovalIInv, Repair, Single
  <1>5. ASSUME NEW i, NEW target, NEW with_pr, revert_bl(i, target, with_pr) PROVE Single'
    <2>1. \/ cmd' = cmd
          \/ \E pc : cmd' = [NoCmd EXCEPT !.pc = pc, !.kind = "revert", !.on = {i}, !.target = target]
      BY <1>5 DEF revert_bl, refused, typed
    <2>2. cmd' = cmd \/ cmd'.on = {i} BY <2>1, ShapeNoCmd
    <2>3. QED BY <1>1, <2>2 DEF Single
  <1>6. CASE \/ \E v \in Released, yank \in BOOLEAN : rollback_library_version(v, yank)
             \/ \E v \in Released : execute_version_release(v)
             \/ \E s \in {"trust-remote", "trust-local"} : repair_forge_state(s)
    <2>1. cmd' = cmd \/ cmd'.kind # "revert"
      BY <1>6 DEF rollback_library_version, execute_version_release, repair_forge_state, refused,
         typed, NoCmd
    <2>2. QED BY <1>1, <2>1 DEF Single
  <1>7. CASE commandStep \/ crash
    BY <1>1, <1>2, <1>3, <1>4, <1>7, Command_step DEF ApprovalIInv
  <1>8. CASE \/ \E i \in Items : start(i) \/ submit(i) \/ no_go(i) \/ merge(i) \/ block(i) \/ drift(i)
             \/ \E g \in Gated : forge_approve(g)
    BY <1>1, <1>8 DEF start, submit, no_go, merge, block, drift, aside, forge_approve
  <1>9. CASE UNCHANGED vars BY <1>1, <1>9 DEF vars
  <1>10. QED BY <1>5, <1>6, <1>7, <1>8, <1>9 DEF Next

\* Of the dependents of the reverted item, those that are DONE are still to be looked at, or
\* a worker finished them since.
Invalidated ==
  (cmd.kind = "revert" /\ cmd.pc \in {"dependents", "adr"}) =>
    /\ cmd.pc = "adr" => cmd.todo = {}
    /\ \A i \in cmd.on : \A j \in transitive_dependents(i) :
         status[j] = "DONE" => j \in touched \cup cmd.todo

RevertIInv == ApprovalIInv /\ Types /\ Single /\ Invalidated

LEMMA Next_Invalidated == ASSUME RevertIInv, [Next]_vars PROVE Invalidated'
  <1> USE DEF RevertIInv
  <1>0. \A i : transitive_dependents(i) \subseteq Items BY DependentsAreTransitive
  <1>1. CASE Beside
    <2>1. cmd' = cmd BY <1>1 DEF Beside
    <2>2. CASE cmd.kind = "revert" /\ cmd.pc \in {"dependents", "adr"}
      <3>1. /\ touched \subseteq touched'
            /\ \A j \in Items : status'[j] # status[j] => j \in touched'
        BY <1>1, <2>2 DEF Beside
      <3>2. QED BY <1>0, <2>1, <2>2, <3>1 DEF Invalidated
    <2>3. QED BY <2>1, <2>2 DEF Invalidated
  <1>2. CASE Elsewhere BY <1>2 DEF Elsewhere, Invalidated
  <1>3. CASE UNCHANGED touched /\ commandStep /\ ~Elsewhere
    <2>1. ASSUME NEW i \in Items, execute_rollback(i) PROVE Invalidated'
      <3>1. cmd' = [cmd EXCEPT !.pc = "dependents", !.todo = transitive_dependents(i)]
            /\ i \in cmd.on
        BY <2>1 DEF execute_rollback, dependents_of, subject
      <3>2. /\ cmd'.pc = "dependents" /\ cmd'.todo = transitive_dependents(i)
            /\ cmd'.on = cmd.on /\ cmd'.kind = cmd.kind
        BY <3>1 DEF Types, Commanded, Shape
      <3>3. cmd.kind = "revert" => \A k \in cmd.on : k = i BY <3>1 DEF Single
      <3>4. QED BY <3>2, <3>3 DEF Invalidated
    <2>2. ASSUME NEW i \in Items, invalidate_done_dependents(i) PROVE Invalidated'
      <3>1. /\ cmd.pc = "dependents" /\ cmd' = [cmd EXCEPT !.todo = cmd.todo \ {i}]
            /\ IF status[i] = "DONE" THEN reopen(i, "TODO") ELSE UNCHANGED status
        BY <2>2 DEF invalidate_done_dependents, reopen_if_done
      <3>2. /\ cmd'.pc = cmd.pc /\ cmd'.todo = cmd.todo \ {i}
            /\ cmd'.on = cmd.on /\ cmd'.kind = cmd.kind
        BY <3>1 DEF Types, Commanded, Shape
      <3>3. status'[i] # "DONE" /\ \A j \in Items : j # i => status'[j] = status[j]
        BY <3>1 DEF reopen, moves, Types, Standing
      <3>4. QED BY <1>0, <1>3, <3>1, <3>2, <3>3 DEF Invalidated
    <2>3. ASSUME NEW i \in Items, align(i) \/ align_step(i) PROVE Invalidated'
      <3>1. cmd.pc \in Repair BY <2>3 DEF align, align_step, Repair
      <3>2. cmd'.kind \in {cmd.kind, "none"}
        <4>1. cmd' = cmd \/ Ended \/ GoesOn \/ TakesUp
          BY <2>3, Item_step DEF Types, Commanded
        <4>2. QED BY <4>1, NoCmdFields DEF Ended, GoesOn, TakesUp
      <3>3. cmd.kind # "revert" BY <3>1 DEF ApprovalIInv
      <3>4. QED BY <3>2, <3>3 DEF Invalidated
    <2>4. CASE loop_ends("dependents", "adr")
      <3>1. cmd.pc = "dependents" /\ cmd.todo = {} /\ cmd' = [cmd EXCEPT !.pc = "adr"]
            /\ UNCHANGED status
        BY <2>4 DEF loop_ends, goes
      <3>2. /\ cmd'.pc = "adr" /\ cmd'.todo = cmd.todo
            /\ cmd'.on = cmd.on /\ cmd'.kind = cmd.kind
        BY <3>1 DEF Types, Commanded, Shape
      <3>3. QED BY <1>3, <3>1, <3>2 DEF Invalidated
    <2>5. CASE cmd'.kind = "version" BY <2>5 DEF Invalidated
    <2>6. CASE listed
      <3>1. cmd.pc = "list" /\ cmd'.kind = cmd.kind
        BY <2>6 DEF listed, Types, Commanded, Shape
      <3>2. QED BY <3>1 DEF Invalidated, ApprovalIInv, Repair
    <2>7. QED BY <1>3, <2>1, <2>2, <2>3, <2>4, <2>5, <2>6, EntersLoop
  <1>4. QED BY <1>1, <1>2, <1>3, WhoSteps

\* EXG-RBK-01 for every backlog and every interleaving of workers with the revert: when its
\* decision is recorded, no dependent of the reverted item is DONE unless it was finished since.
THEOREM RevertReopensDependents == Spec => []DependentsReopened
  <1>1. Init => RevertIInv
    <2>1. Init => Single /\ Invalidated BY NoCmdFields DEF Init, Single, Invalidated
    <2>2. QED BY <2>1, Init_ApprovalIInv, Init_Types DEF RevertIInv
  <1>2. RevertIInv /\ [Next]_vars => RevertIInv'
    BY Next_ApprovalIInv, Next_Types, Next_Single, Next_Invalidated DEF RevertIInv
  <1>3. RevertIInv => DependentsReopened BY DEF RevertIInv, Invalidated, DependentsReopened
  <1>4. QED BY <1>1, <1>2, <1>3, PTL DEF Spec

---------------------------------------------------------------------------
\* What is left of the plan of item i leads to what the probe said of it.
Leads(i) ==
  IF cmd.plan = <<>> THEN status[i] = cmd.found[i].remote
                     ELSE cmd.plan[Len(cmd.plan)].target = cmd.found[i].remote

\* The items of a repair: at most one is under way, not to be taken up again, and its plan leads
\* where it should; those dealt with are where they should be.
Dealing ==
  cmd.pc \in {"align", "walk"} =>
    /\ cmd.pc = "walk" =>
         \A i \in cmd.on : /\ i \in DOMAIN cmd.found /\ i \notin cmd.todo
                           /\ i \in touched \/ Leads(i)
                           /\ \A j \in cmd.on : i = j
    /\ \A i \in DOMAIN cmd.found \ (cmd.todo \cup IF cmd.pc = "walk" THEN cmd.on ELSE {}) :
         i \in touched \/ status[i] = cmd.found[i].remote

RepairIInv == Types /\ Dealing

LEMMA AlignDealing ==
  ASSUME RepairIInv, NEW i \in Items, align(i), UNCHANGED touched PROVE Dealing'
  <1> USE DEF RepairIInv
  <1> DEFINE plan == _align_status(cmd.found[i].local, cmd.found[i].remote)
  <1>1. /\ cmd.pc = "align" /\ i \in cmd.todo /\ UNCHANGED status
        /\ cmd' = IF plan = Raise THEN NoCmd
                  ELSE [cmd EXCEPT !.pc = "walk", !.on = {i}, !.plan = plan, !.todo = cmd.todo \ {i}]
    BY NextOfIn DEF align
  <1>2. i \in DOMAIN cmd.found /\ cmd.found[i] \in Divergence BY <1>1 DEF Types, Commanded
  <1>3. plan # Raise => plan # <<>> /\ plan[Len(plan)].target = cmd.found[i].remote
    BY <1>2, PlanLeads DEF To
  <1> HIDE DEF plan
  <1>4. plan = Raise => Dealing' BY <1>1, NoCmdFields DEF Dealing
  <1>5. ASSUME plan # Raise PROVE Dealing'
    <2>1. cmd' = [cmd EXCEPT !.pc = "walk", !.on = {i}, !.plan = plan, !.todo = cmd.todo \ {i}]
      BY <1>1, <1>5
    <2>2. /\ cmd'.pc = "walk" /\ cmd'.on = {i} /\ cmd'.plan = plan /\ cmd'.todo = cmd.todo \ {i}
          /\ cmd'.found = cmd.found
      BY <2>1 DEF Types, Commanded, Shape
    <2>3. Leads(i)' BY <1>3, <1>5, <2>2 DEF Leads
    <2>4. QED BY <1>1, <1>2, <2>2, <2>3 DEF Dealing
  <1>6. QED BY <1>4, <1>5

LEMMA StepDealing ==
  ASSUME RepairIInv, NEW i \in Items, align_step(i), UNCHANGED touched PROVE Dealing'
  <1> USE DEF RepairIInv
  <1>1. cmd.pc = "walk" /\ i \in cmd.on BY DEF align_step, subject
  <1>2. /\ cmd.on = {i} /\ i \in DOMAIN cmd.found /\ i \notin cmd.todo
        /\ i \in touched \/ Leads(i)
    BY <1>1 DEF Dealing
  <1>3. CASE cmd.plan = <<>>
    <2>1. UNCHANGED status /\ cmd' = [cmd EXCEPT !.pc = "align"] BY <1>3 DEF align_step, goes
    <2>2. cmd'.pc = "align" /\ cmd'.todo = cmd.todo /\ cmd'.found = cmd.found
      BY <2>1 DEF Types, Commanded, Shape
    <2>3. QED BY <1>1, <1>2, <1>3, <2>1, <2>2 DEF Dealing, Leads
  <1>4. CASE cmd.plan # <<>> /\ ~can_transition(status[i], Head(cmd.plan))
    BY <1>4, NoCmdFields DEF align_step, ends, Dealing
  <1>5. CASE cmd.plan # <<>> /\ can_transition(status[i], Head(cmd.plan))
    <2> DEFINE p == cmd.plan
    <2>1. status' = [status EXCEPT ![i] = Head(p).target] /\ cmd' = [cmd EXCEPT !.plan = Tail(p)]
      BY <1>5 DEF align_step, moves
    <2>2. /\ cmd'.pc = "walk" /\ cmd'.on = {i} /\ cmd'.plan = Tail(p) /\ cmd'.todo = cmd.todo
          /\ cmd'.found = cmd.found
      BY <1>1, <1>2, <2>1 DEF Types, Commanded, Shape
    <2>3. /\ Tail(p) = <<>> => p[Len(p)].target = Head(p).target
          /\ Tail(p) # <<>> => Tail(p)[Len(Tail(p))] = p[Len(p)]
      BY <1>5, PlanRest DEF Types, Commanded, Continues
    <2>4. status'[i] = Head(p).target /\ \A j \in Items : j # i => status'[j] = status[j]
      BY <2>1 DEF Types, Standing
    <2>5. Leads(i) => p[Len(p)].target = cmd.found[i].remote BY <1>5 DEF Leads
    <2>6. Leads(i) => Leads(i)' BY <2>2, <2>3, <2>4, <2>5 DEF Leads
    <2>7. DOMAIN cmd.found \subseteq Items BY DEF Types, Commanded
    <2>8. QED BY <1>1, <1>2, <2>2, <2>4, <2>6, <2>7 DEF Dealing
  <1>6. QED BY <1>3, <1>4, <1>5

LEMMA Next_Dealing == ASSUME RepairIInv, [Next]_vars PROVE Dealing'
  <1> USE DEF RepairIInv
  <1>1. CASE Beside
    <2>1. cmd' = cmd BY <1>1 DEF Beside
    <2>2. CASE cmd.pc \in {"align", "walk"}
      <3>1. /\ touched \subseteq touched'
            /\ \A j \in Items : status'[j] # status[j] => j \in touched'
        BY <1>1, <2>2 DEF Beside
      <3>2. DOMAIN cmd.found \subseteq Items BY DEF Types, Commanded
      <3>3. \A i \in Items : (i \in touched \/ Leads(i)) => (i \in touched' \/ Leads(i)')
        BY <2>1, <3>1 DEF Leads
      <3>4. QED BY <2>1, <2>2, <3>1, <3>2, <3>3 DEF Dealing
    <2>3. QED BY <2>1, <2>2 DEF Dealing
  <1>2. CASE Elsewhere BY <1>2 DEF Elsewhere, Dealing
  <1>3. CASE UNCHANGED touched /\ commandStep /\ ~Elsewhere
    <2>1. ASSUME NEW i \in Items, execute_rollback(i) \/ invalidate_done_dependents(i)
          PROVE  Dealing'
      <3>1. cmd.pc \in {"reopen", "dependents"}
            /\ \/ cmd' = [cmd EXCEPT !.pc = "dependents", !.todo = dependents_of(i)]
               \/ cmd' = [cmd EXCEPT !.todo = cmd.todo \ {i}]
        BY <2>1 DEF execute_rollback, invalidate_done_dependents, reopen_if_done
      <3>2. cmd'.pc \in {"reopen", "dependents"} BY <3>1 DEF Types, Commanded, Shape
      <3>3. QED BY <3>2 DEF Dealing
    <2>2. CASE loop_ends("dependents", "adr")
      BY <2>2 DEF loop_ends, goes, Types, Commanded, Shape, Dealing
    <2>3. CASE cmd'.pc = "adr" BY <2>3 DEF Dealing
    <2>4. CASE listed
      <3>1. \E pc \in {"align", "replay"} : cmd' = [cmd EXCEPT !.pc = pc, !.todo = DOMAIN cmd.found]
        BY <2>4 DEF listed
      <3>2. /\ cmd'.pc \in {"align", "replay"} /\ cmd'.todo = DOMAIN cmd.found
            /\ cmd'.found = cmd.found
        BY <3>1 DEF Types, Commanded, Shape
      <3>3. QED BY <3>2 DEF Dealing
    <2>5. QED BY <1>3, <2>1, <2>2, <2>3, <2>4, EntersLoop, AlignDealing, StepDealing
  <1>4. QED BY <1>1, <1>2, <1>3, WhoSteps

\* EXG-RBK-03 for every backlog and whatever workers do meanwhile: an item that trust-remote has
\* dealt with has the status that the probe gave it, or a worker has moved it since.
THEOREM RepairsSettle == Spec => []RepairSettles
  <1>1. Init => RepairIInv
    <2>1. Init => Dealing BY NoCmdFields DEF Init, Dealing
    <2>2. QED BY <2>1, Init_Types DEF RepairIInv
  <1>2. RepairIInv /\ [Next]_vars => RepairIInv'
    BY Next_Types, Next_Dealing DEF RepairIInv
  <1>3. RepairIInv => RepairSettles BY DEF RepairIInv, Dealing, RepairSettles
  <1>4. QED BY <1>1, <1>2, <1>3, PTL DEF Spec
=============================================================================
