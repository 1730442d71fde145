----------------------------- MODULE Specification -----------------------------
(* The specification phases: forge architect (phases/architect.py), forge spec   *)
(* (phases/specify.py, roles/spec.py) and forge close-spec (phases/close_spec.py) *)
(* over the files of the library: architecture.md, milestones.md and docs/cdc,    *)
(* then the tree of UC, FEAT and BL documents. Files are written one by one, a     *)
(* command may be killed at any step, and people edit the documents meanwhile.     *)
EXTENDS Naturals

CONSTANTS
  Libs,            \* names a proposal may give to libraries
  Ucs, Feats, Bls, \* identifiers of documents
  ParentsOf,       \* parents the SPEC role may give to each FEAT and BL
  Needs,           \* depends_on of each BL
  MAX_REVIEW_ITERATIONS,
  MaxCommands,     \* bound: commands typed
  MaxEdits         \* bound: edits by people

Ids == Ucs \cup Feats \cup Bls

ASSUME KindsAssumption == Ucs \cap Feats = {} /\ Ucs \cap Bls = {} /\ Feats \cap Bls = {}
ASSUME ParentsAssumption ==
  /\ DOMAIN ParentsOf = Feats \cup Bls
  /\ \A f \in Feats : ParentsOf[f] \in (SUBSET Ucs) \ {{}}
  /\ \A b \in Bls : ParentsOf[b] \in (SUBSET Feats) \ {{}}
ASSUME LibsAssumption == Libs # {} /\ Libs \cap {"arch", "miles"} = {}
ASSUME NeedsAssumption == Needs \in [Bls -> SUBSET Bls]
ASSUME BoundAssumption ==
  MAX_REVIEW_ITERATIONS \in Nat \ {0} /\ MaxCommands \in Nat /\ MaxEdits \in Nat

VARIABLES
  docs,     \* the specification tree: one file for each identifier, or Absent
  tree,     \* architecture.md ("arch"), milestones.md ("miles") and docs/cdc: who wrote each file
  staged,   \* the files in the git index
  head,     \* the same files at HEAD
  committed, \* the proposal that a command committed last, with its libraries
  cmd,      \* the command in progress
  produced, \* proposals and batches produced so far, numbered from 1
  approved, \* those a review answered GO
  typed,    \* commands typed so far
  edits     \* edits by people so far

vars == <<docs, tree, staged, head, committed, cmd, produced, approved, typed, edits>>

Files == {"arch", "miles"} \cup Libs

\* from is the batch that wrote the file, 0 when people or an earlier life did.
Absent == [is |-> "absent", parent |-> "none", done |-> FALSE, from |-> 0]
document(p, n) == [is |-> "whole", parent |-> p, done |-> FALSE, from |-> n]

\* A file of the architecture, from the proposal that wrote it (0 as before).
file(n) == [is |-> "whole", from |-> n]

Idle == [pc |-> "idle", iter |-> 1, batch |-> 0, libs |-> {}, plan |-> {},
         new |-> [i \in {} |-> Absent], wrote |-> {}, index |-> [i \in {} |-> Absent], touched |-> {}]

TypeOK ==
  /\ docs \in [Ids -> [is : {"absent", "torn", "whole"}, parent : Ids \cup {"none"},
                       done : BOOLEAN, from : 0..produced]]
  /\ {tree, staged, head} \subseteq [Files -> [is : {"torn", "whole"}, from : 0..produced]]
  /\ committed \in [batch : 0..produced, libs : SUBSET Libs]
  /\ cmd.pc \in {"idle", "produce", "peer_review", "materialize", "commit",
                 "uc", "uc_write", "derive", "review", "write", "close"}
  /\ cmd.iter \in 1..MAX_REVIEW_ITERATIONS
  /\ cmd.batch \in 0..produced
  /\ approved \subseteq 1..produced
  /\ typed \in 0..MaxCommands /\ edits \in 0..MaxEdits

---------------------------------------------------------------------------
(* The index of the tree (core/specparser.py).                                   *)

on_disk(d) == {i \in DOMAIN d : d[i].is # "absent"}

children_of(d, i) == {c \in on_disk(d) : d[c].parent = i}

_check_parents(d) == \A i \in on_disk(d) \ Ucs : d[i].parent \in on_disk(d)

_check_dependencies(d) == \A b \in on_disk(d) \cap Bls : Needs[b] \subseteq on_disk(d)

\* build_index and validate_specs: every file is read, then the links are checked.
build_index(d) ==
  /\ \A i \in on_disk(d) : d[i].is = "whole"
  /\ _check_parents(d) /\ _check_dependencies(d)

\* A plan is what a command has still to write or to close. It goes by kind, and within
\* a kind as the provider listed them, in any order (close-spec sorts its documents: the
\* order shows in no property, as it read them all before).
rank(i) == CASE i = "arch" -> 0 [] i = "miles" -> 1 [] i \in Bls -> 3 [] OTHER -> 2
next(plan) == {i \in plan : \A j \in plan : rank(i) <= rank(j)}

\* What a write leaves when it is cut short: a document without a status that can be read,
\* part of a file of the architecture.
cut(d) == [d EXCEPT !.is = "torn", !.done = FALSE]
cut_file(n) == [file(n) EXCEPT !.is = "torn"]

---------------------------------------------------------------------------
Init ==
  /\ docs \in {[i \in Ids |-> Absent]} \cup
       {[i \in Ids |-> [document(IF i \in Ucs THEN "none" ELSE CHOOSE p \in ParentsOf[i] : TRUE, 0)
                        EXCEPT !.done = i \in D]] : D \in SUBSET Bls}
  /\ tree = [f \in Files |-> file(0)] /\ staged = tree /\ head = tree
  /\ committed = [batch |-> 0, libs |-> {}]
  /\ cmd = Idle
  /\ produced = 0 /\ approved = {}
  /\ typed = 0 /\ edits = 0

keep_files == UNCHANGED <<tree, staged, head, committed>>
keep_ghosts == UNCHANGED <<produced, approved>>
keep_bounds == UNCHANGED <<typed, edits>>

type(c) == cmd.pc = "idle" /\ typed < MaxCommands /\ typed' = typed + 1 /\ cmd' = c

---------------------------------------------------------------------------
(* forge architect                                                               *)

architect_forge_cli ==
  type([Idle EXCEPT !.pc = "produce"]) /\ UNCHANGED <<docs, edits>> /\ keep_files /\ keep_ghosts

\* What an answer that parses may hold: a proposal has libraries, a NO GO has motifs.
proposals == (SUBSET Libs) \ {{}}
reviews == {"GO", "NO_GO"}

\* A failed provider or an unreadable answer raises ArchitectRoleError or SpecRoleError.
role_error ==
  /\ cmd.pc \in {"produce", "peer_review", "uc", "derive", "review"}
  /\ cmd' = Idle
  /\ UNCHANGED docs /\ keep_files /\ keep_ghosts /\ keep_bounds

produce ==
  /\ cmd.pc = "produce"
  /\ produced' = produced + 1
  /\ \E libs \in proposals :
       cmd' = [cmd EXCEPT !.pc = "peer_review", !.batch = produced', !.libs = libs]
  /\ UNCHANGED <<docs, approved>> /\ keep_files /\ keep_bounds

\* After the last iteration the phase reports to people and writes nothing.
escalated == Idle

next_iteration(pc) ==
  IF cmd.iter = MAX_REVIEW_ITERATIONS THEN escalated
  ELSE [cmd EXCEPT !.pc = pc, !.iter = @ + 1, !.batch = 0, !.libs = {}, !.new = Idle.new]

\* Mutant of deliverables: the documents of the libraries are left out.
Bug_no_cdc(libs) == {"arch", "miles"}

deliverables(libs) == {"arch", "miles"} \cup libs

peer_review ==
  /\ cmd.pc = "peer_review"
  /\ \E verdict \in reviews :
       IF verdict = "GO"
       THEN /\ approved' = approved \cup {cmd.batch}
            /\ cmd' = [cmd EXCEPT !.pc = "materialize", !.plan = deliverables(cmd.libs)]
       ELSE cmd' = next_iteration("produce") /\ UNCHANGED approved
  /\ UNCHANGED <<docs, produced>> /\ keep_files /\ keep_bounds

write_architecture_deliverables ==
  /\ cmd.pc = "materialize"
  /\ \E f \in next(cmd.plan) :
       /\ tree' = [tree EXCEPT ![f] = file(cmd.batch)]
       /\ cmd' = [cmd EXCEPT !.plan = @ \ {f}]
  /\ UNCHANGED <<docs, staged, head, committed>> /\ keep_ghosts /\ keep_bounds

add ==
  /\ cmd.pc = "materialize" /\ cmd.plan = {}
  /\ LET paths == {"arch", "miles"} \cup cmd.libs
     IN staged' = [f \in Files |-> IF f \in paths THEN tree[f] ELSE staged[f]]
  /\ cmd' = [cmd EXCEPT !.pc = "commit"]
  /\ UNCHANGED <<docs, tree, head, committed>> /\ keep_ghosts /\ keep_bounds

\* gitio.commit: everything staged, what killed commands left in the index included; with
\* nothing to commit git fails and so does the command.
commit ==
  /\ cmd.pc = "commit"
  /\ head' = staged /\ committed' = [batch |-> cmd.batch, libs |-> cmd.libs]
  /\ cmd' = Idle
  /\ UNCHANGED <<docs, tree, staged>> /\ keep_ghosts /\ keep_bounds

---------------------------------------------------------------------------
(* forge spec: the use cases                                                     *)

\* It only wants a document of the library to be there, whoever wrote it.
spec_forge_cli ==
  type([Idle EXCEPT !.pc = "uc"]) /\ UNCHANGED <<docs, edits>> /\ keep_files /\ keep_ghosts

\* parse_use_cases: at least one, no identifier twice.
use_case_sets == (SUBSET Ucs) \ {{}}

\* validate_use_case_files: a file may fail to parse again.
use_case_checks == {"valid", "invalid"}

use_cases ==
  /\ cmd.pc = "uc"
  /\ \/ \E S \in use_case_sets :
          cmd' = [cmd EXCEPT !.pc = "uc_write", !.plan = S,
                             !.new = [u \in S |-> document("none", 0)]]
     \* INVALID_USE_CASES is fed back; the files of earlier iterations stay.
     \/ cmd' = next_iteration("uc")
  /\ UNCHANGED docs /\ keep_files /\ keep_ghosts /\ keep_bounds

write_use_cases ==
  /\ cmd.pc = "uc_write"
  /\ \E i \in next(cmd.plan) :
       /\ docs' = [docs EXCEPT ![i] = cmd.new[i]]
       /\ cmd' = [cmd EXCEPT !.plan = @ \ {i}]
  /\ keep_files /\ keep_ghosts /\ keep_bounds

\* prune_stale_use_cases, then validate_use_case_files: the files of this run only.
check_use_cases ==
  /\ cmd.pc = "uc_write" /\ cmd.plan = {}
  /\ LET current == DOMAIN cmd.new
     IN /\ docs' = [i \in Ids |-> IF i \in cmd.wrote \ current THEN Absent ELSE docs[i]]
        /\ \E check \in use_case_checks :
             cmd' = IF check = "valid"
                    THEN [cmd EXCEPT !.pc = "derive", !.iter = 1, !.plan = current,
                                     !.new = Idle.new, !.wrote = {}]
                    ELSE IF cmd.iter = MAX_REVIEW_ITERATIONS THEN Idle
                    ELSE [next_iteration("uc") EXCEPT !.wrote = current]
  /\ keep_files /\ keep_ghosts /\ keep_bounds

---------------------------------------------------------------------------
(* forge spec: features and backlog items                                        *)

\* Parents given to some of the identifiers S, among the parents P.
families(S, P) ==
  {b \in UNION {[T -> P] : T \in SUBSET S} : \A i \in DOMAIN b : b[i] \in ParentsOf[i]}

\* parse_features for each use case in turn, parse_backlog_items for each feature: no
\* answer is empty, and the last parent to give an identifier keeps it.
feature_answers(ucs, last) ==
  {b \in families(Feats, ucs) : \E f \in DOMAIN b : b[f] = last}
backlog_answers(features, last) ==
  {b \in families(Bls, DOMAIN features) : \E i \in DOMAIN b : features[b[i]] = last}

batches(ucs) ==
  UNION {UNION {{[i \in DOMAIN f \cup DOMAIN b |-> IF i \in DOMAIN f THEN f[i] ELSE b[i]] :
                   b \in backlog_answers(f, last)} : f \in feature_answers(ucs, last)} :
           last \in ucs}

_derive_library_specs ==
  /\ cmd.pc = "derive"
  /\ produced' = produced + 1
  /\ \E b \in batches(cmd.plan) :
       cmd' = [cmd EXCEPT !.pc = "review", !.batch = produced',
                          !.new = [i \in DOMAIN b |-> document(b[i], produced')]]
  /\ UNCHANGED <<docs, approved>> /\ keep_files /\ keep_bounds

\* Mutant of accepted: a batch is written whatever the verdict of its last review.
Bug_last_is_written == {"GO"} \cup IF cmd.iter = MAX_REVIEW_ITERATIONS THEN {"NO_GO"} ELSE {}

accepted == {"GO"}

run_spec_review_loop ==
  /\ cmd.pc = "review"
  /\ \E verdict \in reviews :
       /\ approved' = approved \cup IF verdict = "GO" THEN {cmd.batch} ELSE {}
       /\ cmd' = IF verdict \in accepted
                 THEN [cmd EXCEPT !.pc = "write", !.plan = DOMAIN cmd.new]
                 ELSE next_iteration("derive")
  /\ UNCHANGED <<docs, produced>> /\ keep_files /\ keep_bounds

\* _write_derived_specs: the features, then the items, each with the status TODO.
_write_derived_specs ==
  /\ cmd.pc = "write"
  /\ \/ cmd.plan = {} /\ cmd' = Idle /\ UNCHANGED docs
     \/ \E i \in next(cmd.plan) :
          /\ docs' = [docs EXCEPT ![i] = cmd.new[i]]
          /\ cmd' = [cmd EXCEPT !.plan = @ \ {i}]
  /\ keep_files /\ keep_ghosts /\ keep_bounds

---------------------------------------------------------------------------
(* forge close-spec --apply                                                      *)

\* CloseSpecEvaluator reads the tree once; --feat and --uc name one document.
close_spec_command ==
  /\ build_index(docs)
  /\ \E S \in {Feats \cap on_disk(docs), Ucs \cap on_disk(docs)} \cup {{i} : i \in on_disk(docs) \ Bls} :
       type([Idle EXCEPT !.pc = "close", !.plan = S, !.index = docs])
  /\ UNCHANGED <<docs, edits>> /\ keep_files /\ keep_ghosts

\* Mutant of evaluated: one child that is DONE is enough.
Bug_any_child(index, i) ==
  children_of(index, i) = {} \/ \E c \in children_of(index, i) : index[c].done

\* _evaluate_feat and _evaluate_uc: a document without children only warns.
evaluated(index, i) == \A c \in children_of(index, i) : index[c].done

\* _mark_done writes the document as it was when the command read the tree.
marked(d, index, i) == [d EXCEPT ![i] = [index[i] EXCEPT !.done = TRUE]]

\* _run_auto_gates: commands of the document, run over the repository.
auto_gates == {"passed", "failed"}

\* A refusal is reported and journaled, and the command goes on to the next document.
close_next ==
  /\ cmd.pc = "close"
  /\ \E i \in next(cmd.plan), gates \in auto_gates :
       /\ docs' = IF evaluated(cmd.index, i) /\ gates = "passed"
                   THEN marked(docs, cmd.index, i) ELSE docs
       /\ cmd' = [cmd EXCEPT !.plan = @ \ {i}]
  /\ keep_files /\ keep_ghosts /\ keep_bounds

close_ends ==
  /\ cmd.pc = "close" /\ cmd.plan = {}
  /\ cmd' = Idle
  /\ UNCHANGED docs /\ keep_files /\ keep_ghosts /\ keep_bounds

---------------------------------------------------------------------------
(* People and crashes                                                            *)

touch(i) ==
  /\ edits < MaxEdits /\ edits' = edits + 1
  /\ cmd' = IF cmd.pc = "close" THEN [cmd EXCEPT !.touched = @ \cup {i}] ELSE cmd
  /\ keep_files /\ keep_ghosts /\ UNCHANGED typed

\* People mark documents DONE, reopen them, repair torn ones and add items.
edit(i) ==
  /\ touch(i)
  /\ \/ docs[i].is = "whole" /\ docs' = [docs EXCEPT ![i].done = ~@]
     \/ docs[i].is = "torn" /\ docs' = [docs EXCEPT ![i].is = "whole"]
     \/ \E p \in IF i \in Ucs THEN {"none"} ELSE ParentsOf[i] :
          docs[i] = Absent /\ docs' = [docs EXCEPT ![i] = document(p, 0)]

\* The documents that the command may be writing, and what it writes there.
writing == {i \in next(cmd.plan) : IF cmd.pc = "close" THEN evaluated(cmd.index, i)
                                   ELSE cmd.pc \in {"uc_write", "write"}}
written(i) == IF cmd.pc = "close" THEN cmd.index[i] ELSE cmd.new[i]

\* The process is killed, maybe in the middle of a file: each is written in place.
kill ==
  /\ cmd.pc # "idle"
  /\ cmd' = Idle
  /\ \/ UNCHANGED docs /\ keep_files
     \/ /\ \E i \in writing : docs' = [docs EXCEPT ![i] = cut(written(i))]
        /\ keep_files
     \/ /\ cmd.pc = "materialize"
        /\ \E f \in next(cmd.plan) : tree' = [tree EXCEPT ![f] = cut_file(cmd.batch)]
        /\ UNCHANGED <<docs, staged, head, committed>>
  /\ keep_ghosts /\ keep_bounds

step ==
  \/ role_error \/ produce \/ peer_review \/ write_architecture_deliverables \/ add \/ commit
  \/ use_cases \/ write_use_cases \/ check_use_cases
  \/ _derive_library_specs \/ run_spec_review_loop \/ _write_derived_specs
  \/ close_next \/ close_ends

Done == cmd.pc = "idle" /\ typed = MaxCommands /\ UNCHANGED vars

Next ==
  \/ architect_forge_cli \/ spec_forge_cli \/ close_spec_command
  \/ step \/ kill
  \/ \E i \in Ids : edit(i)
  \/ Done

Spec == Init /\ [][Next]_vars

---------------------------------------------------------------------------
(* Properties                                                                    *)

\* Whatever was killed or edited, each feature and item on disk that the SPEC role wrote
\* comes from a batch that the other AI accepted, and so does each architecture file
\* (run_spec_review_loop and ArchitectPhase.run write after a GO only).
ReviewedFirst ==
  /\ \A i \in Feats \cup Bls : docs[i].from \in approved \cup {0}
  /\ \A f \in Files : tree[f].from \in approved \cup {0}

\* The types with it, as the induction needs them.
ReviewInv == TypeOK /\ ReviewedFirst

\* After each commit (commit_architecture_deliverables) HEAD holds, whole, every deliverable
\* of the proposal committed last: the architecture, the milestones and all its libraries.
\* Other libraries stay from older proposals, one that was staged by a killed command and
\* never committed by its own included; no file at HEAD was cut or escaped the review.
HeadHasLastProposal ==
  /\ \A f \in {"arch", "miles"} \cup committed.libs : head[f] = file(committed.batch)
  /\ \A l \in Libs \ committed.libs : head[l].from < committed.batch \/ head[l] = file(0)
  /\ \A f \in Files : head[f].is = "whole" /\ head[f].from \in approved \cup {0}

\* A feature or a use case turns DONE under close-spec only over children that are all
\* DONE on disk, but those people touched after the command read the tree (close_spec.py).
ClosedOverDone ==
  [][cmd.pc = "close" =>
       \A i \in Ids : (docs'[i].done /\ ~docs[i].done /\ i \notin cmd'.touched) =>
         /\ i \notin Bls
         /\ \A c \in children_of(docs, i) : docs[c].done \/ c \in cmd.touched]_vars
====
