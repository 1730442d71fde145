-------------------------- MODULE SpecificationProofs --------------------------
(***************************************************************************)
(* No document and no architecture without a GO, every deliverable of the  *)
(* proposal committed last at HEAD, and close-spec closes from below: for   *)
(* any documents and libraries, any number of commands, edits and crashes. *)
(***************************************************************************)
EXTENDS Specification, TLAPS

Document(n) == [is : {"absent", "torn", "whole"}, parent : Ids \cup {"none"},
                done : BOOLEAN, from : 0..n]

File(n) == [is : {"torn", "whole"}, from : 0..n]

\* Files of the index, or of HEAD: none was cut and none escaped the review.
Sound(files) == \A f \in Files : files[f].is = "whole" /\ files[f].from \in approved \cup {0}

\* What HeadHasLastProposal says of HEAD, of any version of the files.
Latest(files, batch, libs) ==
  /\ \A f \in {"arch", "miles"} \cup libs : files[f] = file(batch)
  /\ \A l \in Libs \ libs : files[l].from < batch \/ files[l] = file(0)

Committed == Sound(staged) /\ Sound(head) /\ Latest(head, committed.batch, committed.libs)

Reviewed(i, d) == i \in Feats \cup Bls => d.from \in approved \cup {0}

\* What each command knows at each point, by the part of the code that it is in.
Fields ==
  /\ DOMAIN cmd = {"pc", "iter", "batch", "libs", "plan", "new", "wrote", "index", "touched"}
  /\ cmd.libs \subseteq Libs
  /\ \A i \in DOMAIN cmd.new : /\ i \in Ids
                               /\ cmd.new[i] \in Document(produced)
                               /\ ~cmd.new[i].done

\* A proposal under way is the last thing produced, so that what killed commands left in the
\* index is older; what is out of the plan is written.
Proposing ==
  /\ cmd.pc \in {"peer_review", "materialize"} =>
       /\ cmd.batch = produced /\ produced # 0
       /\ \A f \in Files : staged[f].from < cmd.batch
  /\ cmd.pc = "materialize" =>
       /\ cmd.batch \in approved
       /\ cmd.plan \subseteq {"arch", "miles"} \cup cmd.libs
       /\ \A f \in ({"arch", "miles"} \cup cmd.libs) \ cmd.plan : tree[f] = file(cmd.batch)
  /\ cmd.pc = "commit" => Latest(staged, cmd.batch, cmd.libs)

Deriving ==
  /\ cmd.pc = "uc_write" =>
       /\ cmd.plan \subseteq DOMAIN cmd.new /\ DOMAIN cmd.new \subseteq Ucs
       /\ \A i \in DOMAIN cmd.new : cmd.new[i].from = 0
  /\ cmd.pc \in {"derive", "review"} => cmd.plan \subseteq Ucs
  /\ cmd.pc \in {"review", "write"} =>
       cmd.batch # 0 /\ \A i \in DOMAIN cmd.new : cmd.new[i].from = cmd.batch
  /\ cmd.pc = "write" => cmd.batch \in approved /\ cmd.plan \subseteq DOMAIN cmd.new

\* The tree as close-spec read it differs from the tree by what people touched since
\* and by the documents that the command itself has closed.
Closing ==
  cmd.pc = "close" =>
    /\ cmd.plan \subseteq Ids \ Bls
    /\ cmd.index \in [Ids -> Document(produced)]
    /\ \A i \in Ids : Reviewed(i, cmd.index[i])
    /\ \A i \in Ids \ cmd.touched : /\ docs[i].is = cmd.index[i].is
                                    /\ docs[i].parent = cmd.index[i].parent
                                    /\ cmd.index[i].done => docs[i].done

\* The types, without what the fields of cmd hold.
Types == TypeOK /\ produced \in Nat /\ Fields

Inv == Types /\ ReviewedFirst /\ Proposing /\ Deriving /\ Closing /\ Committed

LEMMA Grows ==
  ASSUME NEW m \in Nat, NEW n \in Nat, m <= n
  PROVE  /\ Document(m) \subseteq Document(n) /\ 0..m \subseteq 0..n
         /\ File(m) \subseteq File(n)
  BY DEF Document, File

LEMMA AbsentDocument == ASSUME NEW n \in Nat PROVE Absent \in Document(n)
  BY DEF Absent, Document

LEMMA IdleFields ==
  /\ DOMAIN Idle = {"pc", "iter", "batch", "libs", "plan", "new", "wrote", "index", "touched"}
  /\ Idle.pc = "idle" /\ Idle.iter = 1 /\ Idle.batch = 0 /\ Idle.libs = {} /\ Idle.plan = {}
  /\ DOMAIN Idle.new = {} /\ Idle.wrote = {} /\ Idle.touched = {}
  BY DEF Idle

LEMMA Init_Inv == Init => Inv
  <1> SUFFICES ASSUME Init PROVE Inv OBVIOUS
  <1> USE DEF Init
  <1>1. docs \in [Ids -> Document(0)] /\ \A i \in Ids : docs[i].from = 0
    <2>1. CASE docs = [i \in Ids |-> Absent]
      BY <2>1, AbsentDocument DEF Absent
    <2>2. ASSUME NEW D \in SUBSET Bls,
                 docs = [i \in Ids |->
                           [document(IF i \in Ucs THEN "none" ELSE CHOOSE p \in ParentsOf[i] : TRUE, 0)
                              EXCEPT !.done = i \in D]]
          PROVE  docs \in [Ids -> Document(0)] /\ \A i \in Ids : docs[i].from = 0
      <3>1. ASSUME NEW i \in Ids PROVE docs[i] \in Document(0) /\ docs[i].from = 0
        <4>1. PICK p \in Ids \cup {"none"} :
                docs[i] = [document(p, 0) EXCEPT !.done = i \in D]
          <5>1. (IF i \in Ucs THEN "none" ELSE CHOOSE p \in ParentsOf[i] : TRUE)
                  \in Ids \cup {"none"}
            BY ParentsAssumption DEF Ids
          <5>2. QED BY <2>2, <5>1
        <4>2. docs[i] = [is |-> "whole", parent |-> p, done |-> i \in D, from |-> 0]
          BY <4>1 DEF document
        <4>3. (i \in D) \in BOOLEAN OBVIOUS
        <4>4. QED BY <4>2, <4>3 DEF Document
      <3>2. QED BY <2>2, <3>1
    <2>3. QED BY <2>1, <2>2
  <1>2. produced \in Nat /\ Types
    BY <1>1, IdleFields, BoundAssumption DEF Types, TypeOK, Fields, Document, Files, file
  <1>3. ReviewedFirst BY <1>1 DEF ReviewedFirst, Ids, file
  <1>4. Proposing /\ Deriving /\ Closing BY IdleFields DEF Proposing, Deriving, Closing
  <1>5. Committed BY DEF Committed, Latest, Sound, Files, file
  <1>6. QED BY <1>2, <1>3, <1>4, <1>5 DEF Inv
-----------------------------------------------------------------------------
(* The commands.                                                               *)

\* A step that ends a command, or leaves it alone, keeps what the commands know.
LEMMA IdleKeeps ==
  ASSUME Inv, cmd' = Idle,
         docs' = docs, keep_files, keep_ghosts, typed' \in 0..MaxCommands, edits' \in 0..MaxEdits
  PROVE  Inv'
  <1> USE DEF Inv, keep_files, keep_ghosts
  <1>1. Types' BY IdleFields, BoundAssumption DEF Types, TypeOK, Fields
  <1>2. ReviewedFirst' BY DEF ReviewedFirst
  <1>3. Proposing' /\ Deriving' /\ Closing' BY IdleFields DEF Proposing, Deriving, Closing
  <1>4. Committed' BY DEF Committed, Latest, Sound
  <1>5. QED BY <1>1, <1>2, <1>3, <1>4

LEMMA Starts ==
  ASSUME Inv, architect_forge_cli \/ spec_forge_cli \/ close_spec_command
  PROVE  Inv'
  <1> USE DEF Inv, keep_files, keep_ghosts, type
  <1>1. docs' = docs /\ edits' = edits /\ typed' \in 0..MaxCommands /\ keep_files /\ keep_ghosts
    <2>1. docs' = docs /\ edits' = edits /\ keep_files /\ keep_ghosts
      BY DEF architect_forge_cli, spec_forge_cli, close_spec_command
    <2>2. typed < MaxCommands /\ typed' = typed + 1
      BY Zenon DEF architect_forge_cli, spec_forge_cli, close_spec_command
    <2>3. QED BY <2>1, <2>2, BoundAssumption DEF Types, TypeOK
  <1>2. CASE cmd' = [Idle EXCEPT !.pc = "produce"] \/ cmd' = [Idle EXCEPT !.pc = "uc"]
    <2>1. Types'
      <3>1. /\ DOMAIN cmd' = DOMAIN Idle /\ cmd'.pc \in {"produce", "uc"} /\ cmd'.iter = 1
            /\ cmd'.batch = 0 /\ cmd'.libs = {} /\ cmd'.new = Idle.new
        BY <1>2, IdleFields
      <3>2. TypeOK' BY <1>1, <3>1, BoundAssumption DEF Types, TypeOK
      <3>3. Fields' BY <3>1, IdleFields DEF Fields
      <3>4. QED BY <1>1, <3>2, <3>3 DEF Types
    <2>2. ReviewedFirst' BY <1>1 DEF ReviewedFirst
    <2>3. Proposing' /\ Deriving' /\ Closing'
      BY <1>2, IdleFields DEF Proposing, Deriving, Closing
    <2>4. Committed' BY <1>1 DEF Committed, Latest, Sound
    <2>5. QED BY <2>1, <2>2, <2>3, <2>4
  <1>3. ASSUME NEW S \in SUBSET (Ids \ Bls),
               cmd' = [Idle EXCEPT !.pc = "close", !.plan = S, !.index = docs]
        PROVE  Inv'
    <2>1. Types' BY <1>1, <1>3, IdleFields, BoundAssumption DEF Types, TypeOK, Fields
    <2>2. ReviewedFirst' BY <1>1 DEF ReviewedFirst
    <2>3. Proposing' /\ Deriving' BY <1>3, IdleFields DEF Proposing, Deriving
    <2>4. Closing'
      BY <1>1, <1>3, IdleFields
      DEF Closing, Types, TypeOK, Document, Reviewed, ReviewedFirst
    <2>5. Committed' BY <1>1 DEF Committed, Latest, Sound
    <2>6. QED BY <2>1, <2>2, <2>3, <2>4, <2>5
  <1>4. CASE architect_forge_cli BY <1>2, <1>4, Zenon DEF architect_forge_cli
  <1>5. CASE spec_forge_cli BY <1>2, <1>5, Zenon DEF spec_forge_cli
  <1>6. CASE close_spec_command
    <2>1. PICK S \in {Feats \cap on_disk(docs), Ucs \cap on_disk(docs)}
                       \cup {{i} : i \in on_disk(docs) \ Bls} :
            cmd' = [Idle EXCEPT !.pc = "close", !.plan = S, !.index = docs]
      BY <1>6, Zenon DEF close_spec_command
    <2>2. on_disk(docs) \subseteq Ids BY DEF on_disk, Types, TypeOK
    <2>3. S \in SUBSET (Ids \ Bls) BY <2>1, <2>2, KindsAssumption DEF Ids
    <2>4. QED BY <2>1, <2>3, <1>3
  <1>7. QED BY <1>4, <1>5, <1>6

LEMMA Advances ==
  ASSUME Inv, cmd.iter # MAX_REVIEW_ITERATIONS
  PROVE  cmd.iter + 1 \in 1..MAX_REVIEW_ITERATIONS
  <1>1. cmd.iter \in 1..MAX_REVIEW_ITERATIONS BY DEF Inv, Types, TypeOK
  <1>2. QED BY <1>1, BoundAssumption

LEMMA Next_iteration ==
  ASSUME Inv, NEW pc \in {"produce", "uc", "derive"}, cmd' = next_iteration(pc),
         pc = "derive" => cmd.plan \subseteq Ucs,
         docs' = docs, keep_files, keep_ghosts, keep_bounds
  PROVE  Inv'
  <1> USE DEF Inv, keep_files, keep_ghosts, keep_bounds
  <1>1. CASE cmd' = Idle BY <1>1, IdleKeeps DEF Types, TypeOK
  <1>2. CASE /\ cmd.iter # MAX_REVIEW_ITERATIONS
             /\ cmd' = [cmd EXCEPT !.pc = pc, !.iter = @ + 1, !.batch = 0, !.libs = {},
                                   !.new = Idle.new]
    <2>1. Types'
      <3>1. /\ DOMAIN cmd' = DOMAIN cmd /\ cmd'.pc = pc /\ cmd'.iter = cmd.iter + 1
            /\ cmd'.batch = 0 /\ cmd'.libs = {} /\ cmd'.new = Idle.new
        BY <1>2 DEF Types, Fields
      <3>2. cmd'.iter \in 1..MAX_REVIEW_ITERATIONS BY <1>2, <3>1, Advances
      <3>3. TypeOK' BY <3>1, <3>2 DEF Types, TypeOK
      <3>4. Fields' BY <3>1, IdleFields DEF Types, Fields
      <3>5. QED BY <3>3, <3>4 DEF Types
    <2>2. ReviewedFirst' BY DEF ReviewedFirst
    <2>3. Proposing' /\ Deriving' /\ Closing'
      BY <1>2 DEF Proposing, Deriving, Closing, Types, Fields
    <2>4. Committed' BY DEF Committed, Latest, Sound
    <2>5. QED BY <2>1, <2>2, <2>3, <2>4
  <1>3. QED BY <1>1, <1>2 DEF next_iteration, escalated

LEMMA Ends ==
  ASSUME Inv, role_error \/ close_ends
  PROVE  Inv'
  BY IdleKeeps DEF role_error, close_ends, keep_bounds, Inv, Types, TypeOK

\* What was true of documents and files stays true of them when more is produced and
\* approved.
LEMMA Later ==
  ASSUME Inv, produced' \in {produced, produced + 1}, approved \subseteq approved',
         approved' \subseteq 1..produced'
  PROVE  /\ produced' \in Nat
         /\ Document(produced) \subseteq Document(produced')
         /\ 0..produced \subseteq 0..produced' /\ File(produced) \subseteq File(produced')
         /\ \A i, d : Reviewed(i, d) => Reviewed(i, d)'
  <1>1. produced' \in Nat /\ produced <= produced' BY DEF Inv, Types
  <1>2. QED BY <1>1, Grows DEF Reviewed, Inv, Types

LEMMA FileTypes ==
  ASSUME Inv
  PROVE  /\ tree \in [Files -> File(produced)] /\ staged \in [Files -> File(produced)]
         /\ head \in [Files -> File(produced)]
  BY DEF Inv, Types, TypeOK, File

\* What the commits left stays sound when more is approved.
LEMMA StillCommitted ==
  ASSUME Inv, keep_files, approved \subseteq approved'
  PROVE  Committed'
  <1>1. Sound(staged)' /\ Sound(head)' BY DEF Inv, Committed, Sound, keep_files
  <1>2. QED BY <1>1 DEF Inv, Committed, Latest, keep_files

LEMMA Proposal ==
  ASSUME Inv, produce
  PROVE  Inv'
  <1> USE DEF Inv, keep_files, keep_bounds
  <1>1. PICK libs \in proposals :
          cmd' = [cmd EXCEPT !.pc = "peer_review", !.batch = produced', !.libs = libs]
    BY DEF produce
  <1>2. produced' = produced + 1 /\ docs' = docs /\ approved' = approved
    BY DEF produce
  <1>3. /\ Document(produced) \subseteq Document(produced') /\ 0..produced \subseteq 0..produced'
        /\ produced' \in Nat \ {0}
    BY <1>2, Later DEF Types, TypeOK
  <1>4. Types'
    BY <1>1, <1>2, <1>3 DEF Types, TypeOK, Fields, produce, proposals, Document
  <1>5. ReviewedFirst' BY <1>2 DEF ReviewedFirst, produce
  <1>6. Proposing' /\ Deriving' /\ Closing'
    <2>1. cmd'.pc = "peer_review" /\ cmd'.batch = produced' BY <1>1 DEF Types, Fields
    <2>2. \A f \in Files : staged'[f].from < produced'
      <3>1. staged' = staged BY DEF produce
      <3>2. \A f \in Files : staged[f].from \in 0..produced BY FileTypes DEF File
      <3>3. QED BY <1>2, <3>1, <3>2 DEF Types
    <2>3. QED BY <1>3, <2>1, <2>2 DEF Proposing, Deriving, Closing
  <1>7. Committed' BY DEF Committed, Latest, Sound, produce
  <1>8. QED BY <1>4, <1>5, <1>6, <1>7

LEMMA Peer ==
  ASSUME Inv, peer_review
  PROVE  Inv'
  <1> USE DEF Inv, keep_files, keep_bounds
  <1>1. docs' = docs /\ produced' = produced /\ keep_files /\ keep_bounds BY DEF peer_review
  <1>2. CASE cmd' = next_iteration("produce") /\ approved' = approved
    BY <1>1, <1>2, Next_iteration DEF keep_ghosts
  <1>3. CASE /\ approved' = approved \cup {cmd.batch}
             /\ cmd' = [cmd EXCEPT !.pc = "materialize", !.plan = deliverables(cmd.libs)]
    <2>1. cmd.batch \in 1..produced /\ cmd.batch = produced
      BY DEF peer_review, Proposing, Types
    <2>2. Types' BY <1>1, <1>3, <2>1 DEF Types, TypeOK, Fields, Document
    <2>3. ReviewedFirst' BY <1>1, <1>3 DEF ReviewedFirst
    <2>4. Proposing' /\ Deriving' /\ Closing'
      <3>1. /\ cmd'.pc = "materialize" /\ cmd'.batch = cmd.batch /\ cmd'.libs = cmd.libs
            /\ cmd'.plan = {"arch", "miles"} \cup cmd.libs
        BY <1>3 DEF Types, Fields, deliverables
      <3>2. staged' = staged /\ tree' = tree BY <1>1
      <3>3. produced # 0 /\ \A f \in Files : staged[f].from < cmd.batch
        BY DEF peer_review, Proposing
      <3>4. QED BY <1>1, <1>3, <2>1, <3>1, <3>2, <3>3 DEF Proposing, Deriving, Closing
    <2>5. Committed' BY <1>1, <1>3, StillCommitted
    <2>6. QED BY <2>2, <2>3, <2>4, <2>5
  <1>4. QED BY <1>2, <1>3, Zenon DEF peer_review

LEMMA Materialize ==
  ASSUME Inv, write_architecture_deliverables
  PROVE  Inv'
  <1> USE DEF Inv, keep_ghosts, keep_bounds
  <1>1. PICK f \in next(cmd.plan) :
          /\ tree' = [tree EXCEPT ![f] = file(cmd.batch)]
          /\ cmd' = [cmd EXCEPT !.plan = @ \ {f}]
    BY DEF write_architecture_deliverables
  <1>2. f \in cmd.plan /\ f \in Files
    BY DEF next, write_architecture_deliverables, Proposing, Files, Types, Fields
  <1>3. /\ cmd.pc = "materialize" /\ docs' = docs /\ staged' = staged /\ head' = head
        /\ committed' = committed /\ keep_ghosts /\ keep_bounds
    BY DEF write_architecture_deliverables
  <1>4. Types'
    <2>1. tree' \in [Files -> File(produced)]
      <3>1. file(cmd.batch) \in File(produced) BY DEF file, File, Types, TypeOK
      <3>2. QED BY <1>1, <3>1, FileTypes
    <2>2. QED BY <1>1, <1>3, <2>1 DEF Types, TypeOK, Fields, Document, File
  <1>5. ReviewedFirst'
    <2>1. file(cmd.batch).from \in approved BY <1>3 DEF file, Proposing
    <2>2. \A g \in Files : tree'[g] \in {tree[g], file(cmd.batch)} BY <1>1, FileTypes
    <2>3. QED BY <1>3, <2>1, <2>2 DEF ReviewedFirst
  <1>6. Proposing' /\ Deriving' /\ Closing'
    <2>1. /\ cmd'.pc = "materialize" /\ cmd'.batch = cmd.batch /\ cmd'.libs = cmd.libs
          /\ cmd'.plan = cmd.plan \ {f}
      BY <1>1, <1>3 DEF Types, Fields
    <2>2. \A g \in Files : tree'[g] = IF g = f THEN file(cmd.batch) ELSE tree[g]
      BY <1>1, FileTypes
    <2>3. {"arch", "miles"} \cup cmd.libs \subseteq Files BY DEF Files, Types, Fields
    <2>4. QED BY <1>3, <2>1, <2>2, <2>3 DEF Proposing, Deriving, Closing
  <1>7. Committed' BY <1>3 DEF Committed, Latest, Sound
  <1>8. QED BY <1>4, <1>5, <1>6, <1>7

LEMMA Add ==
  ASSUME Inv, add
  PROVE  Inv'
  <1> USE DEF Inv, keep_ghosts, keep_bounds
  <1>1. /\ cmd.pc = "materialize" /\ cmd.plan = {}
        /\ staged' = [f \in Files |-> IF f \in {"arch", "miles"} \cup cmd.libs THEN tree[f]
                                                                            ELSE staged[f]]
        /\ cmd' = [cmd EXCEPT !.pc = "commit"]
        /\ docs' = docs /\ tree' = tree /\ head' = head /\ committed' = committed
        /\ keep_ghosts /\ keep_bounds
    BY DEF add
  <1>2. /\ \A f \in {"arch", "miles"} \cup cmd.libs : tree[f] = file(cmd.batch)
        /\ \A f \in Files : staged[f].from < cmd.batch
        /\ cmd.batch \in approved /\ cmd.libs \subseteq Libs
    BY <1>1 DEF Proposing, Types, Fields
  <1>3. Types'
    <2>1. tree \in [Files -> File(produced)] /\ staged \in [Files -> File(produced)]
      BY FileTypes
    <2>2. staged' \in [Files -> File(produced)] BY <1>1, <2>1
    <2>3. QED BY <1>1, <2>2 DEF Types, TypeOK, Fields, Document, File
  <1>4. ReviewedFirst' BY <1>1 DEF ReviewedFirst
  <1>5. cmd'.pc = "commit" /\ cmd'.batch = cmd.batch /\ cmd'.libs = cmd.libs
    BY <1>1 DEF Types, Fields
  <1>6. \A f \in Files : staged'[f] = IF f \in {"arch", "miles"} \cup cmd.libs
                                       THEN file(cmd.batch) ELSE staged[f]
    BY <1>1, <1>2
  <1>7. Latest(staged, cmd.batch, cmd.libs)'
    <2>1. {"arch", "miles"} \cup cmd.libs \subseteq Files BY <1>2 DEF Files
    <2>2. \A f \in {"arch", "miles"} \cup cmd.libs : staged'[f] = file(cmd.batch)
      BY <1>6, <2>1
    <2>3. \A l \in Libs \ cmd.libs : staged'[l].from < cmd.batch \/ staged'[l] = file(0)
      <3>1. ASSUME NEW l \in Libs \ cmd.libs
            PROVE  staged'[l].from < cmd.batch \/ staged'[l] = file(0)
        <4>1. l \in Files BY DEF Files
        <4>2. QED BY <1>2, <1>6, <4>1, LibsAssumption
      <3>2. QED BY <3>1
    <2>4. QED BY <1>5, <2>2, <2>3 DEF Latest
  <1>8. Proposing' /\ Deriving' /\ Closing'
    BY <1>1, <1>5, <1>7 DEF Proposing, Deriving, Closing, Types, Fields
  <1>9. Committed'
    <2>1. file(cmd.batch).is = "whole" /\ file(cmd.batch).from \in approved BY <1>2 DEF file
    <2>2. Sound(staged)' BY <1>1, <1>6, <2>1 DEF Committed, Sound
    <2>3. QED BY <1>1, <2>2 DEF Committed, Latest, Sound
  <1>10. QED BY <1>3, <1>4, <1>8, <1>9

LEMMA Commit ==
  ASSUME Inv, commit
  PROVE  Inv'
  <1> USE DEF Inv, keep_ghosts, keep_bounds
  <1>1. Types' BY IdleFields, BoundAssumption DEF commit, Types, TypeOK, Fields
  <1>2. ReviewedFirst' BY DEF commit, ReviewedFirst
  <1>3. Proposing' /\ Deriving' /\ Closing'
    BY IdleFields DEF commit, Proposing, Deriving, Closing
  <1>4. Committed' BY DEF commit, Proposing, Committed, Latest, Sound
  <1>5. QED BY <1>1, <1>2, <1>3, <1>4

LEMMA Use_cases ==
  ASSUME Inv, use_cases
  PROVE  Inv'
  <1> USE DEF Inv, keep_files, keep_ghosts, keep_bounds
  <1>1. docs' = docs /\ keep_files /\ keep_ghosts /\ keep_bounds BY DEF use_cases
  <1>2. CASE cmd' = next_iteration("uc") BY <1>1, <1>2, Next_iteration
  <1>3. ASSUME NEW S \in SUBSET Ucs,
               cmd' = [cmd EXCEPT !.pc = "uc_write", !.plan = S,
                                  !.new = [u \in S |-> document("none", 0)]]
        PROVE  Inv'
    <2>1. document("none", 0) \in Document(produced) /\ ~document("none", 0).done
          /\ document("none", 0).from = 0
      BY DEF document, Document, Types
    <2>2. DOMAIN cmd'.new = S /\ \A u \in S : cmd'.new[u] = document("none", 0)
      BY <1>3 DEF Types, Fields
    <2>3. Types' BY <1>1, <1>3, <2>1, <2>2 DEF Types, TypeOK, Fields, Ids, Document
    <2>4. ReviewedFirst' BY <1>1 DEF ReviewedFirst
    <2>5. Proposing' /\ Deriving' /\ Closing'
      BY <1>3, <2>1, <2>2 DEF Proposing, Deriving, Closing, Types, Fields
    <2>6. Committed' BY <1>1 DEF Committed, Latest, Sound
    <2>7. QED BY <2>3, <2>4, <2>5, <2>6
  <1>4. QED BY <1>2, <1>3, Zenon DEF use_cases, use_case_sets

\* One document of the plan is written.
LEMMA Writes ==
  ASSUME Inv, cmd.pc \in {"uc_write", "write"}, NEW i \in next(cmd.plan),
         docs' = [docs EXCEPT ![i] = cmd.new[i]],
         cmd' = [cmd EXCEPT !.plan = @ \ {i}],
         keep_files, keep_ghosts, keep_bounds
  PROVE  Inv'
  <1> USE DEF Inv, keep_files, keep_ghosts, keep_bounds
  <1>1. i \in cmd.plan /\ i \in DOMAIN cmd.new BY DEF next, Deriving
  <1>2. i \in Ids /\ cmd.new[i] \in Document(produced) /\ cmd.new[i].from \in approved \cup {0}
    BY <1>1 DEF Types, Fields, Deriving
  <1>3. docs' \in [Ids -> Document(produced)] BY <1>2 DEF Types, TypeOK, Document
  <1>4. Types' BY <1>3 DEF Types, TypeOK, Fields, Document
  <1>5. ReviewedFirst' BY <1>2 DEF ReviewedFirst, Types, TypeOK, Ids
  <1>6. Proposing' /\ Deriving' /\ Closing'
    BY <1>1 DEF Proposing, Deriving, Closing, Types, Fields
  <1>7. Committed' BY DEF Committed, Latest, Sound
  <1>8. QED BY <1>4, <1>5, <1>6, <1>7

LEMMA Write_use_cases ==
  ASSUME Inv, write_use_cases PROVE Inv'
  BY Writes DEF write_use_cases

LEMMA Write_derived ==
  ASSUME Inv, _write_derived_specs PROVE Inv'
  <1>1. CASE cmd' = Idle /\ docs' = docs
    BY <1>1, IdleKeeps DEF _write_derived_specs, keep_bounds, Inv, Types, TypeOK
  <1>2. QED BY <1>1, Writes DEF _write_derived_specs

LEMMA Check_use_cases ==
  ASSUME Inv, check_use_cases
  PROVE  Inv'
  <1> USE DEF Inv, keep_files, keep_ghosts, keep_bounds
  <1> DEFINE current == DOMAIN cmd.new
  <1>1. /\ docs' = [i \in Ids |-> IF i \in cmd.wrote \ current THEN Absent ELSE docs[i]]
        /\ cmd.pc = "uc_write" /\ cmd.plan = {}
        /\ keep_files /\ keep_ghosts /\ keep_bounds
    BY DEF check_use_cases
  <1>2. \/ cmd' = Idle
        \/ cmd' = [cmd EXCEPT !.pc = "derive", !.iter = 1, !.plan = current,
                              !.new = Idle.new, !.wrote = {}]
        \/ /\ cmd.iter # MAX_REVIEW_ITERATIONS
           /\ cmd' = [next_iteration("uc") EXCEPT !.wrote = current]
    BY Zenon DEF check_use_cases
  <1>3. docs' \in [Ids -> Document(produced)]
    BY <1>1, AbsentDocument DEF Types, TypeOK, Document
  <1>4. ReviewedFirst' BY <1>1 DEF ReviewedFirst, Absent, Ids
  <1>5. Committed' BY <1>1 DEF Committed, Latest, Sound
  <1>6. CASE cmd' = Idle
    <2>1. Types' BY <1>1, <1>3, <1>6, IdleFields, BoundAssumption DEF Types, TypeOK, Fields, Document
    <2>2. Proposing' /\ Deriving' /\ Closing'
      BY <1>6, IdleFields DEF Proposing, Deriving, Closing
    <2>3. QED BY <1>4, <1>5, <2>1, <2>2
  <1>7. CASE cmd' = [cmd EXCEPT !.pc = "derive", !.iter = 1, !.plan = current,
                                !.new = Idle.new, !.wrote = {}]
    <2>1. current \subseteq Ucs BY <1>1 DEF Deriving
    <2>2. Types'
      BY <1>1, <1>3, <1>7, IdleFields, BoundAssumption DEF Types, TypeOK, Fields, Document
    <2>3. Proposing' /\ Deriving' /\ Closing'
      BY <1>7, <2>1 DEF Proposing, Deriving, Closing, Types, Fields
    <2>4. QED BY <1>4, <1>5, <2>2, <2>3
  <1>8. CASE /\ cmd.iter # MAX_REVIEW_ITERATIONS
             /\ cmd' = [next_iteration("uc") EXCEPT !.wrote = current]
    <2>1. cmd' = [cmd EXCEPT !.pc = "uc", !.iter = @ + 1, !.batch = 0, !.libs = {},
                             !.new = Idle.new, !.wrote = current]
      BY <1>8 DEF next_iteration, Types, Fields
    <2>2. Types'
      <3>1. /\ DOMAIN cmd' = DOMAIN cmd /\ cmd'.pc = "uc" /\ cmd'.iter = cmd.iter + 1
            /\ cmd'.batch = 0 /\ cmd'.libs = {} /\ cmd'.new = Idle.new
        BY <2>1 DEF Types, Fields
      <3>2. cmd'.iter \in 1..MAX_REVIEW_ITERATIONS
        BY <1>8, <3>1, Advances
      <3>3. TypeOK' BY <1>1, <1>3, <3>1, <3>2 DEF Types, TypeOK, Document
      <3>4. Fields' BY <3>1, IdleFields DEF Types, Fields
      <3>5. QED BY <1>1, <3>3, <3>4 DEF Types
    <2>3. Proposing' /\ Deriving' /\ Closing'
      BY <2>1 DEF Proposing, Deriving, Closing, Types, Fields
    <2>4. QED BY <1>4, <1>5, <2>2, <2>3
  <1>9. QED BY <1>2, <1>6, <1>7, <1>8

\* What derive_features and derive_backlog may answer: documents under documents.
LEMMA Batches ==
  ASSUME NEW ucs \in SUBSET Ucs, NEW b \in batches(ucs)
  PROVE  DOMAIN b \subseteq Ids /\ \A i \in DOMAIN b : b[i] \in Ids
  <1> DEFINE join(f, a) == [i \in DOMAIN f \cup DOMAIN a |-> IF i \in DOMAIN f THEN f[i] ELSE a[i]]
             under(f, last) == {join(f, a) : a \in backlog_answers(f, last)}
             by(last) == UNION {under(f, last) : f \in feature_answers(ucs, last)}
  <1>1. b \in UNION {by(last) : last \in ucs} BY DEF batches
  <1>2. PICK last \in ucs : b \in by(last) BY <1>1
  <1>3. PICK f \in feature_answers(ucs, last) : b \in under(f, last) BY <1>2
  <1>4. PICK a \in backlog_answers(f, last) : b = join(f, a) BY <1>3
  <1>5. PICK F \in SUBSET Feats : f \in [F -> ucs] BY DEF feature_answers, families
  <1>6. PICK A \in SUBSET Bls : a \in [A -> DOMAIN f] BY DEF backlog_answers, families
  <1>7. DOMAIN f = F /\ DOMAIN a = A BY <1>5, <1>6
  <1>8. QED BY <1>4, <1>5, <1>6, <1>7 DEF Ids

LEMMA Derive ==
  ASSUME Inv, _derive_library_specs
  PROVE  Inv'
  <1> USE DEF Inv, keep_files, keep_bounds
  <1>1. PICK b \in batches(cmd.plan) :
          cmd' = [cmd EXCEPT !.pc = "review", !.batch = produced',
                             !.new = [i \in DOMAIN b |-> document(b[i], produced')]]
    BY DEF _derive_library_specs
  <1>2. /\ cmd.pc = "derive" /\ produced' = produced + 1 /\ docs' = docs /\ approved' = approved
        /\ keep_files /\ keep_bounds
    BY DEF _derive_library_specs
  <1>3. /\ Document(produced) \subseteq Document(produced') /\ 0..produced \subseteq 0..produced'
        /\ produced' \in Nat \ {0}
    BY <1>2, Later DEF Types, TypeOK
  <1>4. cmd.plan \in SUBSET Ucs BY <1>2 DEF Deriving
  <1>5. DOMAIN b \subseteq Ids /\ \A i \in DOMAIN b : b[i] \in Ids BY <1>4, Batches
  <1>6. \A i \in DOMAIN b : /\ document(b[i], produced') \in Document(produced')
                            /\ ~document(b[i], produced').done
                            /\ document(b[i], produced').from = produced'
    BY <1>3, <1>5 DEF document, Document
  <1>7. /\ DOMAIN cmd'.new = DOMAIN b
        /\ \A i \in DOMAIN b : cmd'.new[i] = document(b[i], produced')
        /\ cmd'.batch = produced' /\ cmd'.pc = "review" /\ cmd'.plan = cmd.plan
    BY <1>1 DEF Types, Fields
  <1>8. docs' \in [Ids -> Document(produced')] BY <1>2, <1>3 DEF Types, TypeOK, Document
  <1>9. Types'
    BY <1>1, <1>2, <1>3, <1>5, <1>6, <1>7, <1>8 DEF Types, TypeOK, Fields, Document
  <1>10. ReviewedFirst' BY <1>2 DEF ReviewedFirst
  <1>11. Proposing' /\ Deriving' /\ Closing'
    BY <1>3, <1>4, <1>6, <1>7 DEF Proposing, Deriving, Closing
  <1>12. Committed' BY <1>2 DEF Committed, Latest, Sound
  <1>13. QED BY <1>9, <1>10, <1>11, <1>12

LEMMA Review ==
  ASSUME Inv, run_spec_review_loop
  PROVE  Inv'
  <1> USE DEF Inv, keep_files, keep_bounds
  <1>1. cmd.pc = "review" /\ docs' = docs /\ produced' = produced /\ keep_files /\ keep_bounds
    BY DEF run_spec_review_loop
  <1>2. CASE approved' = approved \cup {} /\ cmd' = next_iteration("derive")
    BY <1>1, <1>2, Next_iteration DEF keep_ghosts, Deriving
  <1>3. CASE /\ approved' = approved \cup {cmd.batch}
             /\ cmd' = [cmd EXCEPT !.pc = "write", !.plan = DOMAIN cmd.new]
    <2>1. cmd.batch \in 1..produced BY <1>1 DEF Deriving, Types, TypeOK
    <2>2. Types' BY <1>1, <1>3, <2>1 DEF Types, TypeOK, Fields, Document
    <2>3. ReviewedFirst' BY <1>1, <1>3 DEF ReviewedFirst
    <2>4. Proposing' /\ Deriving' /\ Closing'
      BY <1>1, <1>3, <2>1 DEF Proposing, Deriving, Closing, Types, Fields
    <2>5. Committed' BY <1>1, <1>3, StillCommitted
    <2>6. QED BY <2>2, <2>3, <2>4, <2>5
  <1>4. QED BY <1>2, <1>3, Zenon DEF run_spec_review_loop, reviews, accepted

\* close-spec takes up document i: what it writes is what it read, with the status DONE.
LEMMA Closes ==
  ASSUME Inv, cmd.pc = "close", NEW i \in next(cmd.plan), docs' # docs,
         docs' = marked(docs, cmd.index, i)
  PROVE  /\ i \in Ids \ Bls
         /\ docs' \in [Ids -> Document(produced)]
         /\ docs'[i] = [cmd.index[i] EXCEPT !.done = TRUE]
         /\ \A j \in Ids \ {i} : docs'[j] = docs[j]
  <1>1. i \in Ids \ Bls /\ cmd.index[i] \in Document(produced) BY DEF next, Inv, Closing
  <1>2. [cmd.index[i] EXCEPT !.done = TRUE] \in Document(produced) BY <1>1 DEF Document
  <1>3. docs \in [Ids -> Document(produced)] BY DEF Inv, Types, TypeOK, Document
  <1>4. QED BY <1>1, <1>2, <1>3 DEF marked

LEMMA Close_next ==
  ASSUME Inv, close_next
  PROVE  Inv'
  <1> USE DEF Inv, keep_files, keep_ghosts, keep_bounds
  <1>1. PICK i \in next(cmd.plan) :
          /\ docs' = docs \/ docs' = marked(docs, cmd.index, i)
          /\ cmd' = [cmd EXCEPT !.plan = @ \ {i}]
    BY DEF close_next
  <1>2. cmd.pc = "close" /\ keep_files /\ keep_ghosts /\ keep_bounds BY DEF close_next
  <1>3. /\ DOMAIN cmd' = DOMAIN cmd /\ cmd'.pc = "close" /\ cmd'.plan = cmd.plan \ {i}
        /\ cmd'.index = cmd.index /\ cmd'.touched = cmd.touched
    BY <1>1, <1>2 DEF Types, Fields
  <1>4. docs' \in [Ids -> Document(produced)]
    BY <1>1, <1>2, Closes DEF Types, TypeOK, Document
  <1>5. Types' BY <1>1, <1>2, <1>4 DEF Types, TypeOK, Fields, Document
  <1>6. \A j \in Ids : docs'[j] = docs[j] \/ (j = i /\ docs'[j] = [cmd.index[j] EXCEPT !.done = TRUE])
    BY <1>1, <1>2, Closes
  <1>7. \A j \in Ids : cmd.index[j] \in Document(produced) BY <1>2 DEF Closing
  <1>8. ReviewedFirst'
    <2>1. ASSUME NEW j \in Feats \cup Bls PROVE docs'[j].from \in approved \cup {0}
      <3>1. j \in Ids BY DEF Ids
      <3>2. Reviewed(j, cmd.index[j]) BY <1>2, <3>1 DEF Closing
      <3>3. [cmd.index[j] EXCEPT !.done = TRUE].from = cmd.index[j].from
        BY <1>7, <3>1 DEF Document
      <3>4. QED BY <1>6, <3>1, <3>2, <3>3 DEF Reviewed, ReviewedFirst
    <2>2. QED BY <1>2, <2>1 DEF ReviewedFirst
  <1>9. Closing'
    <2>1. ASSUME NEW j \in Ids \ cmd.touched
          PROVE  /\ docs'[j].is = cmd.index[j].is
                 /\ docs'[j].parent = cmd.index[j].parent
                 /\ cmd.index[j].done => docs'[j].done
      <3>1. CASE docs'[j] = docs[j] BY <1>2, <3>1 DEF Closing
      <3>2. CASE docs'[j] = [cmd.index[j] EXCEPT !.done = TRUE] BY <1>7, <3>2 DEF Document
      <3>3. QED BY <1>6, <3>1, <3>2
    <2>2. QED BY <1>2, <1>3, <2>1 DEF Closing, Reviewed
  <1>10. Proposing' /\ Deriving' BY <1>3 DEF Proposing, Deriving
  <1>11. Committed' BY <1>2 DEF Committed, Latest, Sound
  <1>12. QED BY <1>5, <1>8, <1>9, <1>10, <1>11

LEMMA Edit ==
  ASSUME Inv, NEW i \in Ids, edit(i)
  PROVE  Inv'
  <1> USE DEF Inv, keep_files, keep_ghosts
  <1>1. /\ cmd' = IF cmd.pc = "close" THEN [cmd EXCEPT !.touched = @ \cup {i}] ELSE cmd
        /\ typed' = typed /\ edits' \in 0..MaxEdits /\ keep_files /\ keep_ghosts
    BY BoundAssumption DEF edit, touch, Types, TypeOK
  <1>2. /\ docs' \in [Ids -> Document(produced)]
        /\ docs'[i].from \in {docs[i].from, 0}
        /\ \A j \in Ids \ {i} : docs'[j] = docs[j]
    <2> docs \in [Ids -> Document(produced)] BY DEF Types, TypeOK, Document
    <2>1. CASE docs' = [docs EXCEPT ![i].done = ~@] BY <2>1 DEF Document
    <2>2. CASE docs' = [docs EXCEPT ![i].is = "whole"] BY <2>2 DEF Document
    <2>3. ASSUME NEW p \in Ids \cup {"none"}, docs' = [docs EXCEPT ![i] = document(p, 0)]
          PROVE  <1>2!1 /\ <1>2!2 /\ <1>2!3
      BY <2>3 DEF document, Document, Types
    <2>4. \A p \in IF i \in Ucs THEN {"none"} ELSE ParentsOf[i] : p \in Ids \cup {"none"}
      BY ParentsAssumption DEF Ids
    <2>5. QED BY <2>1, <2>2, <2>3, <2>4 DEF edit
  <1>3. Types' BY <1>1, <1>2 DEF Types, TypeOK, Fields, Document
  <1>4. ReviewedFirst' BY <1>1, <1>2 DEF ReviewedFirst, Ids
  <1>5. CASE cmd.pc # "close"
    <2>1. cmd' = cmd BY <1>1, <1>5
    <2>2. Proposing' /\ Deriving' /\ Closing'
      BY <1>1, <1>5, <2>1 DEF Proposing, Deriving, Closing, Committed, Latest, Sound
    <2>3. QED BY <1>1, <1>3, <1>4, <2>2 DEF Committed, Latest, Sound
  <1>6. CASE cmd.pc = "close"
    <2>1. /\ cmd'.pc = "close" /\ cmd'.plan = cmd.plan /\ cmd'.index = cmd.index
          /\ cmd'.touched = cmd.touched \cup {i}
      BY <1>1, <1>6 DEF Types, Fields
    <2>2. Proposing' /\ Deriving' BY <2>1 DEF Proposing, Deriving
    <2>3. Closing' BY <1>1, <1>2, <1>6, <2>1 DEF Closing, Reviewed
    <2>4. QED BY <1>1, <1>3, <1>4, <2>2, <2>3 DEF Committed, Latest, Sound
  <1>7. QED BY <1>5, <1>6

LEMMA Kill ==
  ASSUME Inv, kill
  PROVE  Inv'
  <1> USE DEF Inv, keep_ghosts, keep_bounds
  <1>1. cmd' = Idle /\ keep_ghosts /\ keep_bounds BY DEF kill
  <1>2. CASE docs' = docs /\ keep_files BY <1>1, <1>2, IdleKeeps DEF Types, TypeOK
  <1>3. ASSUME NEW i \in writing, docs' = [docs EXCEPT ![i] = cut(written(i))], keep_files
        PROVE  Inv'
    <2> USE DEF keep_files
    <2>1. i \in cmd.plan /\ cmd.pc \in {"uc_write", "write", "close"}
      BY <1>3 DEF writing, next
    <2>2. i \in Ids /\ written(i) \in Document(produced) /\ Reviewed(i, written(i))
      <3>1. CASE cmd.pc = "close" BY <2>1, <3>1 DEF written, Closing
      <3>2. CASE cmd.pc \in {"uc_write", "write"}
        <4>1. i \in DOMAIN cmd.new BY <2>1, <3>2 DEF Deriving
        <4>2. i \in Ids /\ cmd.new[i] \in Document(produced) BY <4>1 DEF Types, Fields
        <4>3. cmd.new[i].from \in approved \cup {0} BY <2>1, <3>2, <4>1 DEF Deriving
        <4>4. QED BY <3>2, <4>2, <4>3 DEF written, Reviewed
      <3>3. QED BY <2>1, <3>1, <3>2
    <2>3. cut(written(i)) \in Document(produced) /\ cut(written(i)).from = written(i).from
      BY <2>2 DEF cut, Document
    <2>4. docs' \in [Ids -> Document(produced)] BY <1>3, <2>2, <2>3 DEF Types, TypeOK, Document
    <2>5. Types' BY <1>1, <1>3, <2>4, IdleFields, BoundAssumption DEF Types, TypeOK, Fields, Document
    <2>6. ReviewedFirst'
      BY <1>1, <1>3, <2>2, <2>3 DEF ReviewedFirst, Reviewed, Types, TypeOK, Ids
    <2>7. Proposing' /\ Deriving' /\ Closing' BY <1>1, IdleFields DEF Proposing, Deriving, Closing
    <2>8. QED BY <1>1, <1>3, <2>5, <2>6, <2>7 DEF Committed, Latest, Sound
  <1>4. ASSUME NEW f \in next(cmd.plan), cmd.pc = "materialize",
               tree' = [tree EXCEPT ![f] = cut_file(cmd.batch)],
               UNCHANGED <<docs, staged, head, committed>>
        PROVE  Inv'
    <2>1. cut_file(cmd.batch) \in File(produced) /\ cut_file(cmd.batch).from = cmd.batch
      BY DEF cut_file, file, File, Types, TypeOK
    <2>2. tree' \in [Files -> File(produced)] BY <1>4, <2>1, FileTypes
    <2>3. Types'
      <3>1. TypeOK' BY <1>1, <1>4, <2>2, IdleFields, BoundAssumption DEF Types, TypeOK, File
      <3>2. Fields' BY <1>1, IdleFields DEF Fields
      <3>3. QED BY <1>1, <3>1, <3>2 DEF Types
    <2>4. ReviewedFirst'
      <3>1. cmd.batch \in approved BY <1>4 DEF Proposing
      <3>2. \A g \in Files : tree'[g] \in {tree[g], cut_file(cmd.batch)} BY <1>4, FileTypes
      <3>3. QED BY <1>1, <1>4, <2>1, <3>1, <3>2 DEF ReviewedFirst
    <2>5. Proposing' /\ Deriving' /\ Closing' BY <1>1, IdleFields DEF Proposing, Deriving, Closing
    <2>6. Committed' BY <1>1, <1>4 DEF Committed, Latest, Sound
    <2>7. QED BY <2>3, <2>4, <2>5, <2>6
  <1>5. QED BY <1>2, <1>3, <1>4, Zenon DEF kill

LEMMA Stutter ==
  ASSUME Inv, UNCHANGED vars
  PROVE  Inv'
  <1> USE DEF Inv, vars
  <1>1. Types' BY DEF Types, TypeOK, Fields, Document
  <1>2. ReviewedFirst' /\ Committed' BY DEF ReviewedFirst, Committed, Latest, Sound
  <1>3. Proposing' /\ Deriving' /\ Closing' BY DEF Proposing, Deriving, Closing, Committed, Latest, Sound, Reviewed
  <1>4. QED BY <1>1, <1>2, <1>3

LEMMA Next_Inv == Inv /\ [Next]_vars => Inv'
  <1> SUFFICES ASSUME Inv, [Next]_vars PROVE Inv' OBVIOUS
  <1>1. CASE architect_forge_cli \/ spec_forge_cli \/ close_spec_command BY <1>1, Starts
  <1>2. CASE step
    BY <1>2, Ends, Proposal, Peer, Materialize, Add, Commit, Use_cases, Write_use_cases,
       Check_use_cases, Derive, Review, Write_derived, Close_next
    DEF step
  <1>3. CASE kill BY <1>3, Kill
  <1>4. ASSUME NEW i \in Ids, edit(i) PROVE Inv' BY <1>4, Edit
  <1>5. CASE Done \/ UNCHANGED vars BY <1>5, Stutter DEF Done
  <1>6. QED BY <1>1, <1>2, <1>3, <1>4, <1>5 DEF Next
-----------------------------------------------------------------------------
(* The theorems.                                                               *)

LEMMA Spec_Inv == Spec => []Inv
  BY Init_Inv, Next_Inv, PTL DEF Spec

\* Nothing that the SPEC role or the ARCHITECT wrote is on disk without the GO of the
\* other AI for the batch it comes from, whatever is killed or edited in between.
THEOREM ReviewedBeforeWritten == Spec => []ReviewInv
  <1>1. Inv => ReviewInv BY DEF Inv, Types, ReviewInv
  <1>2. QED BY <1>1, Spec_Inv, PTL

\* Whatever was killed before, a commit leaves at HEAD every deliverable of its own proposal,
\* and nothing else than whole, reviewed files of older ones: what killed commands staged was
\* written in full, after a GO, and before the proposal that is committed was produced.
THEOREM HeadIsLastProposal == Spec => []HeadHasLastProposal
  <1>1. Inv => HeadHasLastProposal BY DEF Inv, Committed, Latest, Sound, HeadHasLastProposal
  <1>2. QED BY <1>1, Spec_Inv, PTL

\* close-spec closes over closed children only, but for what people touched since it read
\* the tree.
THEOREM ClosesFromBelow == Spec => ClosedOverDone
  <1> DEFINE Over(i) == docs'[i].done /\ ~docs[i].done /\ i \notin cmd'.touched =>
                          /\ i \notin Bls
                          /\ \A c \in children_of(docs, i) : docs[c].done \/ c \in cmd.touched
             Step == cmd.pc = "close" => \A i \in Ids : Over(i)
  <1>1. ASSUME Inv, Next, cmd.pc = "close", NEW i \in Ids,
               docs'[i].done, ~docs[i].done, i \notin cmd'.touched
        PROVE  i \notin Bls /\ \A c \in children_of(docs, i) : docs[c].done \/ c \in cmd.touched
    <2>1. docs' # docs BY <1>1
    <2>2. ~ \E j \in Ids : edit(j)
      <3>1. ASSUME NEW j \in Ids, edit(j) PROVE FALSE
        <4>1. j \in cmd'.touched BY <1>1, <3>1 DEF edit, touch, Inv, Types, Fields
        <4>2. docs'[i] = docs[i] BY <1>1, <3>1, <4>1 DEF edit, Inv, Types, TypeOK
        <4>3. QED BY <1>1, <4>2
      <3>2. QED BY <3>1
    <2>3. ~kill
      <3>1. ASSUME NEW j \in writing, docs' = [docs EXCEPT ![j] = cut(written(j))] PROVE FALSE
        <4>1. cmd.index[j] \in Document(produced) BY <1>1, <3>1 DEF writing, next, Inv, Closing
        <4>2. ~cut(written(j)).done BY <1>1, <4>1 DEF cut, written, Document
        <4>3. QED BY <1>1, <3>1, <4>2 DEF Inv, Types, TypeOK
      <3>2. QED BY <1>1, <2>1, <3>1 DEF kill
    <2>4. close_next
      BY <1>1, <2>1, <2>2, <2>3, Zenon
      DEF Next, step, Done, vars, architect_forge_cli, spec_forge_cli, close_spec_command, type,
          role_error, produce, peer_review, write_architecture_deliverables, add, commit,
          use_cases, write_use_cases, check_use_cases, _derive_library_specs,
          run_spec_review_loop, _write_derived_specs, close_ends
    <2>5. PICK k \in next(cmd.plan) :
            evaluated(cmd.index, k) /\ docs' = marked(docs, cmd.index, k)
      BY <2>1, <2>4 DEF close_next
    <2>6. k \in Ids \ Bls /\ k = i BY <1>1, <2>1, <2>5, Closes
    <2>7. ASSUME NEW c \in children_of(docs, i), c \notin cmd.touched PROVE docs[c].done
      <3>1. c \in Ids /\ docs[c].is # "absent" /\ docs[c].parent = i
        BY <1>1, <2>7 DEF children_of, on_disk, Inv, Types, TypeOK
      <3>2. /\ cmd.index[c].is = docs[c].is /\ cmd.index[c].parent = docs[c].parent
            /\ cmd.index[c].done => docs[c].done
            /\ DOMAIN cmd.index = Ids
        BY <1>1, <2>7, <3>1 DEF Inv, Closing
      <3>3. c \in children_of(cmd.index, i) BY <3>1, <3>2 DEF children_of, on_disk
      <3>4. QED BY <2>5, <2>6, <3>2, <3>3 DEF evaluated
    <2>8. QED BY <2>6, <2>7
  <1>2. Inv /\ Next => Step BY <1>1, Zenon
  <1>3. QED BY <1>2, Spec_Inv, PTL DEF Spec, ClosedOverDone
=============================================================================
