------------------------------- MODULE Planning -------------------------------
(* forge plan: the graph of the backlog (planner/dag.py), its waves and critical *)
(* path (planner/waves.py) and their publication in planning.json and planning.md *)
(* (planner/publish.py). Statuses are read one by one from state.db while workers *)
(* move them, and the two files are written one after the other.                 *)
EXTENDS Naturals, Sequences, FiniteSets, BlTransitions

CONSTANTS
  Order,      \* the backlog items of the index, in its order
  Front,      \* status in the frontmatter of each
  SizeOf,     \* size of each: "S", "M", "L"
  VersionOf,  \* target_version of each
  Versions,   \* the versions of the library, in semantic order
  Milestones, \* <<required, dependent>> versions of milestones.md
  MaxPlans,   \* bound: forge plan typed
  MaxMoves    \* bound: steps of workers

Items == {Order[n] : n \in DOMAIN Order}
SeqRange(s) == {s[n] : n \in DOMAIN s}

ASSUME OrderAssumption ==
  Order \in Seq(Items) /\ \A m, n \in DOMAIN Order : Order[m] = Order[n] => m = n
ASSUME FrontAssumption == Front \in [Items -> Status]
ASSUME SizeAssumption == SizeOf \in [Items -> {"S", "M", "L"}]
ASSUME VersionAssumption == VersionOf \in [Items -> SeqRange(Versions)]
ASSUME MilestoneAssumption == Milestones \subseteq SeqRange(Versions) \X SeqRange(Versions)
\* TAG_NODE_PREFIX keeps the tag of a version apart from every item.
ASSUME TagAssumption == Items \cap SeqRange(Versions) = {}
ASSUME BoundAssumption == MaxPlans \in Nat /\ MaxMoves \in Nat

VARIABLES
  depends,  \* depends_on of each item
  state,    \* bl_status of each item, "none" when it has no row
  json,     \* planning.json
  md,       \* planning.md
  cmd,      \* the plan in progress
  plans,    \* plans typed so far
  moved     \* steps of workers so far

planning_vars == <<depends, state, json, md, cmd, plans, moved>>

---------------------------------------------------------------------------
(* The graph: an edge to an item from each dependency, from the tag of the       *)
(* previous version and from the tags its milestones require. Tags have no edge   *)
(* into them.                                                                    *)

version_tags(i) ==
  {Versions[n] : n \in {m \in DOMAIN Versions :
                          m + 1 \in DOMAIN Versions /\ Versions[m + 1] = VersionOf[i]}}
  \cup {m[1] : m \in {k \in Milestones : k[2] = VersionOf[i]}}

predecessors(i) == depends[i] \cup version_tags(i)

\* Items reached from S along edges: those in every set that holds what S leads to.
descendants(S) ==
  {i \in Items : \A C \in SUBSET Items :
     (\A j \in Items : predecessors(j) \cap (S \cup C) # {} => j \in C) => i \in C}

validate_acyclic == \A i \in Items : i \notin descendants({i})

---------------------------------------------------------------------------
(* Waves.                                                                        *)

READY_STATUSES == {"TODO", "READY"}

\* Mutant of satisfied: an item in progress counts as done.
Bug_in_progress_counts(i, done, r) ==
  \A p \in predecessors(i) \cap Items :
    r[p] # "BLOCKED" /\ (p \in done \/ r[p] \in {"IN_PROGRESS", "IN_TEST", "IN_REVIEW"})

\* _dag_predecessors_satisfied: tags count as satisfied.
satisfied(i, done, r) ==
  \A p \in predecessors(i) \cap Items : r[p] # "BLOCKED" /\ p \in done

_ready(done, r) == {i \in Items \ done : r[i] \in READY_STATUSES /\ satisfied(i, done, r)}

\* What is done or in a wave after each round; a round that finds nothing is the last.
_done(r) ==
  LET done[n \in 0..Len(Order)] ==
        IF n = 0 THEN {i \in Items : r[i] = "DONE"} ELSE done[n - 1] \cup _ready(done[n - 1], r)
  IN done

compute_waves(r) ==
  LET wave(n) == _ready(_done(r)[n - 1], r)
  IN [n \in {m \in 1..Len(Order) : \A k \in 1..m : wave(k) # {}} |-> wave(n)]

\* The waves that hold items of version v, numbered anew, with these items only.
_waves_for_version(waves, v) ==
  LET inside(n) == {i \in waves[n] : VersionOf[i] = v}
      kept == {n \in DOMAIN waves : inside(n) # {}}
      rank(n) == Cardinality({m \in kept : m <= n})
  IN [k \in 1..Cardinality(kept) |-> UNION {inside(n) : n \in {m \in kept : rank(m) = k}}]

---------------------------------------------------------------------------
(* The critical path: the longest weighted path that no blocked item reaches.     *)

weight(i) == [S |-> 1, M |-> 2, L |-> 4][SizeOf[i]]

\* Mutant of _blocked_closure: a blocked item is left out, and not what depends on it.
Bug_blocked_only(r) == {i \in Items : r[i] = "BLOCKED"}

_blocked_closure(r) ==
  LET blocked == {i \in Items : r[i] = "BLOCKED"}
  IN blocked \cup descendants(blocked)

\* max(..., key=f): one of those of S with the greatest f.
heaviest(S, f) == {x \in S : \A y \in S : f[x] >= f[y]}
greatest(S, f) == CHOOSE x \in heaviest(S, f) : TRUE

\* dist and predecessor of each active item, the path to it that they make.
before(i, active) == depends[i] \cap active

_dist(active) ==
  LET dist[i \in active] ==
        weight(i) + IF before(i, active) = {} THEN 0 ELSE dist[greatest(before(i, active), dist)]
  IN dist

_path(active) ==
  LET path[i \in active] ==
        Append(IF before(i, active) = {} THEN <<>>
               ELSE path[greatest(before(i, active), _dist(active))], i)
  IN path

_longest_weighted_bl_path(r) ==
  LET active == Items \ _blocked_closure(r)
  IN IF active = {} THEN <<>> ELSE _path(active)[greatest(active, _dist(active))]

---------------------------------------------------------------------------
(* Publication.                                                                  *)

Absent == [is |-> "absent", read |-> [i \in {} |-> "none"], waves |-> <<>>, path |-> <<>>,
           labels |-> FALSE]

\* build_snapshot: labels stands for the milestones, notes and topics of the metadata.
snapshot(r, labels) ==
  [is |-> "written", read |-> r,
   waves |-> [n \in DOMAIN Versions |-> _waves_for_version(compute_waves(r), Versions[n])],
   path |-> _longest_weighted_bl_path(r), labels |-> labels]

\* What a planning file may be.
Contents == {"absent", "torn", "undecodable", "written"}

NoCmd == [pc |-> "idle", read |-> [i \in {} |-> "none"], labels |-> FALSE]

\* What may become of a file when its write is cut short: it is not JSON any more, or not
\* even text, cut inside a character of several bytes; labels recalls what it held.
cut(f) == {f} \cup {[Absent EXCEPT !.is = k, !.labels = f.labels] : k \in {"torn", "undecodable"}}

PlanningTypes ==
  /\ depends \in [Items -> SUBSET Items]
  /\ state \in [Items -> Status \cup {"none"}]
  /\ json.is \in Contents /\ md.is \in Contents
  /\ cmd.pc \in {"idle", "read", "json", "md"}
  /\ DOMAIN cmd.read \subseteq Items
  /\ plans \in 0..MaxPlans
  /\ moved \in 0..MaxMoves

\* planning.json may hold the labels that people wrote.
PlanningInit ==
  /\ depends \in {d \in [Items -> SUBSET Items] : \A i \in Items : i \notin d[i]}
  /\ state \in [Items -> {"none", "TODO", "IN_REVIEW", "BLOCKED", "DONE"}]
  /\ json \in {Absent, [Absent EXCEPT !.is = "written", !.labels = TRUE]}
  /\ md = Absent
  /\ cmd = NoCmd
  /\ plans = 0 /\ moved = 0

(* Workers register and move items meanwhile.                                     *)
worker(i) ==
  /\ cmd.pc # "idle" /\ moved < MaxMoves /\ moved' = moved + 1
  /\ \/ state[i] = "none" /\ state' = [state EXCEPT ![i] = "TODO"]
     \/ \E r \in TransitionRequest :
          /\ state[i] # "none" /\ can_transition(state[i], r)
          /\ state' = [state EXCEPT ![i] = r.target]
  /\ UNCHANGED <<depends, json, md, cmd, plans>>

\* A torn file is as none. One that is not text raises UnicodeDecodeError, which nobody
\* catches: no plan runs until people remove it.
load_planning_metadata == json.is = "written" /\ json.labels

(* A cycle ends the command, a validation that fails does not.                    *)
plan_forge ==
  /\ cmd.pc = "idle" /\ plans < MaxPlans
  /\ plans' = plans + 1
  /\ validate_acyclic
  /\ \/ json.is = "undecodable" /\ UNCHANGED cmd
     \/ /\ json.is # "undecodable"
        /\ cmd' = [NoCmd EXCEPT !.pc = IF Items = {} THEN "json" ELSE "read",
                                  !.labels = load_planning_metadata]
  /\ UNCHANGED <<depends, state, json, md, moved>>

next_read == Order[Cardinality(DOMAIN cmd.read) + 1]

\* A row of state.db takes precedence over the frontmatter.
statuses_from_state ==
  LET s == IF state[next_read] = "none" THEN Front[next_read] ELSE state[next_read]
      read == [i \in DOMAIN cmd.read \cup {next_read} |-> IF i = next_read THEN s ELSE cmd.read[i]]
  IN
  /\ cmd.pc = "read"
  /\ cmd' = [cmd EXCEPT !.read = read, !.pc = IF DOMAIN read = Items THEN "json" ELSE "read"]
  /\ UNCHANGED <<depends, state, json, md, plans, moved>>

write_json ==
  /\ cmd.pc = "json"
  /\ json' = snapshot(cmd.read, cmd.labels)
  /\ cmd' = [cmd EXCEPT !.pc = "md"]
  /\ UNCHANGED <<depends, state, md, plans, moved>>

write_md ==
  /\ cmd.pc = "md"
  /\ md' = snapshot(cmd.read, cmd.labels)
  /\ cmd' = NoCmd
  /\ UNCHANGED <<depends, state, json, plans, moved>>

\* write_text truncates the file it writes.
crash ==
  /\ cmd.pc # "idle"
  /\ json' \in IF cmd.pc = "json" THEN cut(json) ELSE {json}
  /\ md' \in IF cmd.pc = "md" THEN cut(md) ELSE {md}
  /\ cmd' = NoCmd
  /\ UNCHANGED <<depends, state, plans, moved>>

PlanningNext ==
  \/ \E i \in Items : worker(i)
  \/ plan_forge \/ statuses_from_state \/ write_json \/ write_md \/ crash

PlanningSpec == PlanningInit /\ [][PlanningNext]_planning_vars
---------------------------------------------------------------------------
\* planning.json, when it has just been written; planning.md shows the same.
Published == IF cmd.pc = "md" THEN {json} ELSE {}
wave_of(f, i) == {n \in 1..Len(Order) : \E k \in DOMAIN Versions :
                    n \in DOMAIN f.waves[k] /\ i \in f.waves[k][n]}

(* EXG-PLA-02, docs/specs/README.md line 59: whatever the graph and the statuses,   *)
(* the waves of a version are its layers. An item is in one wave at most, still to *)
(* do, after everything it depends on in the version; it waits for no reason in no  *)
(* wave; and one left out waits for an item that is neither done nor planned.      *)
WavesAreLayers ==
  \A f \in Published : \A i \in Items :
    LET planned == {j \in Items : wave_of(f, j) # {}}
        inside(j) == depends[j] \cap {k \in planned : VersionOf[k] = VersionOf[j]}
    IN
    /\ Cardinality(wave_of(f, i)) <= 1
    /\ i \in planned =>
         /\ f.read[i] \in READY_STATUSES
         /\ \A d \in depends[i] : f.read[d] = "DONE" \/ d \in planned
         /\ \A d \in inside(i), n \in wave_of(f, i) : \A m \in wave_of(f, d) : m < n
    /\ (i \notin planned /\ f.read[i] \in READY_STATUSES) =>
         \E d \in depends[i] : f.read[d] # "DONE" /\ d \notin planned

\* With the types of the state they are computed from.
WavesInv == PlanningTypes /\ WavesAreLayers

\* A chain of dependencies, its weight, and whether none of it is or awaits a blocked item.
chain(p) == \A n \in 1..(Len(p) - 1) : p[n] \in depends[p[n + 1]]
load(p) ==
  LET upto[n \in 0..Len(p)] == IF n = 0 THEN 0 ELSE upto[n - 1] + weight(p[n])
  IN upto[Len(p)]
free(f, p) == \A n \in DOMAIN p : \A b \in Items :
                f.read[b] = "BLOCKED" => b # p[n] /\ p[n] \notin descendants({b})

(* EXG-PLA-03: the critical path is a chain of dependencies free of blocked items  *)
(* and of what waits for them, and no other such chain is heavier.                 *)
CriticalPathIsLongest ==
  LET chains == {p \in UNION {[1..n -> Items] : n \in 1..Len(Order)} : chain(p)}
  IN \A f \in Published :
       /\ f.path = <<>> \/ f.path \in chains
       /\ free(f, f.path)
       /\ \A p \in chains : free(f, p) => load(p) <= load(f.path)

=============================================================================
