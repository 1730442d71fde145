---------------------------- MODULE QuotaFailover ----------------------------
(* Several forge run processes share the quota state of the providers            *)
(* (quota/states.py): roles are assigned to providers (scheduler/assignment.py), *)
(* a role call switches provider on exhaustion (scheduler/failover.py), a        *)
(* process that finds every provider exhausted stops the run, and a human        *)
(* resumes it (scheduler/shutdown.py, cli.py).                                    *)
EXTENDS Naturals, Sequences, FiniteSetsExt

CONSTANTS
  Processes,   \* forge run processes
  ItemOf,      \* the item each process is asked to run
  Names,       \* provider_names: the registry's names, sorted
  Cooldown,    \* ticks before an exhausted provider recharges
  MaxStarts,   \* bound: starts of each process
  MaxAssigned  \* history_window of assign_roles

ASSUME NamesAssumption == Names \in Seq(STRING) /\ Names # <<>> /\ IsInjective(Names)
ASSUME ItemAssumption == DOMAIN ItemOf = Processes
ASSUME BoundAssumption == /\ Cooldown \in Nat \ {0}
                          /\ MaxAssigned \in Nat \ {0}
                          /\ MaxStarts \in [Processes -> Nat]

Providers == {Names[n] : n \in DOMAIN Names}
Items == {ItemOf[q] : q \in Processes}
Roles == <<"DEV", "TESTER", "REVIEWER">>
WRITING_ROLES == {"DEV"}
NoProvider == "none"

VARIABLES
  cool,      \* provider_state: ticks until available_until, 0 when AVAILABLE
  lifted,    \* a stop was lifted (RESUMED)
  events,    \* since then: RUN_STOPPED, and the items that have events
  history,   \* BL_ASSIGNED: the items, in order of assignment
  status,    \* bl_status of each item; IN_PROGRESS is any interrupted status
  stage,     \* roles of the item whose success is journaled
  assigned,  \* BL_ASSIGNED: the provider of each role, << >> before
  tree,      \* the item's worktree: "clean", or partial output: "edits", "commits"
  proc       \* of each process: where it stands and what it has read

journal == <<lifted, events, history>>
vars == <<cool, lifted, events, history, status, stage, assigned, tree, proc>>

---------------------------------------------------------------------------
(* Journal: the predicates of shutdown.py ask what came after the last RESUMED  *)
(* that lifted a stop, so only those events are kept, as a set.                   *)

Stop == "RUN_STOPPED"
after_event(e) == events' = events \cup {e} /\ UNCHANGED <<lifted, history>>
is_run_stopped_for_exhaustion == Stop \in events
can_continue_after_resume(i) == lifted /\ i \notin events

---------------------------------------------------------------------------
(* Role assignment.                                                              *)

is_provider_available(p) == cool[p] = 0
available_providers == {p \in Providers : is_provider_available(p)}
place(p) == CHOOSE n \in DOMAIN Names : Names[n] = p

recent_assignments ==
  LET skipped == IF Len(history) > MaxAssigned THEN Len(history) - MaxAssigned ELSE 0
  IN SubSeq(history, skipped + 1, Len(history))

(* _load_tables and the key of _select_provider: load in the role, load in all,  *)
(* when it last had the role, place in the configuration.                         *)
load_key(p, r) ==
  LET had == {n \in DOMAIN recent_assignments : assigned[recent_assignments[n]][r] = p}
      total == {a \in (DOMAIN recent_assignments) \X (1..3) :
                  assigned[recent_assignments[a[1]]][a[2]] = p}
      last == IF had = {} THEN 0 ELSE Max(had)
  IN <<Cardinality(had), Cardinality(total), last, place(p)>>

before(a, b) == \E n \in DOMAIN a : a[n] < b[n] /\ \A m \in 1..(n - 1) : a[m] = b[m]

select_provider(candidates, r) ==
  CHOOSE p \in candidates : \A o \in candidates \ {p} : before(load_key(p, r), load_key(o, r))

\* Mutant of build_assignments: the tester is chosen without leaving out the developer.
Bug_tester_may_be_dev(available) ==
  <<select_provider(available, 1), select_provider(available, 2), select_provider(available, 3)>>

build_assignments(available) ==
  LET dev == select_provider(available, 1)
      tester == select_provider(available \ {dev}, 2)
  IN CASE Cardinality(available) = 1 -> <<dev, dev, dev>>
       [] Cardinality(available) = 2 -> <<dev, tester, tester>>
       [] OTHER -> <<dev, tester, select_provider(available \ {dev, tester}, 3)>>

---------------------------------------------------------------------------
Fresh(n) == [pc |-> "idle", starts |-> n, seen |-> "none",
             available |-> {}, provider |-> NoProvider, excluded |-> {},
             base |-> "clean", lookup |-> 0]

TypeOK ==
  /\ cool \in [Providers -> 0..Cooldown]
  /\ DOMAIN status = Items
  /\ \A i \in Items :
       /\ status[i] \in {"TODO", "IN_PROGRESS", "DONE"}
       /\ stage[i] \in 0..3
       /\ assigned[i] \in {<<>>} \cup (Providers \X Providers \X Providers)
       /\ tree[i] \in {"clean", "edits", "commits"}
       /\ assigned[i] # <<>> <=> \E n \in DOMAIN history : history[n] = i
  /\ \A q \in Processes :
       /\ proc[q].pc \in {"idle", "entered", "journal", "assign", "persist", "role",
                          "call", "mark", "switch", "scan", "stop"}
       /\ proc[q].provider \in Providers \cup {NoProvider}
       /\ proc[q].excluded \subseteq Providers
       /\ proc[q].pc \in {"call", "mark"} => proc[q].provider \in Providers
       /\ proc[q].starts \in 0..MaxStarts[q]
  /\ events \subseteq Items \cup {Stop}
  /\ lifted \in BOOLEAN

Init ==
  /\ cool = [p \in Providers |-> 0]
  /\ lifted = FALSE
  /\ events = {}
  /\ history = <<>>
  /\ status = [i \in Items |-> "TODO"]
  /\ stage = [i \in Items |-> 0]
  /\ assigned = [i \in Items |-> <<>>]
  /\ tree = [i \in Items |-> "clean"]
  /\ proc = [q \in Processes |-> Fresh(0)]

---------------------------------------------------------------------------
(* run_bl.                                                                       *)

go(q, pc) == proc' = [proc EXCEPT ![q].pc = pc]
admitted(q) == proc' = [proc EXCEPT ![q].pc = "journal", ![q].seen = "none"]
leave(q) == proc' = [proc EXCEPT ![q] = Fresh(proc[q].starts)]
scan(q) == proc' = [proc EXCEPT ![q] = [Fresh(proc[q].starts) EXCEPT
                                                !.pc = "scan", !.lookup = 1]]
Role(q) == Roles[stage[ItemOf[q]] + 1]

run_bl(q) ==
  /\ proc[q].pc = "idle"
  /\ proc[q].starts < MaxStarts[q]
  /\ ~is_run_stopped_for_exhaustion
  /\ proc' = [proc EXCEPT ![q] = [Fresh(@.starts + 1) EXCEPT !.pc = "entered",
                                                             !.seen = status[ItemOf[q]]]]
  /\ UNCHANGED <<cool, journal, status, stage, assigned, tree>>

(* TODO, or interrupted with the right to continue; anything else is refused,    *)
(* as is a transition that another process has made since.                        *)
admit(q) ==
  LET i == ItemOf[q] IN
  /\ proc[q].pc = "entered"
  /\ \/ /\ proc[q].seen = "TODO" /\ status[i] = "TODO"
        /\ status' = [status EXCEPT ![i] = "IN_PROGRESS"]
        /\ after_event(i)
        /\ admitted(q)
     \/ /\ proc[q].seen = "IN_PROGRESS" /\ can_continue_after_resume(i)
        /\ admitted(q)
        /\ UNCHANGED <<status, journal>>
     \/ /\ ~(proc[q].seen = "TODO" /\ status[i] = "TODO")
        /\ ~(proc[q].seen = "IN_PROGRESS" /\ can_continue_after_resume(i))
        /\ leave(q)
        /\ UNCHANGED <<status, journal>>
  /\ UNCHANGED <<cool, stage, assigned, tree>>

dev_started(q) ==
  /\ proc[q].pc = "journal"
  /\ after_event(ItemOf[q])
  /\ go(q, "assign")
  /\ UNCHANGED <<cool, status, stage, assigned, tree>>

(* load_role_assignments, or the providers available now; none raises ValueError, *)
(* which run_bl does not take for an exhaustion.                                  *)
read_available(q) ==
  /\ proc[q].pc = "assign"
  /\ \/ assigned[ItemOf[q]] # <<>> /\ go(q, "role")
     \/ /\ assigned[ItemOf[q]] = <<>> /\ available_providers # {}
        /\ proc' = [proc EXCEPT ![q].pc = "persist", ![q].available = available_providers]
     \/ assigned[ItemOf[q]] = <<>> /\ available_providers = {} /\ leave(q)
  /\ UNCHANGED <<cool, journal, status, stage, assigned, tree>>

assign_roles(q) ==
  LET i == ItemOf[q] IN
  /\ proc[q].pc = "persist"
  /\ assigned' = [assigned EXCEPT ![i] = build_assignments(proc[q].available)]
  /\ history' = Append(history, i)
  /\ events' = events \cup {i}
  /\ lifted' = lifted
  /\ proc' = [proc EXCEPT ![q].pc = "role", ![q].available = {}]
  /\ UNCHANGED <<cool, status, stage, tree>>

(* The next role starts with its assigned provider, whatever its state; a         *)
(* writing role takes HEAD as baseline. After the last, the item is merged.       *)
start_role(q) ==
  LET i == ItemOf[q] IN
  /\ proc[q].pc = "role"
  /\ IF stage[i] = 3
       THEN /\ status' = [status EXCEPT ![i] = "DONE"]
            /\ after_event(i)
            /\ scan(q)
       ELSE /\ proc' = [proc EXCEPT ![q].pc = "call",
                                    ![q].provider = assigned[i][stage[i] + 1],
                                    ![q].excluded = {},
                                    ![q].base = IF tree[i] = "commits" THEN "commits"
                                                                       ELSE "clean"]
            /\ UNCHANGED <<status, journal>>
  /\ UNCHANGED <<cool, stage, assigned, tree>>

(* provider.execute returns. A failing or exhausted writing role may leave edits  *)
(* or commits behind. An error or a timeout becomes an ExecutionError.            *)
answer(q) ==
  LET i == ItemOf[q]
      left == IF Role(q) \in WRITING_ROLES
                THEN {tree[i], IF tree[i] = "commits" THEN "commits" ELSE "edits", "commits"}
                ELSE {tree[i]}
  IN
  /\ proc[q].pc = "call"
  /\ stage[i] < 3
  /\ \/ /\ stage' = [stage EXCEPT ![i] = @ + 1]
        /\ tree' = IF Role(q) \in WRITING_ROLES THEN [tree EXCEPT ![i] = "clean"] ELSE tree
        /\ after_event(i)
        /\ proc' = [proc EXCEPT ![q] = [Fresh(@.starts) EXCEPT !.pc = "role"]]
     \/ /\ \E t \in left : tree' = [tree EXCEPT ![i] = t]
        /\ \/ go(q, "mark")
           \/ scan(q)
        /\ UNCHANGED <<stage, journal>>
  /\ UNCHANGED <<cool, status, assigned>>

(* A provider called while exhausted has its cooldown renewed, not prolonged.     *)
estimate_available_until(p) == Cooldown

mark_provider_exhausted(q) ==
  /\ proc[q].pc = "mark"
  /\ cool' = [cool EXCEPT ![proc[q].provider] = estimate_available_until(proc[q].provider)]
  /\ proc' = [proc EXCEPT ![q].pc = "switch", ![q].excluded = @ \cup {proc[q].provider}]
  /\ UNCHANGED <<journal, status, stage, assigned, tree>>

first(S) == Names[Min({n \in DOMAIN Names : Names[n] \in S})]

\* Mutant of select_next_provider: a provider of this chain may be tried again.
Bug_tries_again(q) == IF available_providers = {} THEN NoProvider ELSE first(available_providers)

select_next_provider(q) ==
  LET left == available_providers \ proc[q].excluded
  IN IF left = {} THEN NoProvider ELSE first(left)

\* Mutant of reset_worktree: back to HEAD, not to the baseline of the role.
Bug_resets_to_head(q) == IF tree[ItemOf[q]] = "commits" THEN "commits" ELSE "clean"

reset_worktree(q) ==
  IF tree[ItemOf[q]] = "commits" THEN proc[q].base ELSE "clean"

(* Journal the switch, reset the worktree of a writing role, call the next one;   *)
(* none left is an ExecutionError.                                                *)
switch(q) ==
  LET i == ItemOf[q] IN
  /\ proc[q].pc = "switch"
  /\ IF select_next_provider(q) = NoProvider
       THEN /\ scan(q)
            /\ UNCHANGED <<journal, tree>>
       ELSE /\ after_event(i)
            /\ tree' = IF Role(q) \in WRITING_ROLES
                         THEN [tree EXCEPT ![i] = reset_worktree(q)] ELSE tree
            /\ proc' = [proc EXCEPT ![q].pc = "call", ![q].provider = select_next_provider(q)]
  /\ UNCHANGED <<cool, status, stage, assigned>>

(* _stop_if_all_exhausted: one read per provider, then RUN_STOPPED.               *)
look_at_provider(q) ==
  /\ proc[q].pc = "scan"
  /\ IF proc[q].lookup > Len(Names) THEN go(q, "stop")
     ELSE IF is_provider_available(Names[proc[q].lookup]) THEN leave(q)
     ELSE proc' = [proc EXCEPT ![q].lookup = @ + 1]
  /\ UNCHANGED <<cool, journal, status, stage, assigned, tree>>

stop_run_for_exhaustion(q) ==
  /\ proc[q].pc = "stop"
  /\ after_event(Stop)
  /\ leave(q)
  /\ UNCHANGED <<cool, status, stage, assigned, tree>>

crash(q) ==
  /\ proc[q].pc # "idle"
  /\ leave(q)
  /\ UNCHANGED <<cool, journal, status, stage, assigned, tree>>

---------------------------------------------------------------------------
(* The operator and the clock.                                                   *)

resume_run ==
  /\ is_run_stopped_for_exhaustion
  /\ lifted' = TRUE
  /\ events' = {}
  /\ UNCHANGED <<cool, history, status, stage, assigned, tree, proc>>

tick ==
  /\ \E p \in Providers : cool[p] > 0
  /\ cool' = [p \in Providers |-> IF cool[p] = 0 THEN 0 ELSE cool[p] - 1]
  /\ UNCHANGED <<journal, status, stage, assigned, tree, proc>>

step(q) ==
  \/ admit(q) \/ dev_started(q) \/ read_available(q) \/ assign_roles(q)
  \/ start_role(q) \/ answer(q) \/ mark_provider_exhausted(q) \/ switch(q)
  \/ look_at_provider(q) \/ stop_run_for_exhaustion(q)

Next ==
  \/ \E q \in Processes : run_bl(q) \/ step(q) \/ crash(q)
  \/ resume_run
  \/ tick

Spec == Init /\ [][Next]_vars
FairSpec == Spec /\ \A q \in Processes : WF_vars(step(q))
---------------------------------------------------------------------------
(* A provider that replaces an exhausted one in a writing role starts from the   *)
(* baseline of the role: what the exhausted provider left in the worktree is     *)
(* gone (reset_worktree in ProviderFailover.run).                                 *)
RetryStartsClean ==
  \A q \in Processes :
    (proc[q].pc = "call" /\ proc[q].excluded # {} /\ Role(q) \in WRITING_ROLES)
      => tree[ItemOf[q]] = proc[q].base

\* The types with it, as the induction needs them.
RetryInv == TypeOK /\ RetryStartsClean

(* EXG-ROL-03 as assign_roles implements it: of the providers found free, a        *)
(* developer neither tests nor reviews its own work when there were two, and the    *)
(* three roles go to three providers when there were three.                         *)
RolesIsolated ==
  [][\A q \in Processes :
       LET a == assigned'[ItemOf[q]]
           free == Cardinality(proc[q].available)
       IN (proc[q].pc = "persist" /\ proc'[q].pc = "role") =>
            /\ free >= 2 => a[1] \notin {a[2], a[3]}
            /\ free >= 3 => Cardinality({a[1], a[2], a[3]}) = 3]_vars

(* Every started process ends: a failover chain tries each provider once.         *)
ProcessesEnd == \A q \in Processes : proc[q].pc # "idle" ~> proc[q].pc = "idle"

=============================================================================
