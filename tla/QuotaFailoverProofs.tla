-------------------------- MODULE QuotaFailoverProofs --------------------------
(***************************************************************************)
(* Roles are given to different providers whenever enough are free, and a  *)
(* provider that takes over starts from the baseline: for any providers,   *)
(* processes, items and history.                                           *)
(***************************************************************************)
EXTENDS QuotaFailover, FiniteSetTheorems, SequenceTheorems, WellFoundedInduction, TLAPS

\* Each process has an item of its own.
OneItemEach == \A p, q \in Processes : ItemOf[p] = ItemOf[q] => p = q

Process ==
  [pc : {"idle", "entered", "journal", "assign", "persist", "role",
         "call", "mark", "switch", "scan", "stop"},
   starts : Nat, seen : {"none", "TODO", "IN_PROGRESS", "DONE"},
   available : SUBSET Providers, provider : Providers \cup {NoProvider},
   excluded : SUBSET Providers, base : {"clean", "commits"}, lookup : Nat]

Assignment == Providers \X Providers \X Providers

\* The types, with what a process knows at each point of the providers.
Typing ==
  /\ cool \in [Providers -> 0..Cooldown]
  /\ lifted \in BOOLEAN /\ events \subseteq Items \cup {Stop}
  /\ history \in Seq(Items)
  /\ status \in [Items -> {"TODO", "IN_PROGRESS", "DONE"}]
  /\ stage \in [Items -> 0..3]
  /\ assigned \in [Items -> {<<>>} \cup Assignment]
  /\ tree \in [Items -> {"clean", "edits", "commits"}]
  /\ proc \in [Processes -> Process]

\* An item has its roles when it is in the history; a process assigns them from the
\* providers it found, there is one at least, and calls only then.
Knowing ==
  /\ \A i \in Items : assigned[i] # <<>> <=> \E n \in DOMAIN history : history[n] = i
  /\ \A q \in Processes :
       /\ proc[q].pc = "persist" => proc[q].available # {}
       /\ proc[q].pc \in {"role", "call", "mark", "switch"} => assigned[ItemOf[q]] # <<>>
       /\ proc[q].pc \in {"call", "mark"} => proc[q].provider \in Providers
       /\ proc[q].starts <= MaxStarts[q]

\* While a writing role is served, commits that were there at its start are still there.
Baseline ==
  \A q \in Processes :
    (proc[q].pc \in {"call", "mark", "switch"} /\ Role(q) \in WRITING_ROLES) =>
      /\ proc[q].base = "commits" => tree[ItemOf[q]] = "commits"
      /\ (proc[q].pc = "call" /\ proc[q].excluded # {}) => tree[ItemOf[q]] = proc[q].base

TypeInv == Typing /\ Knowing
-----------------------------------------------------------------------------
(* The choice of a provider.                                                   *)

\* A set of numbers that is not empty has a least one.
LEMMA Least ==
  ASSUME NEW S \in SUBSET Nat, S # {}
  PROVE  \E n \in S : \A m \in S : n <= m
  <1>1. PICK x \in S : \A y \in S : ~(<<y, x>> \in OpToRel(<, Nat))
    BY WFMin, NatLessThanWellFounded
  <1>2. \A y \in S : ~(y < x) BY <1>1 DEF OpToRel
  <1>3. QED BY <1>2

LEMMA MinOf ==
  ASSUME NEW S \in SUBSET Nat, S # {}
  PROVE  Min(S) \in S
  BY Least DEF Min

LEMMA MaxOf ==
  ASSUME NEW N \in Nat, NEW S \in SUBSET (1..N), S # {}
  PROVE  Max(S) \in S
  <1> DEFINE T == {N - s : s \in S}
  <1>1. T \in SUBSET Nat /\ T # {}
    <2>1. \A s \in 1..N : N - s \in Nat OBVIOUS
    <2>2. \A s \in S : N - s \in Nat BY <2>1
    <2>3. QED BY <2>2
  <1>2. PICK n \in T : \A m \in T : n <= m BY <1>1, Least
  <1>3. PICK x \in S : n = N - x BY <1>2
  <1>4. \A y \in S : x >= y
    <2>1. ASSUME NEW y \in S PROVE x >= y
      <3>1. N - x <= N - y BY <1>2, <1>3
      <3>2. x \in 1..N /\ y \in 1..N OBVIOUS
      <3>3. QED BY <3>1, <3>2
    <2>2. QED BY <2>1
  <1>5. QED BY <1>4 DEF Max

\* Where a function to numbers is least.
LEMMA Argmin ==
  ASSUME NEW S, S # {}, NEW f \in [S -> Nat]
  PROVE  \E x \in S : \A y \in S : f[x] <= f[y]
  <1>1. PICK n \in {f[x] : x \in S} : \A m \in {f[x] : x \in S} : n <= m BY Least
  <1>2. QED BY <1>1

LEMMA Place ==
  ASSUME NEW p \in Providers
  PROVE  place(p) \in Nat /\ place(p) \in DOMAIN Names /\ Names[place(p)] = p
  <1>1. DOMAIN Names = 1..Len(Names) BY NamesAssumption
  <1>2. \E n \in DOMAIN Names : Names[n] = p BY DEF Providers
  <1>3. QED BY <1>1, <1>2 DEF place

LEMMA ProvidersFinite == IsFiniteSet(Providers)
  <1>1. Names \in Surjection(DOMAIN Names, Providers)
    BY NamesAssumption DEF Surjection, Providers
  <1>2. IsFiniteSet(DOMAIN Names)
    <2>1. DOMAIN Names = 1..Len(Names) /\ Len(Names) \in Nat BY NamesAssumption
    <2>2. QED BY <2>1, FS_Interval
  <1>3. QED BY <1>1, <1>2, FS_Surjection

\* The key of _select_provider is made of numbers, whatever the history.
LEMMA KeyType ==
  ASSUME history \in Seq(Items), NEW p \in Providers, NEW r \in 1..3
  PROVE  \E a, b, c \in Nat : load_key(p, r) = <<a, b, c, place(p)>>
  <1> DEFINE recent == recent_assignments
             had == {n \in DOMAIN recent : assigned[recent[n]][r] = p}
             total == {a \in (DOMAIN recent) \X (1..3) : assigned[recent[a[1]]][a[2]] = p}
             latest == IF had = {} THEN 0 ELSE Max(had)
  <1>1. PICK N \in Nat : DOMAIN recent = 1..N
    <2>1. PICK k \in Nat : recent = SubSeq(history, k + 1, Len(history)) /\ k <= Len(history)
      <3>1. MaxAssigned \in Nat /\ Len(history) \in Nat BY BoundAssumption
      <3>2. (IF Len(history) > MaxAssigned THEN Len(history) - MaxAssigned ELSE 0) \in 0..Len(history)
        BY <3>1
      <3>3. QED BY <3>2 DEF recent_assignments
    <2>2. Len(history) \in Nat OBVIOUS
    <2>3. recent \in Seq(Items) BY <2>1, <2>2, SubSeqProperties
    <2>4. QED BY <2>3, LenProperties
  <1>2. IsFiniteSet(had)
    BY <1>1, FS_Interval, FS_Subset
  <1>3. IsFiniteSet(total)
    <2>1. IsFiniteSet(1..N) /\ IsFiniteSet(1..3)
      <3>1. 1 \in Int /\ N \in Int /\ 3 \in Int OBVIOUS
      <3>2. QED BY <3>1, FS_Interval
    <2>2. IsFiniteSet((1..N) \X (1..3)) BY <2>1, FS_Product
    <2>3. QED BY <1>1, <2>2, FS_Subset
  <1>4. Cardinality(had) \in Nat /\ Cardinality(total) \in Nat BY <1>2, <1>3, FS_CardinalityType
  <1>5. latest \in Nat
    <2>1. had \subseteq 1..N BY <1>1
    <2>2. CASE had = {} BY <2>2
    <2>3. CASE had # {}
      <3>1. Max(had) \in had BY <2>1, <2>3, MaxOf
      <3>2. QED BY <2>1, <2>3, <3>1
    <2>4. QED BY <2>2, <2>3
  <1>6. load_key(p, r) = <<Cardinality(had), Cardinality(total), latest, place(p)>>
    BY DEF load_key
  <1>7. QED BY <1>4, <1>5, <1>6
LEMMA BeforeMeans ==
  ASSUME NEW a, NEW b, NEW c, NEW d, NEW e, NEW f, NEW g, NEW h
  PROVE  before(<<a, b, c, d>>, <<e, f, g, h>>) <=>
           \/ a < e
           \/ a = e /\ b < f
           \/ a = e /\ b = f /\ c < g
           \/ a = e /\ b = f /\ c = g /\ d < h
  <1> DEFINE s == <<a, b, c, d>>
             t == <<e, f, g, h>>
  <1>1. DOMAIN s = 1..4 OBVIOUS
  <1>2. \A m : m \in 1..0 => FALSE OBVIOUS
  <1>3. before(s, t) <=> \E n \in 1..4 : s[n] < t[n] /\ \A m \in 1..(n - 1) : s[m] = t[m]
    BY <1>1 DEF before
  <1>4. 1..4 = {1, 2, 3, 4} /\ 1..(1-1) = {} /\ 1..(2-1) = {1} /\ 1..(3-1) = {1, 2}
        /\ 1..(4-1) = {1, 2, 3}
    OBVIOUS
  <1>5. QED BY <1>3, <1>4

\* There is always a provider to choose, and it is one of the candidates.
LEMMA Selected ==
  ASSUME history \in Seq(Items), NEW C \in SUBSET Providers, C # {}, NEW r \in 1..3
  PROVE  select_provider(C, r) \in C
  <1>1. \A p \in Providers : \E a, b, c \in Nat : load_key(p, r) = <<a, b, c, place(p)>>
    BY KeyType
  <1> DEFINE k(n) == [p \in Providers |-> load_key(p, r)[n]]
  <1>2. /\ \A n \in 1..4 : k(n) \in [Providers -> Nat]
        /\ \A p \in Providers : load_key(p, r) = <<k(1)[p], k(2)[p], k(3)[p], k(4)[p]>>
        /\ \A p \in Providers : k(4)[p] = place(p)
    <2>1. ASSUME NEW p \in Providers
          PROVE  /\ load_key(p, r) = <<load_key(p, r)[1], load_key(p, r)[2], load_key(p, r)[3],
                                       load_key(p, r)[4]>>
                 /\ \A n \in 1..4 : load_key(p, r)[n] \in Nat
                 /\ load_key(p, r)[4] = place(p)
      <3>1. PICK a \in Nat, b \in Nat, c \in Nat : load_key(p, r) = <<a, b, c, place(p)>>
        BY <1>1
      <3>2. place(p) \in Nat BY Place
      <3>3. QED BY <3>1, <3>2
    <2>2. QED BY <2>1
  <1> HIDE DEF k
  <1>3. \E p \in C : \A o \in C \ {p} : before(load_key(p, r), load_key(o, r))
    <2>1. \A n \in 1..4, S \in SUBSET Providers : S # {} =>
             \E x \in S : \A y \in S : k(n)[x] <= k(n)[y]
      <3>1. ASSUME NEW n \in 1..4, NEW S \in SUBSET Providers, S # {}
            PROVE  \E x \in S : \A y \in S : k(n)[x] <= k(n)[y]
        <4>1. [x \in S |-> k(n)[x]] \in [S -> Nat] BY <1>2
        <4>2. PICK x \in S : \A y \in S : [z \in S |-> k(n)[z]][x] <= [z \in S |-> k(n)[z]][y]
          BY <3>1, <4>1, Argmin
        <4>3. QED BY <4>2
      <3>2. QED BY <3>1
    <2> DEFINE least(n, S) == {x \in S : \A y \in S : k(n)[x] <= k(n)[y]}
               C1 == least(1, C)
               C2 == least(2, C1)
               C3 == least(3, C2)
               C4 == least(4, C3)
    <2>2. \A n \in 1..4, S \in SUBSET Providers : S # {} =>
            /\ least(n, S) \in SUBSET S /\ least(n, S) # {}
            /\ least(n, S) \in SUBSET Providers
      BY <2>1
    <2> HIDE DEF least
    <2>3. C1 \in SUBSET C /\ C1 # {} /\ C1 \in SUBSET Providers BY <2>2
    <2>4. C2 \in SUBSET C1 /\ C2 # {} /\ C2 \in SUBSET Providers BY <2>2, <2>3
    <2>5. C3 \in SUBSET C2 /\ C3 # {} /\ C3 \in SUBSET Providers BY <2>2, <2>4
    <2>6. PICK p \in C3 : p \in C4 BY <2>2, <2>5
    <2> USE DEF least
    <2>7. ASSUME NEW o \in C \ {p} PROVE before(load_key(p, r), load_key(o, r))
      <3>1. /\ k(1)[p] \in Nat /\ k(2)[p] \in Nat /\ k(3)[p] \in Nat /\ k(4)[p] \in Nat
            /\ k(1)[o] \in Nat /\ k(2)[o] \in Nat /\ k(3)[o] \in Nat /\ k(4)[o] \in Nat
        BY <1>2, <2>3, <2>4, <2>5
      <3>2. k(4)[p] # k(4)[o]
        <4>1. place(p) # place(o) BY <2>3, <2>4, <2>5, Place
        <4>2. QED BY <4>1, <1>2, <2>3, <2>4, <2>5
      <3>3. p \in C1 /\ p \in C2 /\ p \in C3 /\ p \in C4 /\ o \in C BY <2>4, <2>5, <2>6
      <3>4. k(1)[p] <= k(1)[o] /\ (k(1)[p] = k(1)[o] => o \in C1)
        BY <2>3, <3>3, <3>1
      <3>5. o \in C1 => k(2)[p] <= k(2)[o] /\ (k(2)[p] = k(2)[o] => o \in C2) BY <3>1, <3>3
      <3>6. o \in C2 => k(3)[p] <= k(3)[o] /\ (k(3)[p] = k(3)[o] => o \in C3) BY <3>1, <3>3
      <3>7. o \in C3 => k(4)[p] <= k(4)[o] BY <3>3
      <3> HIDE DEF C1, C2, C3, C4
      <3>8. \/ k(1)[p] < k(1)[o]
            \/ k(1)[p] = k(1)[o] /\ k(2)[p] < k(2)[o]
            \/ k(1)[p] = k(1)[o] /\ k(2)[p] = k(2)[o] /\ k(3)[p] < k(3)[o]
            \/ k(1)[p] = k(1)[o] /\ k(2)[p] = k(2)[o] /\ k(3)[p] = k(3)[o] /\ k(4)[p] < k(4)[o]
        BY <3>1, <3>2, <3>4, <3>5, <3>6, <3>7
      <3>9. p \in Providers /\ o \in Providers BY <2>3, <2>4, <2>5
      <3>10. QED BY <1>2, <3>8, <3>9, BeforeMeans
    <2>8. p \in C BY <2>3, <2>4, <2>5
    <2>9. QED BY <2>7, <2>8
  <1>4. QED BY <1>3 DEF select_provider
\* What assign_roles returns: providers that were free, different ones when it can.
LEMMA Assignments ==
  ASSUME history \in Seq(Items), NEW free \in SUBSET Providers, free # {}
  PROVE  LET a == build_assignments(free) IN
         /\ a \in Assignment
         /\ Cardinality(free) >= 2 => a[1] \notin {a[2], a[3]}
         /\ Cardinality(free) >= 3 => Cardinality({a[1], a[2], a[3]}) = 3
  <1> DEFINE dev == select_provider(free, 1)
             tester == select_provider(free \ {dev}, 2)
             reviewer == select_provider(free \ {dev, tester}, 3)
  <1>1. IsFiniteSet(free) /\ Cardinality(free) \in Nat
    BY ProvidersFinite, FS_Subset, FS_CardinalityType
  <1>2. Cardinality(free) # 0 BY <1>1, FS_EmptySet
  <1>3. dev \in free BY Selected
  <1>4. IsFiniteSet(free \ {dev}) /\ Cardinality(free \ {dev}) = Cardinality(free) - 1
    BY <1>1, <1>3, FS_RemoveElement
  <1>5. ASSUME Cardinality(free) # 1 PROVE tester \in free \ {dev}
    <2>1. free \ {dev} # {} BY <1>1, <1>4, <1>5, FS_EmptySet
    <2>2. QED BY <2>1, Selected
  <1>6. ASSUME Cardinality(free) \notin {1, 2} PROVE reviewer \in free \ {dev, tester}
    <2> DEFINE others == free \ {dev}
               rest == free \ {dev, tester}
    <2>1. tester \in others BY <1>5, <1>6
    <2>2. reviewer = select_provider(rest, 3) OBVIOUS
    <2> HIDE DEF dev, tester, reviewer
    <2>3. rest = others \ {tester} OBVIOUS
    <2>4. IsFiniteSet(others) /\ Cardinality(others) = Cardinality(free) - 1 BY <1>4
    <2> HIDE DEF others
    <2>5. IsFiniteSet(rest) /\ Cardinality(rest) = Cardinality(others) - 1
      BY <2>1, <2>3, <2>4, FS_RemoveElement
    <2>6. Cardinality(rest) # 0 BY <1>1, <1>2, <1>6, <2>4, <2>5
    <2>7. rest # {} BY <2>6, FS_EmptySet
    <2>8. rest \in SUBSET Providers OBVIOUS
    <2> HIDE DEF rest
    <2>9. reviewer \in rest BY <2>2, <2>7, <2>8, Selected
    <2>10. QED BY <2>9 DEF rest
  <1>7. build_assignments(free) =
          CASE Cardinality(free) = 1 -> <<dev, dev, dev>>
            [] Cardinality(free) = 2 -> <<dev, tester, tester>>
            [] OTHER -> <<dev, tester, reviewer>>
    BY DEF build_assignments
  <1> HIDE DEF dev, tester, reviewer
  <1>8. CASE Cardinality(free) = 1
    BY <1>1, <1>3, <1>7, <1>8 DEF Assignment
  <1>9. CASE Cardinality(free) = 2
    <2>1. build_assignments(free) = <<dev, tester, tester>> BY <1>7, <1>9
    <2>2. QED BY <1>3, <1>5, <1>9, <2>1 DEF Assignment
  <1>10. CASE Cardinality(free) \notin {1, 2}
    <2>1. build_assignments(free) = <<dev, tester, reviewer>> BY <1>7, <1>10
    <2>2. dev \in free /\ tester \in free \ {dev} /\ reviewer \in free \ {dev, tester}
      BY <1>3, <1>5, <1>6, <1>10
    <2>3. Cardinality({dev, tester, reviewer}) = 3
      <3>1. IsFiniteSet({dev}) /\ Cardinality({dev}) = 1 BY FS_Singleton
      <3> DEFINE two == {dev} \cup {tester}
      <3>2. IsFiniteSet(two) /\ Cardinality(two) = Cardinality({dev}) + 1
        BY <2>2, <3>1, FS_AddElement
      <3>3. reviewer \notin two BY <2>2
      <3>4. {dev, tester, reviewer} = two \cup {reviewer} OBVIOUS
      <3> HIDE DEF two
      <3>5. Cardinality(two \cup {reviewer}) = Cardinality(two) + 1
        BY <3>2, <3>3, FS_AddElement
      <3>6. Cardinality(two \cup {reviewer}) = 3 BY <3>1, <3>2, <3>5
      <3>7. QED BY <3>4, <3>6, Zenon
    <2>4. QED BY <2>1, <2>2, <2>3 DEF Assignment
  <1>11. QED BY <1>8, <1>9, <1>10

\* The provider that takes over is one of the configured ones.
LEMMA NextProvider ==
  ASSUME NEW q \in Processes, select_next_provider(q) # NoProvider
  PROVE  select_next_provider(q) \in Providers
  <1> DEFINE left == available_providers \ proc[q].excluded
             places == {n \in DOMAIN Names : Names[n] \in left}
  <1>1. left # {} /\ select_next_provider(q) = first(left) BY DEF select_next_provider
  <1>2. left \subseteq Providers BY DEF available_providers
  <1>3. places # {} BY <1>1, <1>2 DEF Providers
  <1>4. places \in SUBSET Nat
    <2>1. DOMAIN Names = 1..Len(Names) BY NamesAssumption
    <2>2. QED BY <2>1
  <1>5. Min(places) \in places BY <1>3, <1>4, MinOf
  <1>6. QED BY <1>1, <1>5 DEF first, Providers
-----------------------------------------------------------------------------
(* The invariants.                                                             *)

LEMMA FreshType ==
  ASSUME NEW n \in Nat PROVE Fresh(n) \in Process /\ Fresh(n).pc = "idle" /\ Fresh(n).starts = n
  BY DEF Fresh, Process

LEMMA Init_TypeInv == Init => TypeInv /\ Baseline
  <1> SUFFICES ASSUME Init PROVE TypeInv /\ Baseline OBVIOUS
  <1>1. Fresh(0) \in Process /\ Fresh(0).pc = "idle" /\ Fresh(0).starts = 0 BY FreshType
  <1>2. Typing
    <2>1. lifted \in BOOLEAN BY DEF Init
    <2>2. cool \in [Providers -> 0..Cooldown] BY BoundAssumption DEF Init
    <2>3. history \in Seq(Items) BY DEF Init
    <2>4. events \subseteq Items \cup {Stop} BY DEF Init
    <2>5. proc \in [Processes -> Process] BY <1>1 DEF Init
    <2>6. QED BY <2>1, <2>2, <2>3, <2>4, <2>5 DEF Init, Typing
  <1>3. Knowing BY <1>1, BoundAssumption DEF Init, Knowing
  <1>4. Baseline BY <1>1 DEF Init, Baseline
  <1>5. QED BY <1>2, <1>3, <1>4 DEF TypeInv

\* A step of process q on its own record: the record is all that has to be looked at.
LEMMA Own_step ==
  ASSUME TypeInv, NEW q \in Processes, NEW new \in Process,
         proc' = [proc EXCEPT ![q] = new], assigned' = assigned, history' = history,
         Typing',
         new.starts <= MaxStarts[q],
         new.pc = "persist" => new.available # {},
         new.pc \in {"role", "call", "mark", "switch"} => assigned[ItemOf[q]] # <<>>,
         new.pc \in {"call", "mark"} => new.provider \in Providers
  PROVE  TypeInv'
  BY DEF TypeInv, Typing, Knowing

LEMMA Leaves ==
  ASSUME TypeInv, NEW q \in Processes, leave(q) \/ scan(q),
         assigned' = assigned, history' = history,
         proc' \in [Processes -> Process] => Typing'
  PROVE  TypeInv'
  <1>1. proc[q].starts \in Nat /\ proc[q].starts <= MaxStarts[q] BY DEF TypeInv, Typing, Knowing, Process
  <1>2. Fresh(proc[q].starts) \in Process /\ Fresh(proc[q].starts).starts = proc[q].starts
        /\ Fresh(proc[q].starts).pc = "idle"
    BY <1>1, FreshType
  <1>3. CASE leave(q)
    <2>1. proc' = [proc EXCEPT ![q] = Fresh(proc[q].starts)] BY <1>3 DEF leave
    <2>2. proc' \in [Processes -> Process] BY <1>2, <2>1 DEF TypeInv, Typing
    <2>3. QED BY <1>1, <1>2, <2>1, <2>2, Own_step
  <1>4. CASE scan(q)
    <2> DEFINE new == [Fresh(proc[q].starts) EXCEPT !.pc = "scan", !.lookup = 1]
    <2>1. proc' = [proc EXCEPT ![q] = new] BY <1>4 DEF scan
    <2>2. new \in Process /\ new.pc = "scan" /\ new.starts = proc[q].starts
      BY <1>2 DEF Process
    <2>3. proc' \in [Processes -> Process] BY <2>1, <2>2 DEF TypeInv, Typing
    <2> HIDE DEF new
    <2>4. QED BY <1>1, <2>1, <2>2, <2>3, Own_step
  <1>5. QED BY <1>3, <1>4
LEMMA Own_steps ==
  ASSUME TypeInv, NEW q \in Processes,
         \/ run_bl(q) \/ admit(q) \/ dev_started(q) \/ read_available(q) \/ start_role(q)
         \/ answer(q) \/ mark_provider_exhausted(q) \/ switch(q) \/ look_at_provider(q)
         \/ stop_run_for_exhaustion(q) \/ crash(q)
  PROVE  TypeInv'
  <1> USE DEF after_event, journal
  <1> DEFINE i == ItemOf[q]
             p == proc[q]
  <1>1. p \in Process /\ i \in Items /\ p.starts \in Nat /\ p.starts <= MaxStarts[q]
    BY DEF TypeInv, Typing, Knowing, Process, Items
  <1>2. \A pc : (pc \in {"idle", "entered", "journal", "assign", "role", "switch", "mark", "stop"}
                   /\ (pc = "mark" => p.pc = "call")
                   /\ (pc \in {"role", "switch", "mark"} => assigned[i] # <<>>)
                   /\ go(q, pc) /\ assigned' = assigned /\ history' = history
                   /\ (proc' \in [Processes -> Process] => Typing'))
                 => TypeInv'
    <2>1. SUFFICES ASSUME NEW pc \in {"idle", "entered", "journal", "assign", "role", "switch",
                                       "mark", "stop"},
                          pc = "mark" => p.pc = "call",
                          pc \in {"role", "switch", "mark"} => assigned[i] # <<>>,
                          go(q, pc), assigned' = assigned, history' = history,
                          proc' \in [Processes -> Process] => Typing'
                   PROVE  TypeInv'
      OBVIOUS
    <2> DEFINE new == [p EXCEPT !.pc = pc]
    <2>2. proc' = [proc EXCEPT ![q] = new] BY <2>1 DEF go, TypeInv, Typing
    <2>3. new \in Process /\ new.pc = pc /\ new.starts = p.starts /\ new.provider = p.provider
      BY <1>1, <2>1 DEF Process
    <2>4. proc' \in [Processes -> Process] BY <2>2, <2>3 DEF TypeInv, Typing
    <2>5. pc = "mark" => new.provider \in Providers
      BY <2>1, <2>3 DEF TypeInv, Knowing
    <2> HIDE DEF new
    <2>6. QED BY <1>1, <2>1, <2>2, <2>3, <2>4, <2>5, Own_step
  <1>3. CASE run_bl(q)
    <2> DEFINE new == [Fresh(p.starts + 1) EXCEPT !.pc = "entered", !.seen = status[i]]
    <2>1. proc' = [proc EXCEPT ![q] = new] BY <1>3 DEF run_bl, TypeInv, Typing
    <2>2. new \in Process /\ new.pc = "entered" /\ new.starts = p.starts + 1
      <3>1. p.starts + 1 \in Nat BY <1>1
      <3>2. status[i] \in {"TODO", "IN_PROGRESS", "DONE"} BY <1>1 DEF TypeInv, Typing
      <3>3. /\ Fresh(p.starts + 1) \in Process
            /\ Fresh(p.starts + 1).starts = p.starts + 1
        BY <3>1, FreshType
      <3> HIDE DEF p
      <3>4. QED BY <3>2, <3>3 DEF Process
    <2>3. Typing' BY <1>3, <2>1, <2>2 DEF run_bl, TypeInv, Typing
    <2>4. p.starts + 1 <= MaxStarts[q] BY <1>1, <1>3, BoundAssumption DEF run_bl
    <2> HIDE DEF new
    <2>5. QED BY <1>3, <2>1, <2>2, <2>3, <2>4, Own_step DEF run_bl
  <1>4. CASE admit(q)
    <2>1. /\ UNCHANGED <<cool, history, stage, assigned, tree>>
          /\ events' \subseteq Items \cup {Stop} /\ lifted' \in BOOLEAN
          /\ status' \in [Items -> {"TODO", "IN_PROGRESS", "DONE"}]
      BY <1>1, <1>4 DEF admit, TypeInv, Typing
    <2>2. proc' \in [Processes -> Process] => Typing' BY <2>1 DEF TypeInv, Typing
    <2>3. CASE leave(q) BY <2>1, <2>2, <2>3, Leaves
    <2>4. CASE admitted(q)
      <3> DEFINE new == [p EXCEPT !.pc = "journal", !.seen = "none"]
      <3>1. proc' = [proc EXCEPT ![q] = new] BY <2>4 DEF admitted, TypeInv, Typing
      <3>2. new \in Process /\ new.pc = "journal" /\ new.starts = p.starts
        BY <1>1 DEF Process
      <3>3. proc' \in [Processes -> Process] BY <3>1, <3>2 DEF TypeInv, Typing
      <3> HIDE DEF new
      <3>4. QED BY <1>1, <2>1, <2>2, <3>1, <3>2, <3>3, Own_step
    <2>5. QED BY <1>4, <2>3, <2>4 DEF admit
  <1>5. CASE dev_started(q)
    <2>1. go(q, "assign") /\ UNCHANGED <<assigned, history>>
          /\ (proc' \in [Processes -> Process] => Typing')
      BY <1>1, <1>5 DEF dev_started, TypeInv, Typing
    <2>2. QED BY <1>2, <2>1
  <1>6. CASE read_available(q)
    <2>1. UNCHANGED <<assigned, history>> /\ (proc' \in [Processes -> Process] => Typing')
      BY <1>6 DEF read_available, TypeInv, Typing
    <2>2. CASE assigned[i] # <<>> /\ go(q, "role") BY <1>2, <2>1, <2>2
    <2>3. CASE leave(q) BY <2>1, <2>3, Leaves
    <2>4. CASE /\ available_providers # {}
               /\ proc' = [proc EXCEPT ![q].pc = "persist", ![q].available = available_providers]
      <3> DEFINE new == [p EXCEPT !.pc = "persist", !.available = available_providers]
      <3>1. proc' = [proc EXCEPT ![q] = new] BY <2>4 DEF TypeInv, Typing
      <3>2. /\ new \in Process /\ new.pc = "persist" /\ new.starts = p.starts
            /\ new.available = available_providers
        BY <1>1 DEF Process, available_providers
      <3>3. proc' \in [Processes -> Process] BY <3>1, <3>2 DEF TypeInv, Typing
      <3> HIDE DEF new
      <3>4. QED BY <1>1, <2>1, <2>4, <3>1, <3>2, <3>3, Own_step
    <2>5. QED BY <1>6, <2>2, <2>3, <2>4 DEF read_available
  <1>7. CASE start_role(q)
    <2>1. p.pc = "role" /\ assigned[i] # <<>> /\ UNCHANGED <<cool, history, stage, assigned, tree>>
      BY <1>7 DEF start_role, TypeInv, Knowing
    <2>2. CASE /\ status' = [status EXCEPT ![i] = "DONE"] /\ after_event(i) /\ scan(q)
      <3>1. proc' \in [Processes -> Process] => Typing'
        BY <1>1, <2>1, <2>2 DEF TypeInv, Typing
      <3>2. QED BY <2>1, <2>2, <3>1, Leaves
    <2>3. CASE /\ stage[i] # 3 /\ UNCHANGED <<status, journal>>
               /\ proc' = [proc EXCEPT ![q].pc = "call",
                                      ![q].provider = assigned[i][stage[i] + 1],
                                      ![q].excluded = {},
                                      ![q].base = IF tree[i] = "commits" THEN "commits"
                                                                         ELSE "clean"]
      <3> DEFINE who == assigned[i][stage[i] + 1]
                 new == [p EXCEPT !.pc = "call", !.provider = who, !.excluded = {},
                                  !.base = IF tree[i] = "commits" THEN "commits" ELSE "clean"]
      <3>1. proc' = [proc EXCEPT ![q] = new] BY <2>3 DEF TypeInv, Typing
      <3>2. who \in Providers
        <4>1. stage[i] \in {0, 1, 2} BY <1>1, <2>3 DEF TypeInv, Typing
        <4>2. assigned[i] \in Assignment BY <1>1, <2>1 DEF TypeInv, Typing
        <4>3. QED BY <4>1, <4>2 DEF Assignment
      <3> HIDE DEF who
      <3>3. /\ new \in Process /\ new.pc = "call" /\ new.starts = p.starts
            /\ new.provider \in Providers
        BY <1>1, <3>2 DEF Process
      <3>4. proc' \in [Processes -> Process] BY <3>1, <3>3 DEF TypeInv, Typing
      <3>5. Typing' BY <2>1, <2>3, <3>4 DEF TypeInv, Typing
      <3> HIDE DEF new
      <3>6. QED BY <1>1, <2>1, <3>1, <3>3, <3>5, Own_step
    <2>4. QED BY <1>7, <2>2, <2>3 DEF start_role
  <1>8. CASE answer(q)
    <2>1. p.pc = "call" /\ assigned[i] # <<>> /\ UNCHANGED <<cool, history, status, assigned>>
      BY <1>8 DEF answer, TypeInv, Knowing
    <2>2. CASE /\ stage' = [stage EXCEPT ![i] = @ + 1] /\ stage[i] < 3 /\ after_event(i)
               /\ tree' = IF Role(q) \in WRITING_ROLES THEN [tree EXCEPT ![i] = "clean"] ELSE tree
               /\ proc' = [proc EXCEPT ![q] = [Fresh(@.starts) EXCEPT !.pc = "role"]]
      <3> DEFINE new == [Fresh(p.starts) EXCEPT !.pc = "role"]
      <3>1. proc' = [proc EXCEPT ![q] = new] BY <2>2 DEF TypeInv, Typing
      <3>2. new \in Process /\ new.pc = "role" /\ new.starts = p.starts
        BY <1>1, FreshType DEF Fresh, Process
      <3>3. proc' \in [Processes -> Process] BY <3>1, <3>2 DEF TypeInv, Typing
      <3>4. stage' \in [Items -> 0..3]
        <4>1. stage \in [Items -> 0..3] BY DEF TypeInv, Typing
        <4>2. stage[i] + 1 \in 0..3 BY <1>1, <2>2, <4>1
        <4>3. stage' = [stage EXCEPT ![i] = stage[i] + 1] BY <2>2
        <4>4. QED BY <4>1, <4>2, <4>3
      <3>5. tree' \in [Items -> {"clean", "edits", "commits"}]
        BY <1>1, <2>2 DEF TypeInv, Typing
      <3>6. Typing' BY <1>1, <2>1, <2>2, <3>3, <3>4, <3>5 DEF TypeInv, Typing
      <3> HIDE DEF new
      <3>7. QED BY <1>1, <2>1, <3>1, <3>2, <3>6, Own_step
    <2>3. ASSUME NEW t \in {"clean", "edits", "commits"}, tree' = [tree EXCEPT ![i] = t],
                 go(q, "mark") \/ scan(q), UNCHANGED <<stage, journal>>
          PROVE  TypeInv'
      <3>1. proc' \in [Processes -> Process] => Typing'
        BY <1>1, <2>1, <2>3 DEF TypeInv, Typing
      <3>2. CASE scan(q) BY <2>1, <3>1, <3>2, Leaves
      <3>3. CASE go(q, "mark") BY <1>2, <2>1, <3>1, <3>3
      <3>4. QED BY <2>3, <3>2, <3>3
    <2>4. tree[i] \in {"clean", "edits", "commits"} BY <1>1 DEF TypeInv, Typing
    <2>5. QED BY <1>8, <2>2, <2>3, <2>4, Zenon DEF answer
  <1>9. CASE mark_provider_exhausted(q)
    <2> DEFINE new == [p EXCEPT !.pc = "switch", !.excluded = @ \cup {p.provider}]
    <2>1. /\ p.pc = "mark" /\ p.provider \in Providers /\ assigned[i] # <<>>
          /\ UNCHANGED <<journal, status, stage, assigned, tree>>
      BY <1>9 DEF mark_provider_exhausted, TypeInv, Knowing
    <2>2. cool' \in [Providers -> 0..Cooldown]
      BY <1>9, <2>1, BoundAssumption
      DEF mark_provider_exhausted, estimate_available_until, TypeInv, Typing
    <2>3. proc' = [proc EXCEPT ![q] = new] BY <1>9 DEF mark_provider_exhausted, TypeInv, Typing
    <2>4. new \in Process /\ new.pc = "switch" /\ new.starts = p.starts
      BY <1>1, <2>1 DEF Process
    <2>5. proc' \in [Processes -> Process] BY <2>3, <2>4 DEF TypeInv, Typing
    <2>6. Typing' BY <2>1, <2>2, <2>5 DEF TypeInv, Typing
    <2> HIDE DEF new
    <2>7. QED BY <1>1, <2>1, <2>3, <2>4, <2>6, Own_step
  <1>10. CASE switch(q)
    <2>1. p.pc = "switch" /\ assigned[i] # <<>> /\ UNCHANGED <<cool, status, stage, assigned>>
      BY <1>10 DEF switch, TypeInv, Knowing
    <2>2. CASE scan(q) /\ UNCHANGED <<journal, tree>>
      <3>1. proc' \in [Processes -> Process] => Typing' BY <2>1, <2>2 DEF TypeInv, Typing
      <3>2. QED BY <2>1, <2>2, <3>1, Leaves
    <2>3. CASE /\ select_next_provider(q) # NoProvider
               /\ after_event(i)
               /\ tree' = IF Role(q) \in WRITING_ROLES
                            THEN [tree EXCEPT ![i] = reset_worktree(q)] ELSE tree
               /\ proc' = [proc EXCEPT ![q].pc = "call", ![q].provider = select_next_provider(q)]
      <3> DEFINE who == select_next_provider(q)
                 new == [p EXCEPT !.pc = "call", !.provider = who]
      <3>1. who \in Providers BY <2>3, NextProvider
      <3>2. proc' = [proc EXCEPT ![q] = new] BY <2>3 DEF TypeInv, Typing
      <3> HIDE DEF who
      <3>3. new \in Process /\ new.pc = "call" /\ new.starts = p.starts /\ new.provider = who
        BY <1>1, <3>1 DEF Process
      <3>4. proc' \in [Processes -> Process] BY <3>2, <3>3 DEF TypeInv, Typing
      <3>5. reset_worktree(q) \in {"clean", "commits"} BY <1>1 DEF reset_worktree, Process
      <3>6. tree' \in [Items -> {"clean", "edits", "commits"}]
        BY <1>1, <2>3, <3>5 DEF TypeInv, Typing
      <3>7. Typing' BY <1>1, <2>1, <2>3, <3>4, <3>6 DEF TypeInv, Typing
      <3> HIDE DEF new
      <3>8. QED BY <1>1, <2>1, <2>3, <3>1, <3>2, <3>3, <3>7, Own_step
    <2>4. QED BY <1>10, <2>2, <2>3, Zenon DEF switch
  <1>11. CASE look_at_provider(q)
    <2>1. /\ UNCHANGED <<cool, journal, status, stage, assigned, tree>>
          /\ (proc' \in [Processes -> Process] => Typing')
      BY <1>11 DEF look_at_provider, TypeInv, Typing
    <2>2. CASE leave(q) BY <2>1, <2>2, Leaves
    <2>3. CASE go(q, "stop") BY <1>2, <2>1, <2>3
    <2>4. CASE p.pc = "scan" /\ proc' = [proc EXCEPT ![q].lookup = @ + 1]
      <3> DEFINE new == [p EXCEPT !.lookup = @ + 1]
      <3>1. proc' = [proc EXCEPT ![q] = new] BY <2>4 DEF TypeInv, Typing
      <3>2. new \in Process /\ new.pc = "scan" /\ new.starts = p.starts
        BY <1>1, <2>4 DEF Process
      <3>3. proc' \in [Processes -> Process] BY <3>1, <3>2 DEF TypeInv, Typing
      <3> HIDE DEF new
      <3>4. QED BY <1>1, <2>1, <3>1, <3>2, <3>3, Own_step
    <2>5. QED BY <1>11, <2>2, <2>3, <2>4 DEF look_at_provider
  <1>12. CASE stop_run_for_exhaustion(q) \/ crash(q)
    <2>1. leave(q) /\ UNCHANGED <<assigned, history>>
          /\ (proc' \in [Processes -> Process] => Typing')
      BY <1>12 DEF stop_run_for_exhaustion, crash, TypeInv, Typing
    <2>2. QED BY <2>1, Leaves
  <1>13. QED
    BY <1>3, <1>4, <1>5, <1>6, <1>7, <1>8, <1>9, <1>10, <1>11, <1>12
LEMMA Assigns ==
  ASSUME TypeInv, NEW q \in Processes, assign_roles(q)
  PROVE  TypeInv'
  <1> DEFINE i == ItemOf[q]
             p == proc[q]
             new == [p EXCEPT !.pc = "role", !.available = {}]
  <1>1. p \in Process /\ i \in Items /\ p.starts <= MaxStarts[q]
    BY DEF TypeInv, Typing, Knowing, Items
  <1>2. /\ p.pc = "persist" /\ p.available # {} /\ p.available \in SUBSET Providers
        /\ UNCHANGED <<cool, lifted, status, stage, tree>>
        /\ events' = events \cup {i} /\ history' = Append(history, i)
        /\ assigned' = [assigned EXCEPT ![i] = build_assignments(p.available)]
    BY <1>1 DEF assign_roles, TypeInv, Knowing, Process
  <1>3. build_assignments(p.available) \in Assignment
    BY <1>2, Assignments DEF TypeInv, Typing
  <1>4. build_assignments(p.available) # <<>>
    <2>1. \A a \in Assignment : DOMAIN a = 1..3 BY DEF Assignment
    <2>2. DOMAIN <<>> = {} /\ 1 \in 1..3 OBVIOUS
    <2>3. QED BY <1>3, <2>1, <2>2
  <1>5. proc' = [proc EXCEPT ![q] = new] BY DEF assign_roles, TypeInv, Typing
  <1>6. new \in Process /\ new.pc = "role" /\ new.starts = p.starts BY <1>1 DEF Process
  <1> HIDE DEF new
  <1>7. proc' \in [Processes -> Process] BY <1>5, <1>6 DEF TypeInv, Typing
  <1>8. assigned' \in [Items -> {<<>>} \cup Assignment]
    BY <1>1, <1>2, <1>3 DEF TypeInv, Typing
  <1>9. history' \in Seq(Items) /\ \A j : (\E n \in DOMAIN history' : history'[n] = j) <=>
                                        (j = i \/ \E n \in DOMAIN history : history[n] = j)
    <2>1. history \in Seq(Items) BY DEF TypeInv, Typing
    <2>2. QED BY <1>1, <1>2, <2>1
  <1>10. Typing' BY <1>1, <1>2, <1>7, <1>8, <1>9 DEF TypeInv, Typing
  <1>11. \A j \in Items : assigned'[j] # <<>> <=> (j = i \/ assigned[j] # <<>>)
    BY <1>1, <1>2, <1>4 DEF TypeInv, Typing
  <1>12. Knowing'
    <2>1. \A j \in Items : assigned'[j] # <<>> <=> \E n \in DOMAIN history' : history'[n] = j
      BY <1>9, <1>11 DEF TypeInv, Knowing
    <2>2. ASSUME NEW o \in Processes
          PROVE  /\ proc'[o].pc = "persist" => proc'[o].available # {}
                 /\ proc'[o].pc \in {"role", "call", "mark", "switch"} => assigned'[ItemOf[o]] # <<>>
                 /\ proc'[o].pc \in {"call", "mark"} => proc'[o].provider \in Providers
                 /\ proc'[o].starts <= MaxStarts[o]
      <3>1. ItemOf[o] \in Items BY DEF Items
      <3>2. CASE o = q BY <1>1, <1>5, <1>6, <1>11, <3>2 DEF TypeInv, Typing
      <3>3. CASE o # q
        <4>1. proc'[o] = proc[o] BY <1>5, <3>3 DEF TypeInv, Typing
        <4>2. QED BY <1>11, <3>1, <4>1 DEF TypeInv, Knowing
      <3>4. QED BY <3>2, <3>3
    <2>3. QED BY <2>1, <2>2 DEF Knowing
  <1>13. QED BY <1>10, <1>12 DEF TypeInv

LEMMA Next_TypeInv == TypeInv /\ [Next]_vars => TypeInv'
  <1> SUFFICES ASSUME TypeInv, [Next]_vars PROVE TypeInv' OBVIOUS
  <1>1. CASE UNCHANGED vars BY <1>1 DEF vars, TypeInv, Typing, Knowing
  <1>2. ASSUME NEW q \in Processes, run_bl(q) \/ step(q) \/ crash(q) PROVE TypeInv'
    BY <1>2, Own_steps, Assigns DEF step
  <1>3. CASE resume_run BY <1>3 DEF resume_run, TypeInv, Typing, Knowing
  <1>4. CASE tick
    <2>1. cool' \in [Providers -> 0..Cooldown]
      <3>1. \A p \in Providers : cool[p] \in 0..Cooldown BY DEF TypeInv, Typing
      <3>2. Cooldown \in Nat BY BoundAssumption
      <3>3. \A c \in 0..Cooldown : (IF c = 0 THEN 0 ELSE c - 1) \in 0..Cooldown BY <3>2
      <3>4. QED BY <1>4, <3>1, <3>3 DEF tick
    <2>2. QED BY <1>4, <2>1 DEF tick, journal, TypeInv, Typing, Knowing
  <1>5. QED BY <1>1, <1>2, <1>3, <1>4 DEF Next
\* A process works on its own record and its own item.
LEMMA Local ==
  ASSUME TypeInv, NEW q \in Processes, run_bl(q) \/ step(q) \/ crash(q)
  PROVE  /\ \A o \in Processes \ {q} : proc'[o] = proc[o]
         /\ \A i \in Items \ {ItemOf[q]} : stage'[i] = stage[i] /\ tree'[i] = tree[i]
  <1>1. DOMAIN proc = Processes /\ DOMAIN stage = Items /\ DOMAIN tree = Items
    BY DEF TypeInv, Typing
  <1>2. PICK new : proc' = [proc EXCEPT ![q] = new]
    <2> USE DEF go, leave, scan, admitted
    <2>1. CASE run_bl(q) BY <2>1, Zenon DEF run_bl
    <2>2. CASE crash(q) BY <2>2, Zenon DEF crash
    <2>3. CASE admit(q) BY <2>3, Zenon DEF admit
    <2>4. CASE dev_started(q) BY <2>4, Zenon DEF dev_started
    <2>5. CASE read_available(q)
      <3>1. \/ proc' = [proc EXCEPT ![q] = [proc[q] EXCEPT !.pc = "role"]]
            \/ proc' = [proc EXCEPT ![q] = [proc[q] EXCEPT !.pc = "persist",
                                                         !.available = available_providers]]
            \/ leave(q)
        BY <1>1, <2>5 DEF read_available
      <3>2. QED BY <3>1, Zenon
    <2>6. CASE assign_roles(q)
      <3>1. proc' = [proc EXCEPT ![q] = [proc[q] EXCEPT !.pc = "role", !.available = {}]]
        BY <1>1, <2>6 DEF assign_roles
      <3>2. QED BY <3>1, Zenon
    <2>7. CASE start_role(q)
      <3>1. CASE scan(q) BY <3>1, Zenon
      <3>2. CASE ~scan(q)
        <4>1. proc' = [proc EXCEPT ![q] = [proc[q] EXCEPT !.pc = "call",
                         !.provider = assigned[ItemOf[q]][stage[ItemOf[q]] + 1],
                         !.excluded = {},
                         !.base = IF tree[ItemOf[q]] = "commits" THEN "commits" ELSE "clean"]]
          BY <1>1, <2>7, <3>2 DEF start_role
        <4>2. QED BY <4>1, Zenon
      <3>3. QED BY <3>1, <3>2
    <2>8. CASE answer(q) BY <2>8, Zenon DEF answer
    <2>9. CASE mark_provider_exhausted(q)
      <3>1. proc' = [proc EXCEPT ![q] = [proc[q] EXCEPT !.pc = "switch",
                                                !.excluded = @ \cup {proc[q].provider}]]
        BY <1>1, <2>9 DEF mark_provider_exhausted
      <3>2. QED BY <3>1, Zenon
    <2>10. CASE switch(q)
      <3>1. \/ scan(q)
            \/ proc' = [proc EXCEPT ![q] = [proc[q] EXCEPT !.pc = "call",
                                                !.provider = select_next_provider(q)]]
        BY <1>1, <2>10 DEF switch
      <3>2. QED BY <3>1, Zenon
    <2>11. CASE look_at_provider(q) BY <2>11, Zenon DEF look_at_provider
    <2>12. CASE stop_run_for_exhaustion(q) BY <2>12, Zenon DEF stop_run_for_exhaustion
    <2>13. QED
      BY <2>1, <2>2, <2>3, <2>4, <2>5, <2>6, <2>7, <2>8, <2>9, <2>10, <2>11, <2>12 DEF step
  <1>3. \A i \in Items \ {ItemOf[q]} : stage'[i] = stage[i] /\ tree'[i] = tree[i]
    <2>1. CASE answer(q) BY <1>1, <2>1 DEF answer
    <2>2. CASE switch(q) BY <1>1, <2>2 DEF switch
    <2>3. CASE ~answer(q) /\ ~switch(q)
      BY <2>3
      DEF step, run_bl, crash, admit, dev_started, read_available, assign_roles, start_role,
          mark_provider_exhausted, look_at_provider, stop_run_for_exhaustion
    <2>4. QED BY <2>1, <2>2, <2>3
  <1>4. QED BY <1>1, <1>2, <1>3

\* Where the process that takes the step finds itself: the conjuncts of Baseline for it.
BaselineOf(q) ==
  (proc[q].pc \in {"call", "mark", "switch"} /\ Role(q) \in WRITING_ROLES) =>
    /\ proc[q].base = "commits" => tree[ItemOf[q]] = "commits"
    /\ (proc[q].pc = "call" /\ proc[q].excluded # {}) => tree[ItemOf[q]] = proc[q].base

LEMMA Own_baseline ==
  ASSUME TypeInv, TypeInv', NEW q \in Processes, BaselineOf(q),
         run_bl(q) \/ step(q) \/ crash(q)
  PROVE  BaselineOf(q)'
  <1> DEFINE i == ItemOf[q]
             p == proc[q]
  <1> USE DEF go, leave, scan, admitted
  <1>1. p \in Process /\ i \in Items /\ q \in DOMAIN proc /\ DOMAIN tree = Items
    BY DEF TypeInv, Typing, Items
  <1>2. CASE \/ run_bl(q) \/ crash(q) \/ admit(q) \/ dev_started(q) \/ read_available(q)
             \/ assign_roles(q) \/ look_at_provider(q) \/ stop_run_for_exhaustion(q)
    <2>1. proc'[q].pc \notin {"call", "mark", "switch"}
      <3>1. CASE run_bl(q) BY <1>1, <3>1 DEF run_bl, Fresh
      <3>2. CASE crash(q) \/ stop_run_for_exhaustion(q)
        BY <1>1, <3>2 DEF crash, stop_run_for_exhaustion, Fresh
      <3>3. CASE admit(q) BY <1>1, <3>3 DEF admit, Fresh, Process
      <3>4. CASE dev_started(q) BY <1>1, <3>4 DEF dev_started, Process
      <3>5. CASE read_available(q) BY <1>1, <3>5 DEF read_available, Fresh, Process
      <3>6. CASE assign_roles(q) BY <1>1, <3>6 DEF assign_roles, Process
      <3>7. CASE look_at_provider(q)
        <4>1. p.pc = "scan" BY <3>7 DEF look_at_provider
        <4>2. CASE proc' = [proc EXCEPT ![q].pc = "stop"] BY <1>1, <4>2 DEF Process
        <4>3. CASE leave(q) BY <1>1, <4>3 DEF Fresh
        <4>4. CASE proc' = [proc EXCEPT ![q].lookup = @ + 1] BY <1>1, <4>1, <4>4 DEF Process
        <4>5. QED BY <3>7, <4>2, <4>3, <4>4 DEF look_at_provider
      <3>8. QED BY <1>2, <3>1, <3>2, <3>3, <3>4, <3>5, <3>6, <3>7
    <2>2. QED BY <2>1 DEF BaselineOf
  <1>3. CASE start_role(q)
    <2>1. tree' = tree BY <1>3 DEF start_role
    <2>2. CASE scan(q)
      <3>1. proc'[q].pc = "scan" BY <1>1, <2>2 DEF Fresh
      <3>2. QED BY <3>1 DEF BaselineOf
    <2>3. CASE /\ proc'[q].excluded = {}
               /\ proc'[q].base = IF tree[i] = "commits" THEN "commits" ELSE "clean"
      BY <2>1, <2>3 DEF BaselineOf
    <2>4. CASE proc' = [proc EXCEPT ![q].pc = "call",
                                    ![q].provider = assigned[i][stage[i] + 1],
                                    ![q].excluded = {},
                                    ![q].base = IF tree[i] = "commits" THEN "commits"
                                                                       ELSE "clean"]
      <3> HIDE DEF i
      <3>1. p \in Process /\ q \in DOMAIN proc BY <1>1
      <3>2. QED BY <2>3, <2>4, <3>1 DEF Process
    <2>5. QED BY <1>3, <2>2, <2>4, Zenon DEF start_role
  <1>4. CASE answer(q)
    <2>1. p.pc = "call" BY <1>4 DEF answer
    <2>2. CASE proc'[q].pc \notin {"call", "mark", "switch"} BY <2>2 DEF BaselineOf
    <2>3. CASE /\ stage' = stage
               /\ proc'[q] = [p EXCEPT !.pc = "mark"]
               /\ \E t \in {tree[i], IF tree[i] = "commits" THEN "commits" ELSE "edits",
                             "commits"} \cup {tree[i]} : tree' = [tree EXCEPT ![i] = t]
      <3>1. proc'[q].pc = "mark" /\ proc'[q].base = p.base BY <1>1, <2>3 DEF Process
      <3>2. tree[i] = "commits" => tree'[i] = "commits" BY <1>1, <2>3
      <3>3. Role(q)' = Role(q) BY <2>3 DEF Role
      <3>4. QED BY <2>1, <3>1, <3>2, <3>3 DEF BaselineOf
    <2>4. QED BY <1>1, <1>4, <2>2, <2>3 DEF answer, Fresh, Process
  <1>5. CASE mark_provider_exhausted(q)
    <2>1. /\ p.pc = "mark" /\ proc'[q].pc = "switch" /\ proc'[q].base = p.base
          /\ tree' = tree /\ stage' = stage
      BY <1>1, <1>5 DEF mark_provider_exhausted, Process
    <2>2. QED BY <2>1 DEF BaselineOf, Role
  <1>6. CASE switch(q)
    <2>1. p.pc = "switch" /\ stage' = stage BY <1>6 DEF switch
    <2>2. CASE scan(q)
      <3>1. proc'[q].pc = "scan" BY <1>1, <2>2 DEF Fresh
      <3>2. QED BY <3>1 DEF BaselineOf
    <2>3. CASE /\ proc'[q].pc = "call" /\ proc'[q].base = p.base
               /\ tree' = IF Role(q) \in WRITING_ROLES
                            THEN [tree EXCEPT ![i] = reset_worktree(q)] ELSE tree
      <3>1. Role(q)' = Role(q) BY <2>1 DEF Role
      <3>2. CASE Role(q) \in WRITING_ROLES
        <4>1. tree'[i] = reset_worktree(q) BY <1>1, <2>3, <3>2
        <4>2. p.base \in {"clean", "commits"} BY <1>1 DEF Process
        <4>3. p.base = "commits" => tree[i] = "commits" BY <2>1, <3>2 DEF BaselineOf
        <4>4. reset_worktree(q) = p.base BY <4>2, <4>3 DEF reset_worktree
        <4>5. QED BY <2>3, <4>1, <4>4 DEF BaselineOf
      <3>3. QED BY <3>1, <3>2 DEF BaselineOf
    <2>4. QED BY <1>1, <1>6, <2>2, <2>3 DEF switch, Process
  <1>7. QED BY <1>2, <1>3, <1>4, <1>5, <1>6 DEF step

\* With one process per item, what one process leaves in its worktree no other disturbs.
LEMMA Next_Baseline ==
  ASSUME OneItemEach, TypeInv, TypeInv', Baseline, [Next]_vars
  PROVE  Baseline'
  <1>1. CASE UNCHANGED <<proc, stage, tree>> BY <1>1 DEF Baseline, Role
  <1>2. ASSUME NEW q \in Processes, run_bl(q) \/ step(q) \/ crash(q)
        PROVE  Baseline'
    <2>1. ASSUME NEW o \in Processes PROVE BaselineOf(o)'
      <3>1. BaselineOf(o) BY DEF Baseline, BaselineOf
      <3>2. CASE o = q BY <1>2, <3>1, <3>2, Own_baseline
      <3>3. CASE o # q
        <4>1. ItemOf[o] # ItemOf[q] /\ ItemOf[o] \in Items
          BY <3>3 DEF OneItemEach, Items
        <4>2. /\ proc'[o] = proc[o]
              /\ stage'[ItemOf[o]] = stage[ItemOf[o]]
              /\ tree'[ItemOf[o]] = tree[ItemOf[o]]
          BY <1>2, <3>3, <4>1, Local
        <4>3. QED BY <3>1, <4>2 DEF BaselineOf, Role
      <3>4. QED BY <3>2, <3>3
    <2>2. QED BY <2>1 DEF Baseline, BaselineOf
  <1>3. CASE resume_run \/ tick BY <1>1, <1>3 DEF resume_run, tick
  <1>4. QED BY <1>1, <1>2, <1>3 DEF Next, vars
-----------------------------------------------------------------------------
(* A provider that replaces an exhausted one in a writing role finds the worktree as  *)
(* the role found it, when no two processes run the same item (reset_worktree in      *)
(* ProviderFailover.run).                                                             *)
THEOREM RetriesStartClean ==
  ASSUME OneItemEach
  PROVE  Spec => []RetryInv
  <1>1. Init => TypeInv /\ Baseline BY Init_TypeInv
  <1>2. TypeInv /\ Baseline /\ [Next]_vars => (TypeInv /\ Baseline)'
    BY Next_TypeInv, Next_Baseline
  <1>3. TypeInv /\ Baseline => RetryInv
    <2> SUFFICES ASSUME TypeInv, Baseline PROVE RetryInv OBVIOUS
    <2>1. TypeOK
      <3>1. ASSUME NEW i \in Items
            PROVE  /\ status[i] \in {"TODO", "IN_PROGRESS", "DONE"}
                   /\ stage[i] \in 0..3
                   /\ assigned[i] \in {<<>>} \cup (Providers \X Providers \X Providers)
                   /\ tree[i] \in {"clean", "edits", "commits"}
                   /\ assigned[i] # <<>> <=> \E n \in DOMAIN history : history[n] = i
        BY DEF TypeInv, Typing, Knowing, Assignment
      <3>2. ASSUME NEW q \in Processes
            PROVE  /\ proc[q].pc \in {"idle", "entered", "journal", "assign", "persist",
                                      "role", "call", "mark", "switch", "scan", "stop"}
                   /\ proc[q].provider \in Providers \cup {NoProvider}
                   /\ proc[q].excluded \subseteq Providers
                   /\ proc[q].pc \in {"call", "mark"} => proc[q].provider \in Providers
                   /\ proc[q].starts \in 0..MaxStarts[q]
        <4>1. proc[q] \in Process /\ MaxStarts[q] \in Nat /\ proc[q].starts <= MaxStarts[q]
              /\ (proc[q].pc \in {"call", "mark"} => proc[q].provider \in Providers)
          BY BoundAssumption DEF TypeInv, Typing, Knowing
        <4>2. QED BY <4>1 DEF Process
      <3>3. QED BY <3>1, <3>2 DEF TypeInv, Typing, TypeOK
    <2>2. RetryStartsClean BY DEF Baseline, RetryStartsClean
    <2>3. QED BY <2>1, <2>2 DEF RetryInv
  <1>4. QED BY <1>1, <1>2, <1>3, PTL DEF Spec

(* Whatever the history, assign_roles gives the roles to different providers when     *)
(* enough of them were found free.                                                    *)
THEOREM RolesGoApart == Spec => RolesIsolated
  <1>1. Init => TypeInv BY Init_TypeInv
  <1>2. TypeInv /\ [Next]_vars => TypeInv' BY Next_TypeInv
  <1> DEFINE a(q) == assigned'[ItemOf[q]]
             free(q) == Cardinality(proc[q].available)
             apart(q) == (proc[q].pc = "persist" /\ proc'[q].pc = "role") =>
                           /\ free(q) >= 2 => a(q)[1] \notin {a(q)[2], a(q)[3]}
                           /\ free(q) >= 3 => Cardinality({a(q)[1], a(q)[2], a(q)[3]}) = 3
  <1>3. ASSUME TypeInv, Next, NEW q \in Processes PROVE apart(q)
    <2> SUFFICES ASSUME proc[q].pc = "persist", proc'[q].pc = "role" PROVE apart(q)
      OBVIOUS
    <2>1. PICK o \in Processes : run_bl(o) \/ step(o) \/ crash(o)
      BY <1>3 DEF Next, resume_run, tick
    <2>2. o = q
      <3>1. ASSUME o # q PROVE FALSE
        <4>1. proc'[q] = proc[q] BY <1>3, <2>1, <3>1, Local
        <4>2. QED BY <4>1
      <3>2. QED BY <3>1
    <2>3. ~crash(q)
      <3>1. ASSUME crash(q) PROVE proc'[q].pc = "idle"
        BY <1>3, <3>1 DEF crash, leave, Fresh, TypeInv, Typing
      <3>2. QED BY <3>1
    <2>4. assign_roles(q)
      BY <2>1, <2>2, <2>3
      DEF step, run_bl, admit, dev_started, read_available, start_role, answer,
          mark_provider_exhausted, switch, look_at_provider, stop_run_for_exhaustion
    <2>5. /\ proc[q].available \in SUBSET Providers /\ proc[q].available # {}
          /\ history \in Seq(Items) /\ ItemOf[q] \in DOMAIN assigned
      BY <1>3 DEF TypeInv, Typing, Knowing, Process, Items
    <2>6. a(q) = build_assignments(proc[q].available)
      BY <2>4, <2>5 DEF assign_roles
    <2>7. QED BY <2>5, <2>6, Assignments
  <1>4. TypeInv /\ [Next]_vars => [\A q \in Processes : apart(q)]_vars
    BY <1>3
  <1>5. QED BY <1>1, <1>2, <1>4, PTL DEF Spec, RolesIsolated
=============================================================================
