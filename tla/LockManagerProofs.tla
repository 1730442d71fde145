-------------------------- MODULE LockManagerProofs --------------------------
(***************************************************************************)
(* Proofs about the persisted locks.  The inductive invariant of mutual    *)
(* exclusion is Covered: the row of a resource stands for every unreleased *)
(* record on it that is not expired.  It needs the records of an owner to  *)
(* expire in the order they were given, which takes one time to live.      *)
(***************************************************************************)
EXTENDS LockManager, SequenceTheorems, TLAPS

\* What is pending was asked for, at a time that has passed.
Asked ==
    \A o \in Owners :
        asked[o] # Idle => asked[o].ttl \in Ttls /\ asked[o].now <= clock

\* No record expires later than one that would be given now, or to the pending
\* request.
Dated ==
    \A o \in Owners, r \in Resources : \A i \in 1..Len(held[o][r]) :
        /\ \A ttl \in Ttls : held[o][r][i] <= clock + ttl
        /\ asked[o] # Idle => held[o][r][i] <= asked[o].now + asked[o].ttl

\* A record that is not expired is backed by the row: same owner, an expiry at
\* least as late, and a depth that counts it and all later ones.
Covered ==
    \A o \in Owners, r \in Resources : \A i \in 1..Len(held[o][r]) :
        held[o][r][i] > clock =>
            /\ locks[r] # NoLock
            /\ locks[r].owner = o
            /\ locks[r].expires_at >= held[o][r][i]
            /\ locks[r].depth >= Len(held[o][r]) - i + 1

-----------------------------------------------------------------------------
\* Dropping the last element keeps the others.
LEMMA Dropped ==
    ASSUME NEW s \in Seq(Nat), s # <<>>
    PROVE  /\ SubSeq(s, 1, Len(s) - 1) \in Seq(Nat)
           /\ Len(SubSeq(s, 1, Len(s) - 1)) = Len(s) - 1
           /\ \A i \in 1..(Len(s) - 1) : SubSeq(s, 1, Len(s) - 1)[i] = s[i]
  <1>1. Len(s) \in Nat /\ Len(s) # 0 /\ \A i \in 1..Len(s) : s[i] \in Nat
    OBVIOUS
  <1> DEFINE n == Len(s) - 1
  <1>2. n \in Nat /\ 1 \in Int /\ n \in Int /\ \A i \in 1..n : s[i] \in Nat
    BY <1>1
  <1>3. /\ SubSeq(s, 1, n) \in Seq(Nat)
        /\ Len(SubSeq(s, 1, n)) = IF 1 <= n THEN n - 1 + 1 ELSE 0
        /\ \A i \in 1..(n - 1 + 1) : SubSeq(s, 1, n)[i] = s[1 + i - 1]
    BY <1>2, SubSeqProperties
  <1>4. Len(SubSeq(s, 1, n)) = n
    <2> HIDE DEF n
    <2>1. CASE n = 0
      BY <1>3, <2>1
    <2>2. CASE 1 <= n
      <3>1. n - 1 + 1 = n
        BY <1>2
      <3> QED
        BY <1>3, <2>2, <3>1
    <2> QED
      BY <1>2, <2>1, <2>2
  <1>5. \A i \in 1..n : SubSeq(s, 1, n)[i] = s[i]
    <2> TAKE i \in 1..n
    <2>1. i \in 1..(n - 1 + 1) /\ 1 + i - 1 = i
      BY <1>2
    <2> QED
      BY <1>3, <2>1
  <1> QED
    BY <1>3, <1>4, <1>5

\* A row that is written is a row.
LEMMA AcquiredType ==
    ASSUME NEW row \in Row \cup {NoLock}, NEW o \in Owners, NEW now \in Nat, NEW ttl \in Nat
    PROVE  acquired(row, o, now, ttl) \in Row
  BY LockAssumption DEF acquired, Row

LEMMA ReleasedType ==
    ASSUME NEW row \in Row \cup {NoLock}, NEW o \in Owners
    PROVE  released(row, o) \in Row \cup {NoLock}
  BY LockAssumption DEF released, Row

LEMMA TypingInit == Init => TypeOK
  BY DEF Init, TypeOK, Idle

LEMMA TypingNext == TypeOK /\ [Next]_vars => TypeOK'
  <1> SUFFICES ASSUME TypeOK, [Next]_vars PROVE TypeOK'
    OBVIOUS
  <1> USE DEF TypeOK, Idle
  <1>1. ASSUME NEW o \in Owners, NEW slots \in Requests, NEW ttl \in Ttls, request(o, slots, ttl)
        PROVE  TypeOK'
    BY <1>1, LockAssumption DEF request
  <1>2. ASSUME NEW o \in Owners, acquire(o)
        PROVE  TypeOK'
    <2> DEFINE r   == Head(asked[o].slots)
               row == acquired(locks[r], o, asked[o].now, asked[o].ttl)
    <2>1. r \in Resources
      BY <1>2 DEF acquire
    <2>2. row \in Row
      <3>1. locks[r] \in Row \cup {NoLock} /\ asked[o].now \in Nat /\ asked[o].ttl \in Nat
        BY <2>1
      <3> QED
        BY <3>1, AcquiredType
    <2>3. row.expires_at \in Nat
      BY <2>2 DEF Row
    <2>4. locks' \in [Resources -> Row \cup {NoLock}]
      BY <1>2, <2>1, <2>2 DEF acquire
    <2>5. held' \in [Owners -> [Resources -> Seq(Nat)]]
      BY <1>2, <2>1, <2>3 DEF acquire
    <2> QED
      BY <1>2, <2>4, <2>5 DEF acquire
  <1>3. ASSUME NEW o \in Owners, refuse(o)
        PROVE  TypeOK'
    BY <1>3 DEF refuse
  <1>4. ASSUME NEW o \in Owners, abort(o)
        PROVE  TypeOK'
    BY <1>4 DEF abort
  <1>5. ASSUME NEW o \in Owners, NEW r \in Resources, release(o, r)
        PROVE  TypeOK'
    <2>1. SubSeq(held[o][r], 1, Len(held[o][r]) - 1) \in Seq(Nat)
      BY <1>5, Dropped DEF release
    <2>2. released(locks[r], o) \in Row \cup {NoLock}
      BY ReleasedType
    <2> QED
      BY <1>5, <2>1, <2>2 DEF release
  <1>6. ASSUME NEW now \in 0..MaxTime, NEW orphans \in SUBSET Resources,
               recover_orphans(now, orphans)
        PROVE  TypeOK'
    BY <1>6 DEF recover_orphans
  <1>7. ASSUME NEW o \in Owners, crash(o)
        PROVE  TypeOK'
    BY <1>7 DEF crash
  <1>8. CASE tick
    BY <1>8 DEF tick
  <1>9. CASE UNCHANGED vars
    BY <1>9 DEF vars
  <1> QED
    BY <1>1, <1>2, <1>3, <1>4, <1>5, <1>6, <1>7, <1>8, <1>9 DEF Next

\* The table, the clock and the workers keep their types.
THEOREM TypeCorrect == Spec => []TypeOK
  BY TypingInit, TypingNext, PTL DEF Spec

-----------------------------------------------------------------------------
\* A worker that has released everything keeps no row (NoLeak).  The depth of
\* a row and the records of its owner move together, whatever the expiries.
LEMMA NoLeakNext == TypeOK /\ NoLeak /\ [Next]_vars => NoLeak'
  <1> SUFFICES ASSUME TypeOK, NoLeak, [Next]_vars,
                      NEW q \in Resources, locks'[q] # NoLock, locks'[q].owner \in alive'
               PROVE  locks'[q].depth <= Len(held'[locks'[q].owner][q])
    BY DEF NoLeak
  <1> DEFINE w == locks'[q].owner
  <1>0. /\ locks[q] \in Row \cup {NoLock}
        /\ locks[q] # NoLock /\ locks[q].owner \in alive =>
               locks[q].depth <= Len(held[locks[q].owner][q])
    BY DEF TypeOK, NoLeak
  <1>1. ASSUME NEW o \in Owners, NEW slots \in Requests, NEW ttl \in Ttls, request(o, slots, ttl)
        PROVE  locks'[q].depth <= Len(held'[w][q])
    BY <1>0, <1>1 DEF request
  <1>2. ASSUME NEW o \in Owners, acquire(o)
        PROVE  locks'[q].depth <= Len(held'[w][q])
    <2> DEFINE r   == Head(asked[o].slots)
               row == acquired(locks[r], o, asked[o].now, asked[o].ttl)
    <2>1. r \in Resources
      BY <1>2 DEF acquire, TypeOK
    <2>2. CASE q # r
      BY <1>0, <1>2, <2>1, <2>2 DEF acquire, TypeOK
    <2>3. CASE q = r
      <3>1. /\ locks'[q] = row
            /\ held'[o][q] = Append(held[o][q], row.expires_at)
            /\ grants(locks[q], o, asked[o].now)
            /\ alive' = alive
        BY <1>2, <2>1, <2>3 DEF acquire, TypeOK
      <3>2. row.owner = o
        BY DEF acquired
      <3>3. held[o][q] \in Seq(Nat)
        BY DEF TypeOK
      <3>4. Len(held'[o][q]) = Len(held[o][q]) + 1 /\ Len(held[o][q]) \in Nat
        BY <3>1, <3>3
      <3>5. row.depth <= Len(held[o][q]) + 1
        <4>1. CASE locks[q] = NoLock \/ is_expired(locks[q], asked[o].now)
          BY <2>3, <3>4, <4>1 DEF acquired
        <4>2. CASE locks[q] # NoLock /\ ~is_expired(locks[q], asked[o].now)
          <5>1. locks[q].owner = o /\ o \in alive /\ locks[q].depth \in Nat
            BY <1>0, <3>1, <3>2, <4>2 DEF grants, Row
          <5>2. locks[q].depth <= Len(held[o][q])
            BY <1>0, <4>2, <5>1
          <5>3. row.depth = locks[q].depth + 1
            BY <2>3, <4>2 DEF acquired
          <5> QED
            BY <3>4, <5>1, <5>2, <5>3
        <4> QED
          BY <4>1, <4>2
      <3> QED
        BY <3>1, <3>2, <3>4, <3>5
    <2> QED
      BY <2>2, <2>3
  <1>3. ASSUME NEW o \in Owners, refuse(o)
        PROVE  locks'[q].depth <= Len(held'[w][q])
    BY <1>0, <1>3 DEF refuse
  <1>4. ASSUME NEW o \in Owners, abort(o)
        PROVE  locks'[q].depth <= Len(held'[w][q])
    BY <1>0, <1>4 DEF abort
  <1>5. ASSUME NEW o \in Owners, NEW r \in Resources, release(o, r)
        PROVE  locks'[q].depth <= Len(held'[w][q])
    <2>1. CASE q # r
      BY <1>0, <1>5, <2>1 DEF release, TypeOK
    <2>2. CASE q = r
      <3>1. /\ locks'[q] = released(locks[q], o)
            /\ held'[o][q] = SubSeq(held[o][q], 1, Len(held[o][q]) - 1)
            /\ \A p \in Owners : p # o => held'[p][q] = held[p][q]
            /\ held[o][q] # <<>> /\ held[o][q] \in Seq(Nat)
            /\ alive' = alive
        BY <1>5, <2>2 DEF release, TypeOK
      <3>2. Len(held'[o][q]) = Len(held[o][q]) - 1 /\ Len(held[o][q]) \in Nat
        BY <3>1, Dropped
      <3>3. locks[q] # NoLock /\ locks[q] \in Row /\ w = locks[q].owner
        BY <1>0, <3>1 DEF released, Row
      <3>4. CASE w # o
        <4>1. locks'[q] = locks[q] /\ w \in Owners
          BY <3>1, <3>3, <3>4 DEF released, Row
        <4> QED
          BY <1>0, <3>1, <3>3, <3>4, <4>1
      <3>5. CASE w = o
        <4>1. locks'[q].depth = locks[q].depth - 1 /\ locks[q].depth \in Nat
          BY <3>1, <3>3, <3>5 DEF released, Row
        <4>2. locks[q].depth <= Len(held[o][q])
          BY <1>0, <3>1, <3>3, <3>5
        <4> QED
          BY <3>2, <3>5, <4>1, <4>2
      <3> QED
        BY <3>4, <3>5
    <2> QED
      BY <2>1, <2>2
  <1>6. ASSUME NEW now \in 0..MaxTime, NEW orphans \in SUBSET Resources,
               recover_orphans(now, orphans)
        PROVE  locks'[q].depth <= Len(held'[w][q])
    BY <1>0, <1>6 DEF recover_orphans
  <1>7. ASSUME NEW o \in Owners, crash(o)
        PROVE  locks'[q].depth <= Len(held'[w][q])
    BY <1>0, <1>7 DEF crash, TypeOK, Row
  <1>8. CASE tick
    BY <1>0, <1>8 DEF tick
  <1>9. CASE UNCHANGED vars
    BY <1>0, <1>9 DEF vars
  <1> QED
    BY <1>1, <1>2, <1>3, <1>4, <1>5, <1>6, <1>7, <1>8, <1>9 DEF Next

\* No lock of a live worker is leaked (release and acquire keep depth and
\* records in step), for any number of workers, locks and times to live.
THEOREM LocksNotLeaked == Spec => []NoLeak
  <1>1. Init => NoLeak
    BY DEF Init, NoLeak
  <1> QED
    BY <1>1, TypeCorrect, NoLeakNext, PTL DEF Spec

-----------------------------------------------------------------------------
\* A waiting request was made with one of the times to live, in the past.
LEMMA AskedNext == TypeOK /\ Asked /\ [Next]_vars => Asked'
  <1> SUFFICES ASSUME TypeOK, Asked, [Next]_vars,
                      NEW q \in Owners, asked'[q] # Idle
               PROVE  asked'[q].ttl \in Ttls /\ asked'[q].now <= clock'
    BY DEF Asked
  <1>0. /\ asked[q] # Idle => asked[q].ttl \in Ttls /\ asked[q].now <= clock
        /\ clock \in Nat /\ asked[q].now \in Nat
    BY DEF Asked, TypeOK
  <1> USE DEF TypeOK
  <1>1. ASSUME NEW o \in Owners, NEW slots \in Requests, NEW ttl \in Ttls, request(o, slots, ttl)
        PROVE  asked'[q].ttl \in Ttls /\ asked'[q].now <= clock'
    BY <1>0, <1>1 DEF request
  <1>2. ASSUME NEW o \in Owners, acquire(o)
        PROVE  asked'[q].ttl \in Ttls /\ asked'[q].now <= clock'
    BY <1>0, <1>2 DEF acquire
  <1>3. ASSUME NEW o \in Owners, refuse(o)
        PROVE  asked'[q].ttl \in Ttls /\ asked'[q].now <= clock'
    <2>1. CASE q = o
      <3>1. asked[o] # Idle
        BY <1>3 DEF refuse, Idle
      <3> QED
        BY <1>0, <1>3, <2>1, <3>1 DEF refuse
    <2>2. CASE q # o
      BY <1>0, <1>3, <2>2 DEF refuse
    <2> QED
      BY <2>1, <2>2
  <1>4. ASSUME NEW o \in Owners, abort(o)
        PROVE  asked'[q].ttl \in Ttls /\ asked'[q].now <= clock'
    BY <1>0, <1>4 DEF abort
  <1>5. ASSUME NEW o \in Owners, crash(o)
        PROVE  asked'[q].ttl \in Ttls /\ asked'[q].now <= clock'
    BY <1>0, <1>5 DEF crash
  <1>6. CASE tick
    BY <1>0, <1>6 DEF tick
  <1>7. CASE UNCHANGED <<clock, asked>>
    BY <1>0, <1>7
  <1> QED
    BY <1>1, <1>2, <1>3, <1>4, <1>5, <1>6, <1>7 DEF Next, release, recover_orphans, vars

\* Records expire no later than what would be given now: with one time to live,
\* in the order in which they are given.
LEMMA DatedNext ==
    ASSUME UniformTtl
    PROVE  TypeOK /\ Asked /\ Dated /\ [Next]_vars => Dated'
  <1> SUFFICES ASSUME TypeOK, Asked, Dated, [Next]_vars,
                      NEW p \in Owners, NEW q \in Resources, NEW i \in 1..Len(held'[p][q])
               PROVE  /\ \A ttl \in Ttls : held'[p][q][i] <= clock' + ttl
                      /\ asked'[p] # Idle =>
                             held'[p][q][i] <= asked'[p].now + asked'[p].ttl
    BY DEF Dated
  <1> DEFINE Goal == /\ \A ttl \in Ttls : held'[p][q][i] <= clock' + ttl
                     /\ asked'[p] # Idle =>
                            held'[p][q][i] <= asked'[p].now + asked'[p].ttl
  <1>0. /\ held[p][q] \in Seq(Nat) /\ clock \in Nat /\ Ttls \subseteq Nat
        /\ \A k \in 1..Len(held[p][q]) :
               /\ held[p][q][k] \in Nat
               /\ \A ttl \in Ttls : held[p][q][k] <= clock + ttl
               /\ asked[p] # Idle => held[p][q][k] <= asked[p].now + asked[p].ttl
    BY LockAssumption DEF TypeOK, Dated
  <1>1. ASSUME NEW o \in Owners, NEW slots \in Requests, NEW ttl \in Ttls, request(o, slots, ttl)
        PROVE  Goal
    BY <1>0, <1>1 DEF request, TypeOK
  <1>2. ASSUME NEW o \in Owners, acquire(o)
        PROVE  Goal
    <2> DEFINE r     == Head(asked[o].slots)
               until == acquired(locks[r], o, asked[o].now, asked[o].ttl).expires_at
    <2>1. /\ asked[o] # Idle /\ asked'[o] = Idle
          /\ \A s \in Owners : s # o => asked'[s] = asked[s]
          /\ asked[o].ttl \in Ttls /\ asked[o].now <= clock
          /\ asked[o].now \in Nat /\ clock' = clock
      BY <1>2 DEF acquire, Idle, TypeOK, Asked
    <2>2. until = asked[o].now + asked[o].ttl
      BY DEF acquired
    <2>3. CASE p = o /\ q = r
      <3>1. held'[p][q] = Append(held[p][q], until)
        BY <1>2, <2>3 DEF acquire, TypeOK
      <3>2. until \in Nat /\ \A ttl \in Ttls : until <= clock + ttl
        <4>1. asked[o].ttl \in Nat /\ \A ttl \in Ttls : ttl = asked[o].ttl
          BY <1>0, <2>1 DEF UniformTtl
        <4> HIDE DEF until
        <4> QED
          BY <1>0, <2>1, <2>2, <4>1
      <3>3. held'[p][q][i] \in {held[p][q][k] : k \in 1..Len(held[p][q])} \cup {until}
        BY <1>0, <3>1, <3>2
      <3> QED
        BY <1>0, <2>1, <2>3, <3>2, <3>3
    <2>4. CASE ~(p = o /\ q = r)
      <3>1. held'[p][q] = held[p][q]
        BY <1>2, <2>4 DEF acquire, TypeOK
      <3> QED
        BY <1>0, <2>1, <3>1
    <2> QED
      BY <2>3, <2>4
  <1>3. ASSUME NEW o \in Owners, refuse(o)
        PROVE  Goal
    <2>1. held' = held /\ clock' = clock
      BY <1>3 DEF refuse
    <2>2. CASE p = o
      <3>1. asked[o] # Idle /\ asked[o].ttl \in Ttls
        BY <1>3 DEF refuse, Idle, Asked
      <3>2. asked'[o] # Idle => asked'[o].now = clock /\ asked'[o].ttl = asked[o].ttl
        BY <1>3 DEF refuse, TypeOK
      <3> QED
        BY <1>0, <2>1, <2>2, <3>1, <3>2
    <2>3. CASE p # o
      BY <1>0, <1>3, <2>1, <2>3 DEF refuse, TypeOK
    <2> QED
      BY <2>2, <2>3
  <1>4. ASSUME NEW o \in Owners, abort(o)
        PROVE  Goal
    BY <1>0, <1>4 DEF abort, TypeOK
  <1>5. ASSUME NEW o \in Owners, NEW r \in Resources, release(o, r)
        PROVE  Goal
    <2>1. UNCHANGED <<clock, asked>>
      BY <1>5 DEF release
    <2>2. CASE p = o /\ q = r
      <3>1. held'[p][q] = SubSeq(held[p][q], 1, Len(held[p][q]) - 1) /\ held[p][q] # <<>>
        BY <1>5, <2>2 DEF release, TypeOK
      <3>2. i \in 1..(Len(held[p][q]) - 1) /\ held'[p][q][i] = held[p][q][i]
        BY <1>0, <3>1, Dropped
      <3>3. i \in 1..Len(held[p][q])
        BY <1>0, <3>2
      <3> QED
        BY <1>0, <2>1, <3>2, <3>3
    <2>3. CASE ~(p = o /\ q = r)
      <3>1. held'[p][q] = held[p][q]
        BY <1>5, <2>3 DEF release, TypeOK
      <3> QED
        BY <1>0, <2>1, <3>1
    <2> QED
      BY <2>2, <2>3
  <1>6. ASSUME NEW o \in Owners, crash(o)
        PROVE  Goal
    BY <1>0, <1>6 DEF crash, TypeOK
  <1>7. CASE tick
    <2>1. clock' = clock + 1 /\ UNCHANGED <<asked, held>>
      BY <1>7 DEF tick
    <2>2. /\ held'[p][q][i] \in Nat
          /\ \A ttl \in Ttls : held'[p][q][i] <= clock + ttl
          /\ asked'[p] # Idle => held'[p][q][i] <= asked'[p].now + asked'[p].ttl
      BY <1>0, <2>1
    <2>3. \A ttl \in Ttls : held'[p][q][i] <= clock' + ttl
      BY <1>0, <2>1, <2>2
    <2> QED
      BY <2>2, <2>3
  <1>8. CASE UNCHANGED <<clock, asked, held>>
    BY <1>0, <1>8
  <1> QED
    BY <1>1, <1>2, <1>3, <1>4, <1>5, <1>6, <1>7, <1>8 DEF Next, recover_orphans, vars

\* Rows stand for the records that are not expired.
LEMMA CoveredNext == TypeOK /\ Asked /\ Dated /\ Covered /\ [Next]_vars => Covered'
  <1> SUFFICES ASSUME TypeOK, Asked, Dated, Covered, [Next]_vars,
                      NEW p \in Owners, NEW q \in Resources, NEW i \in 1..Len(held'[p][q]),
                      held'[p][q][i] > clock'
               PROVE  /\ locks'[q] # NoLock
                      /\ locks'[q].owner = p
                      /\ locks'[q].expires_at >= held'[p][q][i]
                      /\ locks'[q].depth >= Len(held'[p][q]) - i + 1
    BY DEF Covered
  <1> DEFINE Goal == /\ locks'[q] # NoLock
                     /\ locks'[q].owner = p
                     /\ locks'[q].expires_at >= held'[p][q][i]
                     /\ locks'[q].depth >= Len(held'[p][q]) - i + 1
  <1>0. /\ held[p][q] \in Seq(Nat) /\ clock \in Nat
        /\ locks[q] \in Row \cup {NoLock}
        /\ \A k \in 1..Len(held[p][q]) :
               /\ held[p][q][k] \in Nat
               /\ held[p][q][k] > clock =>
                      /\ locks[q] # NoLock
                      /\ locks[q].owner = p
                      /\ locks[q].expires_at >= held[p][q][k]
                      /\ locks[q].depth >= Len(held[p][q]) - k + 1
    BY DEF TypeOK, Covered
  <1>1. ASSUME NEW o \in Owners, acquire(o)
        PROVE  Goal
    <2> DEFINE r   == Head(asked[o].slots)
               row == acquired(locks[r], o, asked[o].now, asked[o].ttl)
    <2>1. /\ asked[o] # Idle /\ asked[o].ttl \in Ttls /\ asked[o].now <= clock
          /\ asked[o].now \in Nat /\ clock' = clock /\ r \in Resources
          /\ asked[o].ttl \in Nat
      BY <1>1, LockAssumption DEF acquire, Idle, TypeOK, Asked
    <2>2. CASE q # r
      BY <1>0, <1>1, <2>1, <2>2 DEF acquire, TypeOK
    <2>3. CASE q = r
      <3>1. /\ locks'[q] = row /\ row \in Row /\ row # NoLock
            /\ row.owner = o /\ row.expires_at = asked[o].now + asked[o].ttl
            /\ grants(locks[q], o, asked[o].now)
        <4>1. row \in Row
          BY <1>0, <2>1, <2>3, AcquiredType
        <4>2. locks'[q] = row /\ grants(locks[q], o, asked[o].now)
          BY <1>1, <2>1, <2>3 DEF acquire, TypeOK
        <4>3. row.owner = o /\ row.expires_at = asked[o].now + asked[o].ttl
          BY <2>3, <4>2 DEF acquired, grants
        <4>4. row # NoLock
          BY <4>1, LockAssumption
        <4> QED
          BY <4>1, <4>2, <4>3, <4>4
      <3>2. CASE p # o
        <4>1. held'[p][q] = held[p][q]
          BY <1>1, <2>1, <3>2 DEF acquire, TypeOK
        <4>2. locks[q] # NoLock /\ locks[q].owner = p /\ locks[q].expires_at > clock
          <5>1. /\ i \in 1..Len(held[p][q]) /\ held[p][q][i] \in Nat
                /\ held[p][q][i] > clock
            BY <1>0, <2>1, <4>1
          <5>2. /\ locks[q] # NoLock /\ locks[q].owner = p
                /\ locks[q].expires_at >= held[p][q][i]
            BY <1>0, <5>1
          <5>3. locks[q].expires_at \in Nat
            BY <1>0, <5>2 DEF Row
          <5> QED
            BY <1>0, <5>1, <5>2, <5>3
        <4> QED
          BY <1>0, <2>1, <3>1, <3>2, <4>2 DEF grants, is_expired, Row
      <3>3. CASE p = o
        <4>1. held'[p][q] = Append(held[p][q], row.expires_at)
          BY <1>1, <2>1, <2>3, <3>3 DEF acquire, TypeOK
        <4>2. Len(held'[p][q]) = Len(held[p][q]) + 1 /\ row.depth \in Nat /\ row.depth >= 1
          BY <1>0, <3>1, <4>1 DEF Row
        <4>3. CASE i = Len(held[p][q]) + 1
          <5>1. held'[p][q][i] = row.expires_at /\ row.expires_at \in Nat
            BY <1>0, <3>1, <4>1, <4>3 DEF Row
          <5>2. row.depth >= Len(held'[p][q]) - i + 1
            BY <1>0, <4>2, <4>3
          <5>3. row.expires_at >= held'[p][q][i]
            BY <5>1
          <5> QED
            BY <3>1, <3>3, <5>2, <5>3
        <4>4. CASE i \in 1..Len(held[p][q])
          <5>1. held'[p][q][i] = held[p][q][i]
            BY <1>0, <3>1, <4>1, <4>4 DEF Row
          <5>2. /\ locks[q] # NoLock /\ locks[q].owner = p
                /\ locks[q].expires_at > clock /\ locks[q].expires_at \in Nat
                /\ locks[q].depth >= Len(held[p][q]) - i + 1 /\ locks[q].depth \in Nat
            <6>1. held[p][q][i] \in Nat /\ held[p][q][i] > clock
              BY <1>0, <2>1, <4>4, <5>1
            <6>2. /\ locks[q] # NoLock /\ locks[q].owner = p
                  /\ locks[q].expires_at >= held[p][q][i]
                  /\ locks[q].depth >= Len(held[p][q]) - i + 1
              BY <1>0, <4>4, <6>1
            <6>3. locks[q].expires_at \in Nat /\ locks[q].depth \in Nat
              BY <1>0, <6>2 DEF Row
            <6> QED
              BY <1>0, <6>1, <6>2, <6>3
          <5>3. ~is_expired(locks[q], asked[o].now)
            BY <1>0, <2>1, <5>2 DEF is_expired
          <5>4. row.depth = locks[q].depth + 1
            BY <2>3, <5>2, <5>3 DEF acquired
          <5>5. held[p][q][i] <= asked[o].now + asked[o].ttl
            BY <2>1, <3>3, <4>4 DEF Dated
          <5>6. row.depth >= Len(held'[p][q]) - i + 1
            BY <1>0, <4>2, <4>4, <5>2, <5>4
          <5>7. row.expires_at >= held'[p][q][i]
            BY <1>0, <2>1, <3>1, <4>4, <5>1, <5>5
          <5> QED
            BY <3>1, <3>3, <5>6, <5>7
        <4> QED
          BY <1>0, <4>2, <4>3, <4>4
      <3> QED
        BY <3>2, <3>3
    <2> QED
      BY <2>2, <2>3
  <1>2. ASSUME NEW o \in Owners, NEW r \in Resources, release(o, r)
        PROVE  Goal
    <2>1. clock' = clock
      BY <1>2 DEF release
    <2>2. CASE q # r
      BY <1>0, <1>2, <2>1, <2>2 DEF release, TypeOK
    <2>3. CASE q = r /\ p # o
      <3>1. held'[p][q] = held[p][q] /\ locks'[q] = released(locks[q], o)
        BY <1>2, <2>3 DEF release, TypeOK
      <3>2. /\ locks[q] # NoLock /\ locks[q].owner = p
            /\ locks[q].expires_at >= held[p][q][i]
            /\ locks[q].depth >= Len(held[p][q]) - i + 1
        BY <1>0, <2>1, <3>1
      <3>3. locks'[q] = locks[q]
        BY <2>3, <3>1, <3>2 DEF released
      <3> QED
        BY <3>1, <3>2, <3>3
    <2>4. CASE q = r /\ p = o
      <3>1. /\ held'[p][q] = SubSeq(held[p][q], 1, Len(held[p][q]) - 1)
            /\ held[p][q] # <<>> /\ locks'[q] = released(locks[q], o)
        BY <1>2, <2>4 DEF release, TypeOK
      <3>2. /\ Len(held'[p][q]) = Len(held[p][q]) - 1
            /\ i \in 1..(Len(held[p][q]) - 1) /\ held'[p][q][i] = held[p][q][i]
        BY <1>0, <3>1, Dropped
      <3>3. /\ locks[q] # NoLock /\ locks[q].owner = p /\ locks[q] \in Row
            /\ locks[q].expires_at >= held[p][q][i]
            /\ locks[q].depth >= Len(held[p][q]) - i + 1
        <4>1. Len(held[p][q]) \in Nat
          BY <1>0
        <4>2. i \in 1..Len(held[p][q]) /\ held[p][q][i] > clock
          BY <2>1, <3>2, <4>1
        <4> QED
          BY <1>0, <4>2
      <3>4. locks[q].depth > 1 /\ locks[q].depth \in Nat
        BY <1>0, <3>2, <3>3 DEF Row
      <3>5. locks'[q] = [locks[q] EXCEPT !.depth = @ - 1]
        BY <2>4, <3>1, <3>3, <3>4 DEF released
      <3>6. /\ locks'[q] \in Row /\ locks'[q].owner = locks[q].owner
            /\ locks'[q].expires_at = locks[q].expires_at
            /\ locks'[q].depth = locks[q].depth - 1
        <4> DEFINE d == locks[q].depth - 1
        <4>1. d \in Nat \ {0}
          BY <3>4
        <4> HIDE DEF d
        <4>2. locks'[q] = [locks[q] EXCEPT !.depth = d]
          BY <3>5 DEF d
        <4>3. locks'[q] \in Row /\ locks'[q].depth = d
          BY <3>3, <4>1, <4>2 DEF Row
        <4> QED
          BY <3>3, <4>2, <4>3 DEF Row, d
      <3>7. locks'[q].depth >= Len(held'[p][q]) - i + 1
        <4>1. Len(held[p][q]) \in Nat /\ i \in Nat
          BY <1>0
        <4> QED
          BY <3>2, <3>3, <3>4, <3>6, <4>1
      <3>8. locks'[q] # NoLock
        BY <3>6, LockAssumption
      <3> QED
        BY <2>4, <3>2, <3>3, <3>6, <3>7, <3>8
    <2> QED
      BY <2>2, <2>3, <2>4
  <1>3. ASSUME NEW now \in 0..MaxTime, NEW orphans \in SUBSET Resources,
               recover_orphans(now, orphans)
        PROVE  Goal
    <2>1. UNCHANGED <<clock, held>> /\ now <= clock /\ now \in Nat
      BY <1>3, LockAssumption DEF recover_orphans
    <2>2. locks[q] # NoLock /\ locks[q].expires_at > clock /\ locks[q].expires_at \in Nat
      <3>1. /\ held[p][q][i] > clock /\ held[p][q][i] \in Nat /\ locks[q] # NoLock
            /\ locks[q].expires_at >= held[p][q][i]
        BY <1>0, <2>1
      <3>2. locks[q] \in Row
        BY <1>0, <3>1
      <3>3. locks[q].expires_at \in Nat
        BY <3>2 DEF Row
      <3> QED
        BY <1>0, <3>1, <3>3
    <2>3. ~is_expired(locks[q], now)
      BY <1>0, <2>1, <2>2 DEF is_expired
    <2>4. locks'[q] = locks[q]
      BY <1>3, <2>3 DEF recover_orphans
    <2> QED
      BY <1>0, <2>1, <2>4
  <1>4. ASSUME NEW o \in Owners, crash(o)
        PROVE  Goal
    <2>1. UNCHANGED <<clock, locks>> /\ held'[p] = held[p]
      BY <1>4 DEF crash, TypeOK
    <2> QED
      BY <1>0, <2>1
  <1>5. CASE tick
    <2>1. clock' = clock + 1 /\ UNCHANGED <<locks, held>>
      BY <1>5 DEF tick
    <2>2. held[p][q][i] > clock
      BY <1>0, <2>1
    <2> QED
      BY <1>0, <2>1, <2>2
  <1>6. CASE UNCHANGED <<clock, locks, held>>
    BY <1>0, <1>6
  <1> QED
    BY <1>1, <1>2, <1>3, <1>4, <1>5, <1>6 DEF Next, request, refuse, abort, vars

\* Mutual exclusion, for any number of workers, locks and slots, when all
\* callers use one time to live: two records that both say they are not expired
\* would need one row with two owners.
THEOREM LocksExclude == ASSUME UniformTtl PROVE Spec => []MutualExclusion
  <1> DEFINE IInv == TypeOK /\ Asked /\ Dated /\ Covered
  <1>1. Init => IInv
    BY TypingInit DEF Init, Asked, Dated, Covered
  <1>2. IInv /\ [Next]_vars => IInv'
    BY TypingNext, AskedNext, DatedNext, CoveredNext
  <1>3. IInv => MutualExclusion
    BY DEF Covered, MutualExclusion, Leases
  <1> QED
    BY <1>1, <1>2, <1>3, PTL DEF Spec
=============================================================================
