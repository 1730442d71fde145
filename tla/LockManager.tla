---------------------------- MODULE LockManager ------------------------------
(***************************************************************************)
(* The persisted locks of src/src/state/lock_manager.py: exclusive locks   *)
(* with an owner, a time to live and a reentrancy depth, and provider      *)
(* semaphores made of one lock per slot.  Each operation is one SQLite     *)
(* transaction, but the time it compares with was read before the          *)
(* transaction could start.                                                *)
(*                                                                         *)
(* An owner is one worker of one process instance: it has one operation at *)
(* a time, releases in the reverse order of its acquisitions, and once     *)
(* dead never comes back under the same identifier.                        *)
(***************************************************************************)
EXTENDS Naturals, Sequences

CONSTANTS
    Owners,         \* worker or process instances
    Resources,      \* (namespace, resource_id) pairs, one per provider slot
    Requests,       \* what is asked for: the resources to try, in order
    Ttls,           \* the ttl_seconds that callers ask for
    NoLock,         \* no row for the resource
    MaxTime,        \* bound on the clock
    MaxHeld         \* bound on the nested acquisitions of an owner

Row == [owner : Owners, expires_at : Nat, depth : Nat \ {0}]

ASSUME LockAssumption ==
    /\ NoLock \notin Row
    /\ Requests \subseteq Seq(Resources)
    /\ Ttls \subseteq Nat \ {0}
    /\ MaxTime \in Nat /\ MaxHeld \in Nat

VARIABLES
    locks,          \* the locks table
    clock,          \* the time
    asked,          \* per owner: the slots still to try, the ttl, the time read
    held,           \* per owner and resource: expires_at of each LockRecord it
                    \* was given and has not released, oldest first
    alive           \* owners that have not crashed

vars == <<locks, clock, asked, held, alive>>

Idle == [slots |-> <<>>, ttl |-> 0, now |-> 0]

Init ==
    /\ locks = [r \in Resources |-> NoLock]
    /\ clock = 0
    /\ asked = [o \in Owners |-> Idle]
    /\ held = [o \in Owners |-> [r \in Resources |-> <<>>]]
    /\ alive = Owners

\* Mutant of is_expired: the clocks of two hosts are taken to agree within 1.
Bug_expires_early(row, now) == row.expires_at <= now + 1

is_expired(row, now) == row.expires_at <= now

\* Mutant of acquired: the depth of an expired row is kept by who takes it.
Bug_depth_kept(row, o, now, ttl) ==
    [owner |-> o, expires_at |-> now + ttl,
     depth |-> IF row = NoLock THEN 1 ELSE row.depth + 1]

\* The row written by a granted request: a new lock, or one more depth of the
\* owner's own unexpired lock, whose expiry is then replaced.
acquired(row, o, now, ttl) ==
    [owner |-> o, expires_at |-> now + ttl,
     depth |-> IF row = NoLock \/ is_expired(row, now) THEN 1 ELSE row.depth + 1]

grants(row, o, now) ==
    row # NoLock => is_expired(row, now) \/ row.owner = o

\* acquire_bl, acquire_repository and acquire_provider: validate, read the
\* clock, then wait for the transaction.
request(o, slots, ttl) ==
    /\ o \in alive
    /\ asked[o] = Idle
    /\ slots # <<>>
    /\ \A r \in Resources : Len(held[o][r]) < MaxHeld
    /\ asked' = [asked EXCEPT ![o] = [slots |-> slots, ttl |-> ttl, now |-> clock]]
    /\ UNCHANGED <<locks, clock, held, alive>>

\* The transaction of acquire, when it grants the lock.
acquire(o) ==
    /\ asked[o].slots # <<>>
    /\ LET r   == Head(asked[o].slots)
           row == acquired(locks[r], o, asked[o].now, asked[o].ttl)
       IN  /\ grants(locks[r], o, asked[o].now)
           /\ locks' = [locks EXCEPT ![r] = row]
           /\ held' = [held EXCEPT ![o][r] = Append(@, row.expires_at)]
    /\ asked' = [asked EXCEPT ![o] = Idle]
    /\ UNCHANGED <<clock, alive>>

\* Another owner has the lock: None, or the next slot with a new reading of the
\* clock.
refuse(o) ==
    /\ asked[o].slots # <<>>
    /\ ~grants(locks[Head(asked[o].slots)], o, asked[o].now)
    /\ asked' =
           [asked EXCEPT
              ![o] = IF Len(@.slots) = 1 THEN Idle
                     ELSE [slots |-> Tail(@.slots), ttl |-> @.ttl, now |-> clock]]
    /\ UNCHANGED <<locks, clock, held, alive>>

\* SQLite refuses the transaction: it is rolled back and the call raises.
abort(o) ==
    /\ asked[o] # Idle
    /\ asked' = [asked EXCEPT ![o] = Idle]
    /\ UNCHANGED <<locks, clock, held, alive>>

\* Mutant of released: the row of a last release stays.
Bug_row_stays(row, o) ==
    IF row = NoLock \/ row.owner # o THEN row ELSE [row EXCEPT !.depth = @ - 1]

\* What release leaves of a row.
released(row, o) ==
    IF row = NoLock \/ row.owner # o THEN row
    ELSE IF row.depth > 1 THEN [row EXCEPT !.depth = @ - 1] ELSE NoLock

\* release of the latest record; False, and nothing changes in the table, when
\* the lock is another's by now.
release(o, r) ==
    /\ o \in alive
    /\ asked[o] = Idle
    /\ held[o][r] # <<>>
    /\ held' = [held EXCEPT ![o][r] = SubSeq(@, 1, Len(@) - 1)]
    /\ locks' = [locks EXCEPT ![r] = released(@, o)]
    /\ UNCHANGED <<clock, asked, alive>>

\* recover_orphans: rows expired at the time read, among those the inspection
\* of the real state says are orphans.
recover_orphans(now, orphans) ==
    /\ now <= clock
    /\ locks' =
           [r \in Resources |->
               IF /\ locks[r] # NoLock
                  /\ is_expired(locks[r], now)
                  /\ r \in orphans
               THEN NoLock ELSE locks[r]]
    /\ UNCHANGED <<clock, asked, held, alive>>

crash(o) ==
    /\ o \in alive
    /\ alive' = alive \ {o}
    /\ asked' = [asked EXCEPT ![o] = Idle]
    /\ held' = [held EXCEPT ![o] = [r \in Resources |-> <<>>]]
    /\ UNCHANGED <<locks, clock>>

tick ==
    /\ clock < MaxTime
    /\ clock' = clock + 1
    /\ UNCHANGED <<locks, asked, held, alive>>

Next ==
    \/ \E o \in Owners, slots \in Requests, ttl \in Ttls : request(o, slots, ttl)
    \/ \E o \in Owners : acquire(o)
    \/ \E o \in Owners : refuse(o)
    \/ \E o \in Owners : abort(o)
    \/ \E o \in Owners, r \in Resources : release(o, r)
    \/ \E now \in 0..MaxTime, orphans \in SUBSET Resources : recover_orphans(now, orphans)
    \/ \E o \in Owners : crash(o)
    \/ tick

Spec == Init /\ [][Next]_vars

-----------------------------------------------------------------------------
(***************************************************************************)
(* Properties.                                                             *)
(***************************************************************************)

\* Every variable has its type.
TypeOK ==
    /\ locks \in [Resources -> Row \cup {NoLock}]
    /\ clock \in Nat
    /\ asked \in [Owners -> [slots : Seq(Resources), ttl : Nat, now : Nat]]
    /\ held \in [Owners -> [Resources -> Seq(Nat)]]
    /\ alive \in SUBSET Owners

\* Owner o has an unreleased record on r that says its lock is not expired.
Leases(o, r) ==
    \E i \in 1..Len(held[o][r]) : held[o][r][i] > clock

\* "Acquire an exclusive lock": two owners never have, on one resource, records
\* that both say they are not expired.
MutualExclusion ==
    \A r \in Resources : \A o, p \in Owners :
        Leases(o, r) /\ Leases(p, r) => o = p

\* A worker that has released all it was given keeps no row: locks of live
\* workers are never leaked to their expiry, through expiry and reacquisition,
\* reentrance, and failed calls.
NoLeak ==
    \A r \in Resources :
        locks[r] # NoLock /\ locks[r].owner \in alive =>
            locks[r].depth <= Len(held[locks[r].owner][r])

\* All callers ask for the same time to live, the default.
UniformTtl == \A s, t \in Ttls : s = t
=============================================================================
