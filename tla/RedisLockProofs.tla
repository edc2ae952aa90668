-------------------------- MODULE RedisLockProofs --------------------------
(***************************************************************************)
(* What the operators of RedisLock do to a lock key, for the proofs about  *)
(* the two users of the lock.                                              *)
(***************************************************************************)
EXTENDS RedisLock, TLAPS

\* Every operation on a lock key leaves a lock key.
LEMMA LockType ==
    /\ Free \in Lock
    /\ \A p \in Replica \cup {Orphan} : Acquired(p) \in Lock
    /\ \A l \in Lock : /\ l.holder \in Replica \cup {NoOne, Orphan}
                       /\ l.ttl \in Nat
                       /\ Aged(l) \in Lock
    /\ \A l \in Lock, p \in Replica : Released(l, p) \in Lock /\ Abandoned(l, p) \in Lock
  <1>1. /\ Free \in Lock
        /\ \A p \in Replica \cup {Orphan} : Acquired(p) \in Lock
        /\ \A l \in Lock, p \in Replica : Released(l, p) \in Lock /\ Abandoned(l, p) \in Lock
    BY LockAssumption DEF Lock, Free, Acquired, Released, Abandoned
  <1>2. ASSUME NEW l \in Lock
        PROVE  /\ l.holder \in Replica \cup {NoOne, Orphan} /\ l.ttl \in Nat
               /\ Aged(l) \in Lock
    <2>1. l.holder \in Replica \cup {NoOne, Orphan} /\ l.ttl \in Nat
      BY DEF Lock
    <2>2. CASE l.ttl = 0
      BY <2>1, <2>2 DEF Aged
    <2>3. CASE l.ttl = 1
      BY <1>1, <2>1, <2>3 DEF Aged
    <2>4. CASE l.ttl > 1
      <3>1. Aged(l) = [l EXCEPT !.ttl = l.ttl - 1] /\ l.ttl - 1 \in Nat
        BY <2>1, <2>4 DEF Aged
      <3>. QED BY <2>1, <3>1 DEF Lock
    <2>. QED BY <2>1, <2>2, <2>3, <2>4
  <1>. QED BY <1>1, <1>2

\* A successful Acquire makes its caller the holder, with the whole TTL ahead.
LEMMA AcquiredBy ==
    \A p : Acquired(p).holder = p /\ Acquired(p).ttl = LockTTL
  BY DEF Acquired

\* Release and the loss of a handle leave another replica's lock alone; whatever
\* they do, the caller is no longer the holder.
LEMMA OthersKeepTheirs ==
    ASSUME NEW l \in Lock, NEW p \in Replica
    PROVE  /\ l.holder # p => Released(l, p) = l /\ Abandoned(l, p) = l
           /\ l.holder = p => Released(l, p) = Free /\ Abandoned(l, p).holder = Orphan
           /\ Free.holder = NoOne
           /\ Released(l, p).holder # p /\ Abandoned(l, p).holder # p
  BY LockAssumption DEF Released, Abandoned, Free, Lock

\* A lock with more than one tick to live survives a tick with its holder.
LEMMA AgedKeepsHolder ==
    ASSUME NEW l \in Lock
    PROVE  /\ l.ttl > 1 => Aged(l).holder = l.holder /\ Aged(l).ttl = l.ttl - 1
           /\ Aged(l).holder # l.holder => l.ttl = 1 /\ Aged(l) = Free
  BY DEF Aged, Lock, Free
=============================================================================
