------------------------- MODULE KeyRotationProofs -------------------------
(***************************************************************************)
(* Proofs about KeyRotation, for any number of replicas, any guard window  *)
(* and lock TTL, and every combination of failures unless stated.          *)
(***************************************************************************)
EXTENDS KeyRotation, RedisLockProofs

\* The initial states are type correct.
LEMMA TypeInit == Init => TypeOK
  BY RotationAssumption, LockType DEF Init, TypeOK, Holding, Critical

\* Every step keeps the types: one case per action.
LEMMA TypeStep == TypeOK /\ [Next]_vars => TypeOK'
  <1>. SUFFICES ASSUME TypeOK, [Next]_vars PROVE TypeOK'
    OBVIOUS
  <1>. USE RotationAssumption DEF TypeOK, Holding, Critical, Goto, ToWait
  <1>1. ASSUME NEW p \in Replica, CheckGuard(p) PROVE TypeOK'
    BY <1>1 DEF CheckGuard
  <1>2. ASSUME NEW p \in Replica, Acquire(p) PROVE TypeOK'
    BY <1>2, LockType DEF Acquire
  <1>3. ASSUME NEW p \in Replica, Rotate(p) PROVE TypeOK'
    BY <1>3 DEF Rotate, KeyGenerated
  <1>4. ASSUME NEW p \in Replica, Stamp(p) PROVE TypeOK'
    BY <1>4 DEF Stamp
  <1>5. ASSUME NEW p \in Replica, Release(p) PROVE TypeOK'
    BY <1>5, LockType DEF Release
  <1>6. ASSUME NEW p \in Replica, Crash(p) PROVE TypeOK'
    BY <1>6, LockType DEF Crash
  <1>7. ASSUME Tick PROVE TypeOK'
    <2>1. \A n \in 0 .. Guard : Older(n) \in 0 .. Guard
      BY DEF Older
    <2>2. lastGen' \in 0 .. Guard /\ sinceKey' \in 0 .. Guard
      BY <1>7, <2>1 DEF Tick
    <2>3. sinceOwn' \in [Replica -> 0 .. Guard]
      BY <1>7, <2>1 DEF Tick
    <2>4. lock' \in Lock /\ UNCHANGED pc
      BY <1>7, LockType DEF Tick
    <2>5. timer' \in [Replica -> 1 .. Guard] /\ fired' \in [Replica -> BOOLEAN]
      BY <1>7 DEF Tick
    <2>6. age' \in [Replica -> 0 .. RotateDeadline]
      BY <1>7 DEF Tick
    <2>. QED BY <2>2, <2>3, <2>4, <2>5, <2>6
  <1>8. CASE UNCHANGED vars
    BY <1>8 DEF vars
  <1>. QED BY <1>1, <1>2, <1>3, <1>4, <1>5, <1>6, <1>7, <1>8 DEF Next

-----------------------------------------------------------------------------
(***************************************************************************)
(* Rotations exclude each other.                                           *)
(***************************************************************************)

\* While rotations are timely, every step keeps the lock with whoever rotates:
\* it is taken only when it is free, released only by its holder, and a tick
\* cannot expire it.
LEMMA BackedStep ==
    ASSUME TimelyRotations, RotationInv, TypeOK', [Next]_vars
    PROVE  LockBacked'
  <1>. USE DEF RotationInv, LockBacked, TypeOK, Holding, Critical, Goto, ToWait
  <1>1. ASSUME NEW p \in Replica, CheckGuard(p) PROVE LockBacked'
    BY <1>1 DEF CheckGuard
  <1>2. ASSUME NEW p \in Replica, Acquire(p) PROVE LockBacked'
    <2>1. CASE CanAcquire(lock)
      <3>1. \A q \in Replica : pc[q] \notin Holding
        BY <2>1, LockAssumption DEF CanAcquire
      <3>2. CASE Goto(p, "rotate") /\ lock' = Acquired(p)
        BY <1>2, <3>1, <3>2, AcquiredBy, LockAssumption DEF Acquire
      <3>3. CASE Goto(p, "wait")
        BY <1>2, <3>1, <3>3 DEF Acquire
      <3>. QED BY <1>2, <3>2, <3>3 DEF Acquire
    <2>2. CASE ~CanAcquire(lock)
      BY <1>2, <2>2 DEF Acquire
    <2>. QED BY <2>1, <2>2
  <1>3. ASSUME NEW p \in Replica, Rotate(p) PROVE LockBacked'
    BY <1>3 DEF Rotate
  <1>4. ASSUME NEW p \in Replica, Stamp(p) PROVE LockBacked'
    BY <1>4 DEF Stamp
  <1>5. ASSUME NEW p \in Replica, Release(p) \/ Crash(p) PROVE LockBacked'
    <2>1. lock' \in {Released(lock, p), Abandoned(lock, p)}
      BY <1>5 DEF Release, Crash
    <2>2. \A q \in Replica \ {p} : pc[q] \in Holding => lock' = lock
      BY <2>1, OthersKeepTheirs
    <2>3. /\ pc' = [pc EXCEPT ![p] = "wait"]
          /\ age' = [age EXCEPT ![p] = 0]
      BY <1>5 DEF Release, Crash
    <2>. QED BY <2>2, <2>3
  <1>6. ASSUME Tick PROVE LockBacked'
    <2>1. ASSUME NEW q \in Replica, pc[q] \in Holding
          PROVE  lock'.holder = q /\ lock'.ttl + age'[q] = LockTTL
      <3>1. /\ lock' = Aged(lock) /\ age[q] < RotateDeadline /\ age'[q] = age[q] + 1
            /\ lock.holder = q /\ lock.ttl + age[q] = LockTTL
        BY <1>6, <2>1 DEF Tick
      <3>2. lock.ttl \in Nat /\ age[q] \in Nat
        BY LockType, RotationAssumption
      <3>3. lock.ttl > 1
        BY ONLY <3>1, <3>2, LockAssumption, RotationAssumption, TimelyRotations DEF TimelyRotations
      <3>4. lock'.holder = q /\ lock'.ttl = lock.ttl - 1
        BY <3>1, <3>3, AgedKeepsHolder
      <3>. QED BY ONLY <3>1, <3>2, <3>4, LockAssumption
    <2>2. \A q \in Replica : pc[q] \notin Holding => age'[q] = age[q]
      BY <1>6 DEF Tick
    <2>3. UNCHANGED pc
      BY <1>6 DEF Tick
    <2>. QED BY <2>1, <2>2, <2>3
  <1>7. CASE UNCHANGED vars
    BY <1>7 DEF vars
  <1>. QED BY <1>1, <1>2, <1>3, <1>4, <1>5, <1>6, <1>7 DEF Next

\* Whoever rotates owns the lock, and the lock outlives the rotation: for any
\* number of replicas and under every failure of Redis, of the library and of
\* the replicas, as long as rotations are faster than the lock's TTL.
THEOREM RotationBacked ==
    ASSUME TimelyRotations
    PROVE  Spec => []RotationInv
  <1>1. Init => RotationInv
    BY TypeInit DEF Init, RotationInv, LockBacked, Holding, Critical
  <1>2. RotationInv /\ [Next]_vars => RotationInv'
    BY TypeStep, BackedStep, TimelyRotations DEF RotationInv
  <1>. QED BY <1>1, <1>2, PTL DEF Spec

\* Every step from a state of the invariant is a step of Mutex, or none.
LEMMA MutexStep ==
    ASSUME RotationInv, RotationInv', [Next]_vars
    PROVE  RotationMutex!Next \/ UNCHANGED Rotating
  <1>. DEFINE In == {p \in Replica : pc[p] \in Critical}
  <1>. USE DEF RotationInv, TypeOK, Critical, Holding, Goto, ToWait
  <1>1. Rotating = [x \in {"keys"} |-> In] /\ Rotating' = [x \in {"keys"} |-> In']
    BY DEF Rotating
  <1>2. \A p, q \in Replica : p \in In /\ q \in In => p = q
    BY DEF LockBacked
  <1>3. ASSUME NEW p \in Replica, In = {}, In' = {p} PROVE RotationMutex!Next
    <2>1. RotationMutex!Enter(p, "keys")
      BY <1>1, <1>3 DEF RotationMutex!Enter
    <2>. QED BY <2>1 DEF RotationMutex!Next
  <1>4. ASSUME NEW p \in Replica, p \in In, In' = In \ {p} PROVE RotationMutex!Next
    <2>1. RotationMutex!Leave(p, "keys")
      BY <1>1, <1>4 DEF RotationMutex!Leave
    <2>. QED BY <2>1 DEF RotationMutex!Next
  <1>5. ASSUME In' = In PROVE UNCHANGED Rotating
    BY <1>1, <1>5
  <1>6. ASSUME NEW p \in Replica, pc' = [pc EXCEPT ![p] = "rotate"], pc[p] = "acquire"
        PROVE  RotationMutex!Next
    <2>1. p \in In' /\ \A q \in Replica \ {p} : q \in In' <=> q \in In
      BY <1>6
    <2>2. \A q \in Replica : q \in In' => q = p
      BY <2>1 DEF LockBacked
    <2>. QED BY <1>3, <1>6, <2>1, <2>2
  <1>7. ASSUME NEW p \in Replica, NEW stage \in {"wait", "acquire", "release"},
               pc' = [pc EXCEPT ![p] = stage]
        PROVE  RotationMutex!Next \/ UNCHANGED Rotating
    <2>1. In' = In \ {p}
      BY <1>7
    <2>. QED BY <1>4, <1>5, <2>1
  <1>8. ASSUME UNCHANGED pc PROVE UNCHANGED Rotating
    BY <1>5, <1>8
  <1>9. ASSUME NEW p \in Replica, pc[p] = "rotate", pc' = [pc EXCEPT ![p] = "stamp"]
        PROVE  UNCHANGED Rotating
    BY <1>5, <1>9
  <1>10. ASSUME NEW p \in Replica,
                CheckGuard(p) \/ Acquire(p) \/ Rotate(p) \/ Stamp(p) \/ Release(p) \/ Crash(p)
         PROVE  RotationMutex!Next \/ UNCHANGED Rotating
    BY <1>6, <1>7, <1>8, <1>9, <1>10
       DEF CheckGuard, Acquire, Rotate, Stamp, Release, Crash
  <1>11. CASE Tick \/ UNCHANGED vars
    BY <1>8, <1>11 DEF Tick, vars
  <1>. QED BY <1>10, <1>11 DEF Next

\* Rotation under the lock implements the abstract Mutex: no two replicas are
\* ever between a successful Acquire and the write of the generation time.
THEOREM RotationImplementsMutex ==
    ASSUME TimelyRotations
    PROVE  Spec => ImplementsMutex
  <1>1. Init => RotationMutex!Init
    BY DEF Init, RotationMutex!Init, Rotating, Critical
  <1>2. RotationInv /\ RotationInv' /\ [Next]_vars => [RotationMutex!Next]_Rotating
    BY MutexStep
  <1>. QED BY <1>1, <1>2, RotationBacked, TimelyRotations, PTL
           DEF Spec, ImplementsMutex, RotationMutex!Spec

-----------------------------------------------------------------------------
(***************************************************************************)
(* Late releases, and the replica's own guard window.  Neither needs timely *)
(* rotations.                                                              *)
(***************************************************************************)

\* A step takes a lock away from its holder only by that holder's Release or by
\* expiry.
LEMMA ReleaseStep ==
    ASSUME TypeOK, [Next]_vars
    PROVE  LockLeftByHolder
  <1>. SUFFICES ASSUME NEW q \in Replica, lock.holder = q, lock'.holder = NoOne
                PROVE  lock.ttl = 1 \/ (pc[q] = "release" /\ pc'[q] = "wait")
    BY DEF LockLeftByHolder
  <1>. USE DEF TypeOK
  <1>0. q # NoOne /\ Orphan # NoOne
    BY LockAssumption
  <1>1. ASSUME NEW p \in Replica, Acquire(p) PROVE FALSE
    BY <1>0, <1>1, AcquiredBy, LockAssumption DEF Acquire, CanAcquire
  <1>2. ASSUME NEW p \in Replica, Release(p) PROVE pc[q] = "release" /\ pc'[q] = "wait"
    <2>1. p = q
      BY <1>0, <1>2, OthersKeepTheirs DEF Release
    <2>. QED BY <1>2, <2>1 DEF Release, ToWait, Goto
  <1>3. ASSUME NEW p \in Replica, Crash(p) PROVE FALSE
    BY <1>0, <1>3, OthersKeepTheirs DEF Crash
  <1>4. ASSUME Tick PROVE lock.ttl = 1
    BY <1>0, <1>4, AgedKeepsHolder DEF Tick
  <1>5. ASSUME UNCHANGED lock PROVE FALSE
    BY <1>0, <1>5
  <1>. QED BY <1>1, <1>2, <1>3, <1>4, <1>5 DEF Next, CheckGuard, Rotate, Stamp, vars

\* However late a Release comes, and whatever fails, it never deletes the lock
\* of the replica that took over: Release compares the token.
THEOREM LateReleaseHarmless == Spec => ReleaseOnlyOwn
  <1>1. TypeOK /\ [Next]_vars => [LockLeftByHolder]_vars
    BY ReleaseStep
  <1>. QED BY <1>1, TypeInit, TypeStep, PTL DEF Spec, ReleaseOnlyOwn

\* With reliable stamps, what a replica wrote holds it back: by the guard check
\* before Acquire, and by the stamp before the next check.
LEMMA StampedStep ==
    ASSUME ReliableStamps, OwnInv, TypeOK', [Next]_vars
    PROVE  OwnStamped'
  <1>. USE RotationAssumption DEF OwnInv, OwnStamped, TypeOK, Holding, Critical, Goto, ToWait
  <1>1. ASSUME NEW p \in Replica, CheckGuard(p) PROVE OwnStamped'
    <2>1. CASE UNCHANGED pc
      BY <1>1, <2>1 DEF CheckGuard
    <2>2. CASE lastGen >= Guard /\ pc' = [pc EXCEPT ![p] = "acquire"]
      <3>1. lastGen <= sinceOwn[p] /\ lastGen \in Nat /\ sinceOwn[p] \in 0 .. Guard
        BY <1>1 DEF CheckGuard
      <3>2. sinceOwn[p] = Guard
        BY <2>2, <3>1
      <3>. QED BY <1>1, <2>2, <3>2 DEF CheckGuard
    <2>. QED BY <1>1, <2>1, <2>2 DEF CheckGuard, ReliableStamps
  <1>2. ASSUME NEW p \in Replica, Acquire(p) PROVE OwnStamped'
    BY <1>2 DEF Acquire
  <1>3. ASSUME NEW p \in Replica, Rotate(p) PROVE OwnStamped'
    BY <1>3 DEF Rotate, ReliableStamps, KeyGenerated
  <1>4. ASSUME NEW p \in Replica, Stamp(p) PROVE OwnStamped'
    BY <1>4 DEF Stamp, ReliableStamps
  <1>5. ASSUME NEW p \in Replica, Release(p) PROVE OwnStamped'
    BY <1>5 DEF Release
  <1>6. ASSUME NEW p \in Replica, Crash(p) PROVE FALSE
    BY <1>6 DEF Crash, ReliableStamps
  <1>7. ASSUME Tick PROVE OwnStamped'
    <2>1. \A m, n \in 0 .. Guard : m <= n => Older(m) <= Older(n)
      BY DEF Older
    <2>2. Older(Guard) = Guard
      BY DEF Older
    <2>3. lastGen' = Older(lastGen) /\ UNCHANGED pc
          /\ \A q \in Replica : sinceOwn'[q] = Older(sinceOwn[q])
      BY <1>7 DEF Tick
    <2>. QED BY <2>1, <2>2, <2>3
  <1>8. CASE UNCHANGED vars
    BY <1>8 DEF vars
  <1>. QED BY <1>1, <1>2, <1>3, <1>4, <1>5, <1>6, <1>7, <1>8 DEF Next

\* A replica that rotates has generated no key for a whole guard window, for any
\* lock TTL and however slow rotations are, provided that every key it generates
\* is stamped and the stamp can be read.
THEOREM OwnGuardHolds ==
    ASSUME ReliableStamps
    PROVE  Spec => OwnRotationsApart
  <1>1. Init => OwnInv
    BY TypeInit, RotationAssumption DEF Init, OwnInv, OwnStamped
  <1>2. OwnInv /\ [Next]_vars => OwnInv'
    BY TypeStep, StampedStep, ReliableStamps DEF OwnInv
  <1>3. OwnInv /\ [Next]_vars => [OwnKeyAfterGuard]_vars
    BY DEF OwnInv, OwnStamped, OwnKeyAfterGuard
  <1>. QED BY <1>1, <1>2, <1>3, PTL DEF Spec, OwnRotationsApart
=============================================================================
