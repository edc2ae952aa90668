----------------------- MODULE ReconciliationProofs -----------------------
(***************************************************************************)
(* Proofs about Reconciliation, for any replicas and tenants, any interval *)
(* and TTL, and every combination of failures, shutdowns and restarts.     *)
(***************************************************************************)
EXTENDS Reconciliation, RedisLockProofs

\* The initial states are type correct.
LEMMA TypeInit == Init => TypeOK
  <1>. SUFFICES ASSUME Init PROVE TypeOK
    OBVIOUS
  <1>1. since \in [Replica -> 0 .. Threshold + 1]
    BY ReconciliationAssumption DEF Init, Threshold
  <1>. QED BY <1>1, ReconciliationAssumption, LockType DEF Init, TypeOK, Stages, Holding

\* Every step keeps the types: one case per action.
LEMMA TypeStep == TypeOK /\ [Next]_vars => TypeOK'
  <1>. SUFFICES ASSUME TypeOK, [Next]_vars PROVE TypeOK'
    OBVIOUS
  <1>. USE ReconciliationAssumption DEF TypeOK, Stages, Holding, Goto, clock
  <1>t. Threshold \in Nat
    BY DEF Threshold
  <1>1. ASSUME NEW p \in Replica, StartPass(p) PROVE TypeOK'
    BY <1>1 DEF StartPass
  <1>2. ASSUME NEW p \in Replica, Exit(p) PROVE TypeOK'
    BY <1>2 DEF Exit
  <1>3. ASSUME NEW p \in Replica, TakeTenant(p) PROVE TypeOK'
    BY <1>3 DEF TakeTenant
  <1>4. ASSUME NEW p \in Replica, AbortPass(p) PROVE TypeOK'
    BY <1>4 DEF AbortPass
  <1>5. ASSUME NEW p \in Replica, EndPass(p) PROVE TypeOK'
    BY <1>5, <1>t DEF EndPass
  <1>6. ASSUME NEW p \in Replica, Acquire(p) PROVE TypeOK'
    <2>1. at[p] \in Tenant
      BY <1>6 DEF Acquire
    <2>2. lock' \in [Tenant -> Lock]
      <3>1. PICK l \in Lock : lock' = [lock EXCEPT ![at[p]] = l]
        BY <1>6, <2>1, LockType DEF Acquire
      <3>. QED BY <3>1
    <2>3. \/ pc' = [pc EXCEPT ![p] = "cleanup"] /\ at' = at
          \/ pc' = [pc EXCEPT ![p] = "pass"] /\ at' = [at EXCEPT ![p] = NoTenant]
      BY <1>6 DEF Acquire
    <2>. QED BY <1>6, <2>1, <2>2, <2>3 DEF Acquire
  <1>7. ASSUME NEW p \in Replica, Cleanup(p) PROVE TypeOK'
    BY <1>7 DEF Cleanup
  <1>8. ASSUME NEW p \in Replica, Release(p) PROVE TypeOK'
    <2>1. at[p] \in Tenant
      BY <1>8 DEF Release
    <2>2. lock' \in [Tenant -> Lock]
      <3>1. PICK l \in Lock : lock' = [lock EXCEPT ![at[p]] = l]
        BY <1>8, <2>1, LockType DEF Release
      <3>. QED BY <3>1
    <2>. QED BY <1>8, <2>2 DEF Release
  <1>9. ASSUME NEW p \in Replica, Stop(p) PROVE TypeOK'
    BY <1>9 DEF Stop
  <1>10. ASSUME NEW p \in Replica, Restart(p) PROVE TypeOK'
    <2>1. lock' \in [Tenant -> Lock]
      BY <1>10, LockType DEF Restart
    <2>. QED BY <1>10, <1>t, <2>1 DEF Restart
  <1>11. ASSUME Tick PROVE TypeOK'
    <2>1. lock' \in [Tenant -> Lock]
      BY <1>11, LockType DEF Tick
    <2>2. timer' \in [Replica -> 1 .. Interval] /\ fired' \in [Replica -> BOOLEAN]
      BY <1>11 DEF Tick
    <2>3. since' \in [Replica -> 0 .. Threshold + 1]
      BY <1>11, <1>t DEF Tick
    <2>4. age' \in [Replica -> 0 .. PassDeadline]
      BY <1>11 DEF Tick
    <2>. QED BY <1>11, <2>1, <2>2, <2>3, <2>4 DEF Tick
  <1>12. CASE UNCHANGED vars
    BY <1>12 DEF vars
  <1>. QED BY <1>1, <1>2, <1>3, <1>4, <1>5, <1>6, <1>7, <1>8, <1>9, <1>10, <1>11, <1>12 DEF Next

-----------------------------------------------------------------------------
(***************************************************************************)
(* Cleanups of one tenant exclude each other.                              *)
(***************************************************************************)

\* What LockBacked says of one replica.
Backed(q) ==
    /\ pc[q] \in Holding => /\ lock[at[q]].holder = q
                            /\ lock[at[q]].ttl + age[q] >= LockTTL
    /\ ~Busy(q) => age[q] = 0 \/ pc[q] = "exited"

\* A step of one replica leaves alone what backs the others, if it touches only
\* locks that are free or its own.
LEMMA OthersBacked ==
    ASSUME CleanupInv, NEW p \in Replica,
           \A q \in Replica \ {p} : /\ pc'[q] = pc[q] /\ at'[q] = at[q] /\ age'[q] = age[q]
                                    /\ fired'[q] = fired[q],
           \A t \in Tenant : lock[t].holder \in Replica \ {p} => lock'[t] = lock[t]
    PROVE  \A q \in Replica \ {p} : Backed(q)'
  <1>. SUFFICES ASSUME NEW q \in Replica \ {p} PROVE Backed(q)'
    OBVIOUS
  <1>1. Busy(q)' <=> Busy(q)
    BY DEF Busy
  <1>2. pc[q] \in Holding => at[q] \in Tenant /\ lock'[at[q]] = lock[at[q]]
    BY DEF CleanupInv, LockBacked, TypeOK, Holding
  <1>. QED BY <1>1, <1>2 DEF CleanupInv, LockBacked, Backed

\* While locks outlive passes, every step keeps the tenant's lock with whoever
\* cleans it up.
LEMMA BackedStep ==
    ASSUME LocksOutlivePasses, CleanupInv, TypeOK', [Next]_vars
    PROVE  LockBacked'
  <1>. SUFFICES \A q \in Replica : Backed(q)'
    BY DEF LockBacked, Backed
  <1>. USE DEF Goto, clock, Holding
  <1>t. TypeOK /\ LockBacked
    BY DEF CleanupInv
  <1>1. ASSUME NEW p \in Replica,
               StartPass(p) \/ Exit(p) \/ TakeTenant(p) \/ AbortPass(p) \/ EndPass(p)
               \/ Cleanup(p) \/ Stop(p)
        PROVE  \A q \in Replica : Backed(q)'
    <2>1. lock' = lock
          /\ \A q \in Replica \ {p} : /\ pc'[q] = pc[q] /\ at'[q] = at[q]
                                      /\ age'[q] = age[q] /\ fired'[q] = fired[q]
      BY <1>1, <1>t DEF TypeOK, StartPass, Exit, TakeTenant, AbortPass, EndPass, Cleanup, Stop
    <2>2. Backed(p)'
      BY <1>1, <1>t
         DEF Backed, Busy, LockBacked, TypeOK, StartPass, Exit, TakeTenant, AbortPass, EndPass,
             Cleanup, Stop
    <2>. QED BY <2>1, <2>2, OthersBacked
  <1>2. ASSUME NEW p \in Replica, Acquire(p) PROVE \A q \in Replica : Backed(q)'
    <2>1. pc[p] = "acquire" /\ at[p] \in Tenant /\ UNCHANGED <<age, fired>>
          /\ \A q \in Replica \ {p} : pc'[q] = pc[q] /\ at'[q] = at[q]
      BY <1>2, <1>t DEF Acquire, TypeOK
    <2>2. \A t \in Tenant : lock[t].holder \in Replica => lock'[t] = lock[t]
      BY <1>2, <1>t, <2>1, LockAssumption DEF Acquire, CanAcquire, TypeOK
    <2>3. Backed(p)'
      <3>1. CASE pc'[p] = "pass"
        BY <3>1 DEF Backed, Busy
      <3>2. CASE pc'[p] = "cleanup" /\ at' = at /\ lock'[at[p]] = Acquired(p)
        <4>1. lock'[at'[p]].holder = p /\ lock'[at'[p]].ttl = LockTTL
          BY <3>2, AcquiredBy
        <4>2. age'[p] \in Nat
          BY <1>t, <2>1, ReconciliationAssumption DEF TypeOK
        <4>. QED BY <3>2, <4>1, <4>2, LockAssumption DEF Backed, Busy
      <3>. QED BY <1>2, <1>t, <2>1, <3>1, <3>2 DEF Acquire, TypeOK
    <2>. QED BY <2>1, <2>2, <2>3, OthersBacked
  <1>3. ASSUME NEW p \in Replica, Release(p) PROVE \A q \in Replica : Backed(q)'
    <2>1. at[p] \in Tenant /\ UNCHANGED <<age, fired>> /\ pc'[p] = "pass"
          /\ \A q \in Replica \ {p} : pc'[q] = pc[q] /\ at'[q] = at[q]
      BY <1>3, <1>t DEF Release, TypeOK
    <2>2. \A t \in Tenant : lock[t].holder # p => lock'[t] = lock[t]
      BY <1>3, <1>t, <2>1, OthersKeepTheirs DEF Release, TypeOK
    <2>3. Backed(p)'
      BY <2>1 DEF Backed, Busy
    <2>. QED BY <2>1, <2>2, <2>3, OthersBacked
  <1>4. ASSUME NEW p \in Replica, Restart(p) PROVE \A q \in Replica : Backed(q)'
    <2>1. pc'[p] = "wait" /\ age'[p] = 0
          /\ \A q \in Replica \ {p} : /\ pc'[q] = pc[q] /\ at'[q] = at[q]
                                      /\ age'[q] = age[q] /\ fired'[q] = fired[q]
      BY <1>4, <1>t DEF Restart, TypeOK
    <2>2. \A t \in Tenant : lock[t].holder # p => lock'[t] = lock[t]
      BY <1>4, <1>t, OthersKeepTheirs DEF Restart, TypeOK
    <2>3. Backed(p)'
      BY <2>1 DEF Backed
    <2>. QED BY <2>1, <2>2, <2>3, OthersBacked
  <1>5. ASSUME Tick, NEW q \in Replica PROVE Backed(q)'
    <2>1. UNCHANGED <<pc, at>>
      BY <1>5 DEF Tick
    <2>2. ASSUME pc[q] \in Holding
          PROVE  lock'[at[q]].holder = q /\ lock'[at[q]].ttl + age'[q] >= LockTTL
      <3>1. at[q] \in Tenant /\ lock[at[q]] \in Lock /\ age[q] \in Nat
        BY <1>t, <2>2, ReconciliationAssumption DEF TypeOK
      <3>2. age[q] < PassDeadline /\ age'[q] = age[q] + 1
        BY <1>5, <2>2, <1>t DEF Tick, Busy, TypeOK
      <3>3. lock[at[q]].holder = q /\ lock[at[q]].ttl + age[q] >= LockTTL
        BY <1>t, <2>2 DEF LockBacked
      <3>4. lock'[at[q]] = Aged(lock[at[q]])
        BY <1>5, <3>1 DEF Tick
      <3>5. lock[at[q]].ttl \in Nat
        BY <3>1, LockType
      <3>6. lock[at[q]].ttl > 1
        BY ONLY <3>1, <3>2, <3>3, <3>5, LockAssumption, ReconciliationAssumption,
                LocksOutlivePasses DEF LocksOutlivePasses
      <3>7. lock'[at[q]].holder = q /\ lock'[at[q]].ttl = lock[at[q]].ttl - 1
        BY <3>1, <3>3, <3>4, <3>6, AgedKeepsHolder
      <3>. QED BY ONLY <3>1, <3>2, <3>3, <3>5, <3>7, LockAssumption
    <2>3. ~Busy(q)' => age'[q] = 0 \/ pc'[q] = "exited"
      <3>1. ~Busy(q)' => ~Busy(q)
        BY <1>5, <1>t DEF Tick, Busy, TypeOK
      <3>. QED BY <1>5, <1>t, <2>1, <3>1 DEF Tick, LockBacked, TypeOK
    <2>. QED BY <2>1, <2>2, <2>3 DEF Backed
  <1>6. CASE UNCHANGED vars
    BY <1>6, <1>t DEF vars, LockBacked, Backed, Busy
  <1>. QED BY <1>1, <1>2, <1>3, <1>4, <1>5, <1>6 DEF Next

\* Whoever cleans up a tenant owns its lock, for any replicas and tenants and
\* through cancellations, restarts and lost replies, as long as locks outlive
\* passes.
THEOREM CleanupBacked ==
    ASSUME LocksOutlivePasses
    PROVE  Spec => []CleanupInv
  <1>1. Init => CleanupInv
    BY TypeInit DEF Init, CleanupInv, LockBacked, Holding
  <1>2. CleanupInv /\ [Next]_vars => CleanupInv'
    BY TypeStep, BackedStep, LocksOutlivePasses DEF CleanupInv
  <1>. QED BY <1>1, <1>2, PTL DEF Spec

\* Every step from a state of the invariant is a step of Mutex, or none.
LEMMA MutexStep ==
    ASSUME CleanupInv, CleanupInv', [Next]_vars
    PROVE  CleanupMutex!Next \/ UNCHANGED Cleaning
  <1>. DEFINE In(t) == {p \in Replica : pc[p] \in Holding /\ at[p] = t}
  <1>. USE DEF Goto, Holding
  <1>t. TypeOK /\ TypeOK' /\ LockBacked'
    BY DEF CleanupInv
  <1>1. /\ Cleaning = [t \in Tenant |-> In(t)]
        /\ Cleaning' = [t \in Tenant |-> In(t)']
    BY DEF Cleaning
  <1>2. ASSUME \A t \in Tenant : In(t)' = In(t) PROVE UNCHANGED Cleaning
    BY <1>1, <1>2
  <1>3. ASSUME NEW p \in Replica, pc[p] \notin Holding, pc'[p] \notin Holding,
               \A q \in Replica \ {p} : pc'[q] = pc[q] /\ at'[q] = at[q]
        PROVE  UNCHANGED Cleaning
    BY <1>2, <1>3
  <1>4. ASSUME NEW p \in Replica, pc'[p] = pc[p], at'[p] = at[p],
               \A q \in Replica \ {p} : pc'[q] = pc[q] /\ at'[q] = at[q]
        PROVE  UNCHANGED Cleaning
    BY <1>2, <1>4
  <1>5. ASSUME NEW p \in Replica, NEW t \in Tenant, pc[p] \in Holding, at[p] = t,
               pc'[p] \notin Holding,
               \A q \in Replica \ {p} : pc'[q] = pc[q] /\ at'[q] = at[q]
        PROVE  CleanupMutex!Next
    <2>1. p \in In(t) /\ In(t)' = In(t) \ {p} /\ \A u \in Tenant \ {t} : In(u)' = In(u)
      BY <1>5
    <2>2. Cleaning' = [Cleaning EXCEPT ![t] = Cleaning[t] \ {p}]
      BY <1>1, <2>1
    <2>3. CleanupMutex!Leave(p, t)
      BY <1>1, <2>1, <2>2 DEF CleanupMutex!Leave
    <2>. QED BY <2>3 DEF CleanupMutex!Next
  <1>6. ASSUME NEW p \in Replica, NEW t \in Tenant, pc[p] \notin Holding, pc'[p] \in Holding,
               at'[p] = t, \A q \in Replica \ {p} : pc'[q] = pc[q] /\ at'[q] = at[q]
        PROVE  CleanupMutex!Next
    <2>1. \A q \in Replica : q \in In(t)' => q = p
      <3>1. lock'[t].holder = p
        BY <1>6, <1>t DEF LockBacked
      <3>. QED BY <1>t, <3>1 DEF LockBacked
    <2>2. In(t)' = {p} /\ In(t) = {} /\ \A u \in Tenant \ {t} : In(u)' = In(u)
      BY <1>6, <2>1
    <2>3. Cleaning' = [Cleaning EXCEPT ![t] = {p}]
      BY <1>1, <2>2
    <2>4. CleanupMutex!Enter(p, t)
      BY <1>1, <2>2, <2>3 DEF CleanupMutex!Enter
    <2>. QED BY <2>4 DEF CleanupMutex!Next
  <1>7. ASSUME NEW p \in Replica,
               StartPass(p) \/ Exit(p) \/ TakeTenant(p) \/ AbortPass(p) \/ EndPass(p)
        PROVE  UNCHANGED Cleaning
    BY <1>3, <1>7, <1>t DEF TypeOK, StartPass, Exit, TakeTenant, AbortPass, EndPass
  <1>8. ASSUME NEW p \in Replica, Acquire(p) PROVE CleanupMutex!Next \/ UNCHANGED Cleaning
    <2>1. pc[p] = "acquire" /\ at[p] \in Tenant
          /\ \A q \in Replica \ {p} : pc'[q] = pc[q] /\ at'[q] = at[q]
      BY <1>8, <1>t DEF TypeOK, Acquire
    <2>2. pc'[p] = "pass" \/ (pc'[p] = "cleanup" /\ at'[p] = at[p])
      BY <1>8, <1>t DEF TypeOK, Acquire
    <2>. QED BY <1>3, <1>6, <2>1, <2>2
  <1>9. ASSUME NEW p \in Replica, Cleanup(p) PROVE UNCHANGED Cleaning
    BY <1>2, <1>9, <1>t DEF TypeOK, Cleanup
  <1>10. ASSUME NEW p \in Replica, Release(p) \/ Restart(p)
         PROVE  CleanupMutex!Next \/ UNCHANGED Cleaning
    <2>1. pc'[p] \notin Holding /\ \A q \in Replica \ {p} : pc'[q] = pc[q] /\ at'[q] = at[q]
      BY <1>10, <1>t DEF TypeOK, Release, Restart
    <2>2. pc[p] \in Holding => at[p] \in Tenant
      BY <1>t DEF TypeOK
    <2>. QED BY <1>3, <1>5, <2>1, <2>2
  <1>11. CASE UNCHANGED <<pc, at>>
    BY <1>2, <1>11
  <1>. QED BY <1>7, <1>8, <1>9, <1>10, <1>11 DEF Next, Stop, Tick, vars

\* Reconciliation under the tenants' locks implements the abstract Mutex, one
\* resource per tenant.
THEOREM CleanupImplementsMutex ==
    ASSUME LocksOutlivePasses
    PROVE  Spec => ImplementsMutex
  <1>1. Init => CleanupMutex!Init
    BY DEF Init, CleanupMutex!Init, Cleaning, Holding
  <1>2. CleanupInv /\ CleanupInv' /\ [Next]_vars => [CleanupMutex!Next]_Cleaning
    BY MutexStep
  <1>. QED BY <1>1, <1>2, CleanupBacked, LocksOutlivePasses, PTL
           DEF Spec, ImplementsMutex, CleanupMutex!Spec

-----------------------------------------------------------------------------
(***************************************************************************)
(* Readiness.                                                              *)
(***************************************************************************)

\* Every step keeps the stamp of a running replica fresh: a tick ages it by one
\* and so it does the pass that is due, or brings the ticker closer.
LEMMA FreshStep ==
    ASSUME FreshInv, TypeOK', [Next]_vars
    PROVE  Fresh'
  <1>. USE ReconciliationAssumption DEF FreshInv, Fresh, TypeOK, Goto, clock, Busy
  <1>1. ASSUME NEW p \in Replica, StartPass(p) PROVE Fresh'
    BY <1>1 DEF StartPass
  <1>2. ASSUME NEW p \in Replica, Exit(p) PROVE Fresh'
    BY <1>2 DEF Exit
  <1>3. ASSUME NEW p \in Replica, TakeTenant(p) \/ AbortPass(p) PROVE Fresh'
    BY <1>3 DEF TakeTenant, AbortPass
  <1>4. ASSUME NEW p \in Replica, EndPass(p) PROVE Fresh'
    BY <1>4 DEF EndPass
  <1>5. ASSUME NEW p \in Replica, Acquire(p) \/ Cleanup(p) \/ Release(p) PROVE Fresh'
    <2>1. /\ pc[p] \notin {"wait", "exited"} /\ pc'[p] \notin {"wait", "exited"}
          /\ \A q \in Replica \ {p} : pc'[q] = pc[q]
          /\ UNCHANGED <<timer, fired, since, stopped, age>>
      BY <1>5 DEF Acquire, Cleanup, Release
    <2>. QED BY <2>1
  <1>6. ASSUME NEW p \in Replica, Stop(p) PROVE Fresh'
    BY <1>6 DEF Stop
  <1>7. ASSUME NEW p \in Replica, Restart(p) PROVE Fresh'
    BY <1>7 DEF Restart
  <1>8. ASSUME Tick PROVE Fresh'
    <2>. SUFFICES ASSUME NEW q \in Replica, ~stopped[q]
                  PROVE  /\ pc[q] # "exited"
                         /\ IF Busy(q)' THEN since'[q] <= Interval + age'[q]
                                        ELSE since'[q] + timer'[q] <= Interval
      BY <1>8 DEF Tick
    <2>1. since'[q] <= since[q] + 1
      BY <1>8 DEF Tick, Threshold
    <2>2. CASE Busy(q)
      <3>1. Busy(q)' /\ age'[q] = age[q] + 1
        BY <1>8, <2>2 DEF Tick
      <3>. QED BY <2>1, <2>2, <3>1
    <2>3. CASE ~Busy(q)
      <3>1. pc[q] = "wait" /\ ~fired[q] /\ since[q] + timer[q] <= Interval
        BY <2>3
      <3>2. /\ pc'[q] = "wait" /\ age'[q] \in Nat
            /\ since'[q] \in Nat /\ since[q] \in Nat /\ timer[q] \in Nat
        BY <1>8, <3>1 DEF Tick, Threshold
      <3>3. CASE timer[q] = 1
        <4>1. Busy(q)'
          BY <1>8, <3>2, <3>3 DEF Tick
        <4>. QED BY <2>1, <3>1, <3>2, <3>3, <4>1
      <3>4. CASE timer[q] # 1
        <4>1. timer'[q] = timer[q] - 1 /\ fired'[q] = FALSE
          BY <1>8, <3>1, <3>4 DEF Tick
        <4>. QED BY <2>1, <3>1, <3>2, <4>1
      <3>. QED BY <3>3, <3>4
    <2>. QED BY <2>2, <2>3
  <1>9. CASE UNCHANGED vars
    BY <1>9 DEF vars
  <1>. QED BY <1>1, <1>2, <1>3, <1>4, <1>5, <1>6, <1>7, <1>8, <1>9 DEF Next

\* A replica that is not shutting down is never declared unready by the
\* reconciler check, from its start on, provided that passes keep up with the
\* ticker: for any interval, and whatever fails.
THEOREM ReadinessHolds ==
    ASSUME PassesKeepUp
    PROVE  Spec => []ReadyWhileRunning
  <1>1. Init => FreshInv
    BY TypeInit, ReconciliationAssumption DEF Init, FreshInv, Fresh, Busy
  <1>2. FreshInv /\ [Next]_vars => FreshInv'
    BY TypeStep, FreshStep DEF FreshInv
  <1>3. FreshInv => ReadyWhileRunning
    BY ReconciliationAssumption, PassesKeepUp
       DEF FreshInv, Fresh, TypeOK, ReadyWhileRunning, Check, Threshold, PassesKeepUp
  <1>. QED BY <1>1, <1>2, <1>3, PTL DEF Spec
=============================================================================
