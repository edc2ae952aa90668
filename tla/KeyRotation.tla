---------------------------- MODULE KeyRotation ----------------------------
(***************************************************************************)
(* The key rotation guard of cmd/token-engine/main.go for one tenant: on   *)
(* every replica a goroutine wakes once per RotationWindowGuard, skips if  *)
(* the last generation is too recent, and otherwise rotates the keys under *)
(* the tenant's rotation lock.  Tenants share no keys and no goroutines.   *)
(*                                                                         *)
(* Faults that may happen:                                                 *)
(*   get_err      the read of the last generation time fails (it is then   *)
(*                treated as if there were none)                           *)
(*   acquire_err  Acquire fails and the lock is not taken                  *)
(*   acquire_lost the lock is taken but Acquire's reply is lost            *)
(*   rotate_err   RotateKeys fails, before or after a new key exists       *)
(*   set_err      the new generation time is not written                   *)
(*   release_err  the lock is not released                                 *)
(*   crash        the replica dies, or its context is cancelled by         *)
(*                shutdown, and a replacement starts                       *)
(***************************************************************************)
EXTENDS RedisLock

CONSTANTS
    Guard,           \* cfg.RotationWindowGuard, in ticks
    RotateDeadline,  \* longest time from Acquire to Release, in ticks
    Faults

ASSUME RotationAssumption ==
    /\ Guard \in Nat \ {0}     \* time.NewTicker panics on 0
    /\ RotateDeadline \in Nat

VARIABLES
    pc,        \* where each replica's goroutine is
    timer,     \* ticks until each replica's ticker fires
    fired,     \* the ticker channel (capacity 1) holds a tick
    lock,      \* Redis: locks:key_rotation:<tenant>
    lastGen,   \* Redis: ticks since the stored generation time, capped at
               \* Guard; Guard when there is none
    age,       \* ticks since the replica acquired the lock
    sinceKey,  \* history: ticks since a key was generated, capped at Guard
    sinceOwn   \* history: the same, for keys this replica generated

vars == <<pc, timer, fired, lock, lastGen, age, sinceKey, sinceOwn>>

Critical == {"rotate", "stamp"}
Holding  == Critical \cup {"release"}

\* The type invariant.
TypeOK ==
    /\ pc \in [Replica -> Holding \cup {"wait", "acquire"}]
    /\ timer \in [Replica -> 1 .. Guard]
    /\ fired \in [Replica -> BOOLEAN]
    /\ lock \in Lock
    /\ lastGen \in 0 .. Guard
    /\ age \in [Replica -> 0 .. RotateDeadline]
    /\ sinceKey \in 0 .. Guard
    /\ sinceOwn \in [Replica -> 0 .. Guard]

-----------------------------------------------------------------------------
\* Replicas start at different moments, so their tickers are out of phase.
Init ==
    /\ pc = [p \in Replica |-> "wait"]
    /\ timer \in [Replica -> 1 .. Guard]
    /\ fired = [p \in Replica |-> FALSE]
    /\ lock = Free
    /\ lastGen \in {0, Guard}
    /\ age = [p \in Replica |-> 0]
    /\ sinceKey = lastGen
    /\ sinceOwn = [p \in Replica |-> Guard]

Goto(p, stage) == pc' = [pc EXCEPT ![p] = stage]
ToWait(p) == Goto(p, "wait") /\ age' = [age EXCEPT ![p] = 0]

(***************************************************************************)
(* case <-ticker.C: read the last generation time, skip within the guard.  *)
(***************************************************************************)
CheckGuard(p) ==
    /\ pc[p] = "wait" /\ fired[p]
    /\ fired' = [fired EXCEPT ![p] = FALSE]
    /\ \/ lastGen < Guard /\ UNCHANGED pc
       \/ lastGen >= Guard /\ Goto(p, "acquire")
       \/ "get_err" \in Faults /\ Goto(p, "acquire")
    /\ UNCHANGED <<timer, lock, lastGen, age, sinceKey, sinceOwn>>

\* Mutant: the result of Acquire is ignored.
AcquireAlways(p) ==
    /\ pc[p] = "acquire"
    /\ Goto(p, "rotate")
    /\ lock' = IF CanAcquire(lock) THEN Acquired(p) ELSE lock
    /\ UNCHANGED <<timer, fired, lastGen, age, sinceKey, sinceOwn>>

Acquire(p) ==
    /\ pc[p] = "acquire"
    /\ \/ CanAcquire(lock) /\ Goto(p, "rotate") /\ lock' = Acquired(p)
       \/ /\ ~CanAcquire(lock) \/ "acquire_err" \in Faults
          /\ Goto(p, "wait") /\ UNCHANGED lock
       \/ /\ "acquire_lost" \in Faults /\ CanAcquire(lock)
          /\ Goto(p, "wait") /\ lock' = Acquired(Orphan)
    /\ UNCHANGED <<timer, fired, lastGen, age, sinceKey, sinceOwn>>

KeyGenerated(p) == sinceKey' = 0 /\ sinceOwn' = [sinceOwn EXCEPT ![p] = 0]

Rotate(p) ==
    /\ pc[p] = "rotate"
    /\ \/ Goto(p, "stamp") /\ KeyGenerated(p)
       \/ /\ "rotate_err" \in Faults
          /\ Goto(p, "release")
          /\ KeyGenerated(p) \/ UNCHANGED <<sinceKey, sinceOwn>>
    /\ UNCHANGED <<timer, fired, lock, lastGen, age>>

\* Mutant: the generation time is never written.
StampForgotten(p) ==
    /\ pc[p] = "stamp"
    /\ Goto(p, "release")
    /\ UNCHANGED <<timer, fired, lock, lastGen, age, sinceKey, sinceOwn>>

Stamp(p) ==
    /\ pc[p] = "stamp"
    /\ \/ lastGen' = 0
       \/ "set_err" \in Faults /\ UNCHANGED lastGen
    /\ Goto(p, "release")
    /\ UNCHANGED <<timer, fired, lock, age, sinceKey, sinceOwn>>

Release(p) ==
    /\ pc[p] = "release"
    /\ \/ lock' = Released(lock, p)
       \/ "release_err" \in Faults /\ lock' = Abandoned(lock, p)
    /\ ToWait(p)
    /\ UNCHANGED <<timer, fired, lastGen, sinceKey, sinceOwn>>

\* The replacement replica starts a ticker of its own.
Crash(p) ==
    /\ "crash" \in Faults
    /\ pc[p] # "wait"
    /\ ToWait(p)
    /\ lock' = Abandoned(lock, p)
    /\ timer' = [timer EXCEPT ![p] = Guard]
    /\ fired' = [fired EXCEPT ![p] = FALSE]
    /\ UNCHANGED <<lastGen, sinceKey, sinceOwn>>

Older(n) == IF n < Guard THEN n + 1 ELSE n

\* One tick.  Nobody holds the lock's handle for longer than RotateDeadline.
Tick ==
    /\ \A p \in Replica : pc[p] \in Holding => age[p] < RotateDeadline
    /\ timer' = [p \in Replica |-> IF timer[p] = 1 THEN Guard ELSE timer[p] - 1]
    /\ fired' = [p \in Replica |-> fired[p] \/ timer[p] = 1]
    /\ lock' = Aged(lock)
    /\ lastGen' = Older(lastGen)
    /\ age' = [p \in Replica |-> IF pc[p] \in Holding THEN age[p] + 1 ELSE age[p]]
    /\ sinceKey' = Older(sinceKey)
    /\ sinceOwn' = [p \in Replica |-> Older(sinceOwn[p])]
    /\ UNCHANGED pc

Next ==
    \/ \E p \in Replica : \/ CheckGuard(p) \/ Acquire(p) \/ Rotate(p)
                          \/ Stamp(p) \/ Release(p) \/ Crash(p)
    \/ Tick

Spec == Init /\ [][Next]_vars

AcquireOK(p) == Acquire(p) /\ lock'.holder = p

(***************************************************************************)
(* Goroutines are scheduled and time passes.  Nothing forces a failure: a  *)
(* lost reply or a crash may strike any attempt to rotate, but not all of  *)
(* a replica's attempts for ever.                                          *)
(***************************************************************************)
Fairness ==
    /\ \A p \in Replica :
         /\ WF_vars(CheckGuard(p)) /\ WF_vars(Acquire(p)) /\ SF_vars(AcquireOK(p))
         /\ SF_vars(Rotate(p)) /\ WF_vars(Stamp(p)) /\ WF_vars(Release(p))
    /\ WF_vars(Tick)

FairSpec == Spec /\ Fairness

-----------------------------------------------------------------------------
(***************************************************************************)
(* Safety.                                                                 *)
(***************************************************************************)

\* ADR-009: rotations "must not execute concurrently against the same tenant's
\* data".  Rotation under the lock implements Mutex: at most one replica is
\* between a successful Acquire and the write of the generation time, as long
\* as rotations are faster than the lock's TTL.
Rotating == [x \in {"keys"} |-> {p \in Replica : pc[p] \in Critical}]
RotationMutex == INSTANCE Mutex WITH Proc <- Replica, Res <- {"keys"}, inside <- Rotating
ImplementsMutex == RotationMutex!Spec

LockLeftByHolder ==
    \A q \in Replica :
        lock.holder = q /\ lock'.holder = NoOne =>
            lock.ttl = 1 \/ (pc[q] = "release" /\ pc'[q] = "wait")

\* A lock disappears only because its holder released it or because it expired:
\* no Release deletes a lock that another replica acquired meanwhile, however
\* late it comes.
ReleaseOnlyOwn == [][LockLeftByHolder]_vars

OwnKeyAfterGuard ==
    \A p \in Replica :
        pc[p] = "rotate" /\ pc'[p] # "rotate" /\ sinceOwn'[p] = 0 => sinceOwn[p] = Guard

\* A replica never generates two keys within one guard window, unless a Redis
\* read or write of the generation time failed: what it wrote holds it back.
OwnRotationsApart == [][OwnKeyAfterGuard]_vars

\* "RotationWindowGuard is the minimum time since last key generation before a
\* new key is generated" (internal/config/config.go), for all replicas together.
RotationsApart ==
    [][\A p \in Replica :
         pc[p] = "rotate" /\ pc'[p] # "rotate" /\ sinceOwn'[p] = 0 => sinceKey = Guard]_vars

(***************************************************************************)
(* Liveness, under FairSpec.                                               *)
(***************************************************************************)

\* Keys keep being rotated: no phase of the tickers lets the guard and the lock
\* hold every replica back for good.
KeysKeepRotating == []<>(\E p \in Replica : pc[p] = "stamp")

\* Nobody keeps the lock for good, not even a replica that died with it.
LockFreed == \A h \in Replica \cup {Orphan} : lock.holder = h ~> lock.holder # h

-----------------------------------------------------------------------------
(***************************************************************************)
(* The operating conditions of the theorems, and the inductive invariants  *)
(* behind ImplementsMutex and OwnRotationsApart.                           *)
(***************************************************************************)

\* Rotations are faster than the lock's TTL.
TimelyRotations == RotateDeadline < LockTTL

\* Every key that is generated is followed by the write of its time, and every
\* read of that time succeeds.
ReliableStamps == Faults \cap {"get_err", "rotate_err", "set_err", "crash"} = {}

\* Whoever is in the critical section still owns the lock, and the lock's
\* remaining life is what the TTL leaves after the replica's age.
LockBacked ==
    \A p \in Replica :
        /\ pc[p] \in Holding => lock.holder = p /\ lock.ttl + age[p] = LockTTL
        /\ pc[p] \notin Holding => age[p] = 0

RotationInv == TypeOK /\ LockBacked

\* A replica that may still rotate has generated no key for a guard window, and
\* outside rotations Redis never dates the last generation before its own.
OwnStamped ==
    \A p \in Replica :
        /\ pc[p] \in {"acquire", "rotate"} => sinceOwn[p] = Guard
        /\ pc[p] \in {"wait", "release"} => lastGen <= sinceOwn[p]

OwnInv == TypeOK /\ OwnStamped
=============================================================================
