----------------------------- MODULE RedisLock -----------------------------
(***************************************************************************)
(* The distributed lock of internal/lock/lock.go as operators on the Redis *)
(* value at one lock key.                                                  *)
(*                                                                         *)
(* The value is the UUID its Acquire call generated.  Only whether a       *)
(* replica still holds the handle with that UUID matters, and a replica    *)
(* has at most one handle per key, so the UUID is abstracted to the        *)
(* replica holding the handle, or to Orphan when nobody holds it any more  *)
(* (the handle was dropped, or the replica died, with the key still set).  *)
(* Time is counted in ticks; ttl 0 is a key without expiry.                *)
(***************************************************************************)
EXTENDS Naturals

CONSTANTS
    Replica,   \* replicas of the service
    LockTTL,   \* cfg.LockTTL, in ticks
    NoOne,     \* the lock key does not exist
    Orphan     \* a token that no handle holds

ASSUME LockAssumption ==
    /\ LockTTL \in Nat
    /\ NoOne \notin Replica /\ Orphan \notin Replica /\ NoOne # Orphan

Lock == [holder : Replica \cup {NoOne, Orphan}, ttl : Nat]

Free == [holder |-> NoOne, ttl |-> 0]

\* SET key token NX PX ttl: succeeds only if the key does not exist.
CanAcquire(l) == l.holder = NoOne

\* Mutant: the key is set without PX.
AcquiredWithoutTTL(p) == [holder |-> p, ttl |-> 0]

Acquired(p) == [holder |-> p, ttl |-> LockTTL]

\* Mutant: DEL without comparing the token.
ReleasedUnchecked(l, p) == Free

\* The Lua script: delete the key if it still has the caller's token.
Released(l, p) == IF l.holder = p THEN Free ELSE l

\* The handle is gone without a (successful) release.
Abandoned(l, p) == IF l.holder = p THEN [l EXCEPT !.holder = Orphan] ELSE l

\* One tick of Redis's clock.
Aged(l) == IF l.ttl = 0 THEN l
           ELSE IF l.ttl = 1 THEN Free
           ELSE [l EXCEPT !.ttl = l.ttl - 1]
=============================================================================
