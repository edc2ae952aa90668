--------------------------- MODULE Reconciliation ---------------------------
(***************************************************************************)
(* The reconciler (internal/reconciliation/cursor_reconciler.go), the      *)
(* goroutine of cmd/token-engine/main.go that runs it on every replica,    *)
(* and the readiness check (internal/health/health.go) that watches it.    *)
(*                                                                         *)
(* A pass goes through the tenants in any order (Go's map iteration), and  *)
(* cleans up each one under that tenant's lock.  Shutdown cancels the      *)
(* context of the pass: from then on every Redis command of it fails.      *)
(*                                                                         *)
(* Faults that may happen:                                                 *)
(*   acquire_err  Acquire fails and the lock is not taken                  *)
(*   acquire_lost the lock is taken but Acquire's reply is lost            *)
(*   release_err  the lock is not released                                 *)
(*   stop         the replica is told to shut down                         *)
(*   crash        the replica dies and a replacement starts                *)
(***************************************************************************)
EXTENDS RedisLock

CONSTANTS
    Tenant,        \* the tenants registered when the reconciler was built
    Interval,      \* cfg.ReconciliationInterval, in ticks
    PassDeadline,  \* longest time from a ticker's tick to the end of the pass
                   \* it starts, in ticks
    NoTenant,
    Faults

ASSUME ReconciliationAssumption ==
    /\ Interval \in Nat \ {0}      \* time.NewTicker panics on 0
    /\ PassDeadline \in Nat
    /\ NoTenant \notin Tenant

VARIABLES
    pc,        \* where each replica's goroutine is
    at,        \* the tenant it is processing
    todo,      \* tenants its pass has not come to yet
    timer,     \* ticks until its ticker fires
    fired,     \* the ticker channel (capacity 1) holds a tick
    stopped,   \* its context is cancelled
    since,     \* ticks since lastSuccessAt, counted to one past the threshold
    age,       \* ticks since its pass became due
    lock       \* Redis: tenant -> locks:reconciliation:<tenant>

vars == <<pc, at, todo, timer, fired, stopped, since, age, lock>>
clock == <<timer, fired, since>>

\* Mutant: a threshold of one interval.
OneInterval == Interval

\* The staleness main.go lets the reconciler checker tolerate.
Threshold == 2 * Interval

\* ReconcilerChecker.Check: is the replica ready, as far as the reconciler goes?
Check(p) == since[p] <= Threshold

Holding == {"cleanup", "release"}
Stages  == Holding \cup {"wait", "pass", "acquire", "exited"}

\* The type invariant.
TypeOK ==
    /\ pc \in [Replica -> Stages]
    /\ at \in [Replica -> Tenant \cup {NoTenant}]
    /\ todo \in [Replica -> SUBSET Tenant]
    /\ timer \in [Replica -> 1 .. Interval]
    /\ fired \in [Replica -> BOOLEAN]
    /\ stopped \in [Replica -> BOOLEAN]
    /\ since \in [Replica -> 0 .. Threshold + 1]
    /\ age \in [Replica -> 0 .. PassDeadline]
    /\ lock \in [Tenant -> Lock]
    /\ \A p \in Replica : pc[p] \in Holding \cup {"acquire"} <=> at[p] # NoTenant

-----------------------------------------------------------------------------
\* Replicas start at different moments; NewCursorReconciler stamps its start.
Init ==
    /\ pc = [p \in Replica |-> "wait"]
    /\ at = [p \in Replica |-> NoTenant]
    /\ todo = [p \in Replica |-> {}]
    /\ timer \in [Replica -> 1 .. Interval]
    /\ fired = [p \in Replica |-> FALSE]
    /\ stopped = [p \in Replica |-> FALSE]
    /\ since = [p \in Replica |-> Interval - timer[p]]
    /\ age = [p \in Replica |-> 0]
    /\ lock = [t \in Tenant |-> Free]

Goto(p, stage) == pc' = [pc EXCEPT ![p] = stage]

\* May this Redis command of p fail?  All do once the context is cancelled.
MayFail(p, fault) == fault \in Faults \/ stopped[p]

\* case <-ticker.C: Run starts a pass over all tenants.
StartPass(p) ==
    /\ pc[p] = "wait" /\ fired[p]
    /\ Goto(p, "pass")
    /\ todo' = [todo EXCEPT ![p] = Tenant]
    /\ fired' = [fired EXCEPT ![p] = FALSE]
    /\ UNCHANGED <<at, timer, stopped, since, age, lock>>

\* Mutant: break instead of return, which only leaves the select.
ExitBreaks(p) == pc[p] = "wait" /\ stopped[p] /\ UNCHANGED vars

\* case <-ctx.Done(): the goroutine returns.
Exit(p) ==
    /\ pc[p] = "wait" /\ stopped[p]
    /\ Goto(p, "exited")
    /\ UNCHANGED <<at, todo, clock, stopped, age, lock>>

\* The next tenant, unless the context is cancelled.
TakeTenant(p) ==
    /\ pc[p] = "pass" /\ ~stopped[p]
    /\ \E t \in todo[p] :
         /\ at' = [at EXCEPT ![p] = t]
         /\ todo' = [todo EXCEPT ![p] = todo[p] \ {t}]
    /\ Goto(p, "acquire")
    /\ UNCHANGED <<clock, stopped, age, lock>>

\* The pass is over: this one returned early, its time does not count.
AbortPass(p) ==
    /\ pc[p] = "pass" /\ stopped[p] /\ todo[p] # {}
    /\ Goto(p, "wait")
    /\ todo' = [todo EXCEPT ![p] = {}]
    /\ age' = [age EXCEPT ![p] = 0]
    /\ UNCHANGED <<at, clock, stopped, lock>>

\* All tenants were visited: lastSuccessAt.Store(now).
EndPass(p) ==
    /\ pc[p] = "pass" /\ todo[p] = {}
    /\ Goto(p, "wait")
    /\ since' = [since EXCEPT ![p] = 0]
    /\ age' = [age EXCEPT ![p] = 0]
    /\ UNCHANGED <<at, todo, timer, fired, stopped, lock>>

\* Mutant: the result of Acquire is ignored.
AcquireAlways(p) ==
    LET l == lock[at[p]] IN
    /\ pc[p] = "acquire"
    /\ Goto(p, "cleanup")
    /\ lock' = [lock EXCEPT ![at[p]] = IF CanAcquire(l) THEN Acquired(p) ELSE l]
    /\ UNCHANGED <<at, todo, clock, stopped, age>>

Acquire(p) ==
    LET t == at[p] IN
    /\ pc[p] = "acquire"
    /\ \/ /\ CanAcquire(lock[t]) /\ ~stopped[p]
          /\ Goto(p, "cleanup")
          /\ lock' = [lock EXCEPT ![t] = Acquired(p)]
          /\ UNCHANGED at
       \/ /\ ~CanAcquire(lock[t]) \/ MayFail(p, "acquire_err")
          /\ Goto(p, "pass")
          /\ at' = [at EXCEPT ![p] = NoTenant]
          /\ UNCHANGED lock
       \/ /\ "acquire_lost" \in Faults /\ CanAcquire(lock[t])
          /\ Goto(p, "pass")
          /\ at' = [at EXCEPT ![p] = NoTenant]
          /\ lock' = [lock EXCEPT ![t] = Acquired(Orphan)]
    /\ UNCHANGED <<todo, clock, stopped, age>>

\* CleanupExpiredTokens of the tenant; an error is only logged.
Cleanup(p) ==
    /\ pc[p] = "cleanup"
    /\ Goto(p, "release")
    /\ UNCHANGED <<at, todo, clock, stopped, age, lock>>

\* The deferred Release, with the context of the pass.
Release(p) ==
    LET t == at[p] IN
    /\ pc[p] = "release"
    /\ Goto(p, "pass")
    /\ at' = [at EXCEPT ![p] = NoTenant]
    /\ \/ ~stopped[p] /\ lock' = [lock EXCEPT ![t] = Released(lock[t], p)]
       \/ MayFail(p, "release_err") /\ lock' = [lock EXCEPT ![t] = Abandoned(lock[t], p)]
    /\ UNCHANGED <<todo, clock, stopped, age>>

\* SIGTERM cancels the context.
Stop(p) ==
    /\ "stop" \in Faults
    /\ ~stopped[p]
    /\ stopped' = [stopped EXCEPT ![p] = TRUE]
    /\ UNCHANGED <<pc, at, todo, clock, age, lock>>

\* A replacement for a replica that has shut down or died: new goroutine, new
\* ticker, new stamp; the old one's lock handle is gone.
Restart(p) ==
    /\ pc[p] = "exited" \/ "crash" \in Faults
    /\ Goto(p, "wait")
    /\ at' = [at EXCEPT ![p] = NoTenant]
    /\ todo' = [todo EXCEPT ![p] = {}]
    /\ timer' = [timer EXCEPT ![p] = Interval]
    /\ fired' = [fired EXCEPT ![p] = FALSE]
    /\ stopped' = [stopped EXCEPT ![p] = FALSE]
    /\ since' = [since EXCEPT ![p] = 0]
    /\ age' = [age EXCEPT ![p] = 0]
    /\ lock' = [t \in Tenant |-> Abandoned(lock[t], p)]

\* A pass is due or under way.
Busy(p) == pc[p] # "exited" /\ (fired[p] \/ pc[p] # "wait")

\* One tick.  No pass ends later than PassDeadline after it became due.
Tick ==
    /\ \A p \in Replica : Busy(p) => age[p] < PassDeadline
    /\ timer' = [p \in Replica |-> IF timer[p] = 1 THEN Interval ELSE timer[p] - 1]
    /\ fired' = [p \in Replica |-> fired[p] \/ timer[p] = 1]
    /\ since' = [p \in Replica |-> IF since[p] > Threshold THEN since[p] ELSE since[p] + 1]
    /\ age' = [p \in Replica |-> IF Busy(p) THEN age[p] + 1 ELSE age[p]]
    /\ lock' = [t \in Tenant |-> Aged(lock[t])]
    /\ UNCHANGED <<pc, at, todo, stopped>>

Next ==
    \/ \E p \in Replica : \/ StartPass(p) \/ Exit(p) \/ TakeTenant(p) \/ AbortPass(p)
                          \/ EndPass(p) \/ Acquire(p) \/ Cleanup(p) \/ Release(p)
                          \/ Stop(p) \/ Restart(p)
    \/ Tick

Spec == Init /\ [][Next]_vars

(***************************************************************************)
(* Goroutines are scheduled and time passes.  When the ticker and          *)
(* ctx.Done() are both ready, Go's select picks one at random: Exit cannot *)
(* lose for ever, hence strong fairness.                                   *)
(***************************************************************************)
Fairness ==
    /\ \A p \in Replica :
         /\ WF_vars(StartPass(p)) /\ WF_vars(TakeTenant(p)) /\ WF_vars(AbortPass(p))
         /\ WF_vars(EndPass(p)) /\ WF_vars(Acquire(p))
         /\ WF_vars(Cleanup(p)) /\ WF_vars(Release(p))
         /\ SF_vars(Exit(p))
    /\ WF_vars(Tick)

FairSpec == Spec /\ Fairness

-----------------------------------------------------------------------------
(***************************************************************************)
(* Safety.                                                                 *)
(***************************************************************************)

\* ADR-009: reconciliations of one tenant do not run concurrently.  Cleanup
\* under the tenant's lock implements Mutex, as long as a pass takes less than
\* the lock's TTL.
Cleaning == [t \in Tenant |-> {p \in Replica : pc[p] \in Holding /\ at[p] = t}]
CleanupMutex == INSTANCE Mutex WITH Proc <- Replica, Res <- Tenant, inside <- Cleaning
ImplementsMutex == CleanupMutex!Spec

\* A replica whose passes take no longer than the interval is never taken out
\* of service by the reconciler check, from its start on and whatever tenants
\* it has to skip: two intervals are enough for the phase of the ticker plus
\* the duration of a pass.
ReadyWhileRunning == \A p \in Replica : ~stopped[p] => Check(p)

(***************************************************************************)
(* Liveness, under FairSpec.                                               *)
(***************************************************************************)

\* A cancelled goroutine returns, in whatever stage of a pass the cancellation
\* finds it.
StopEndsIt == \A p \in Replica : stopped[p] ~> (pc[p] = "exited" \/ ~stopped[p])

-----------------------------------------------------------------------------
(***************************************************************************)
(* The operating conditions of the theorems, and the inductive invariants  *)
(* behind ImplementsMutex and ReadyWhileRunning.                           *)
(***************************************************************************)

\* A pass is over before a lock taken during it can expire.
LocksOutlivePasses == PassDeadline < LockTTL

\* A pass is over when the next one becomes due.
PassesKeepUp == PassDeadline <= Interval

\* Whoever cleans up a tenant still owns its lock: the lock was taken during
\* the pass, so it is not older than the pass.
LockBacked ==
    \A p \in Replica :
        /\ pc[p] \in Holding => /\ lock[at[p]].holder = p
                               /\ lock[at[p]].ttl + age[p] >= LockTTL
        /\ ~Busy(p) => age[p] = 0 \/ pc[p] = "exited"

CleanupInv == TypeOK /\ LockBacked

\* Between passes the last success is not older than the ticker's period has
\* run; when a pass is due or under way, not older than one interval plus the
\* pass.
Fresh ==
    \A p \in Replica : ~stopped[p] =>
        /\ pc[p] # "exited"
        /\ IF Busy(p) THEN since[p] <= Interval + age[p]
                      ELSE since[p] + timer[p] <= Interval

FreshInv == TypeOK /\ Fresh
=============================================================================
