--------------------------- MODULE TenantRegistry ---------------------------
(***************************************************************************)
(* MultiTenantRegistry (internal/registry/multi_tenant.go): the lifecycle  *)
(* of tenants under one RWMutex, called by any number of goroutines, and   *)
(* the requests of the token handler, which look a tenant's manager up     *)
(* once and go on calling it without the lock.                             *)
(*                                                                         *)
(* Add and Remove talk to Redis while they hold the write lock, so each is *)
(* two steps; everything else is one.  Every Add builds a new stack of     *)
(* managers, here a number; a stack's key manager runs from Add to Remove. *)
(*                                                                         *)
(* Faults that may happen:                                                 *)
(*   start_err     the new stack does not start, or fails after its key    *)
(*                 manager has begun to run                                *)
(*   shutdown_err  the removed stack's key manager does not stop           *)
(***************************************************************************)
EXTENDS Naturals, Sequences, FiniteSets

CONSTANTS
    Admin,      \* goroutines that add, drain and remove tenants
    Req,        \* requests
    Tenant,     \* tenant ids
    Empty,      \* the empty tenant id
    MaxStacks,  \* bound on the stacks built
    Nobody,
    Faults

ASSUME RegistryAssumption ==
    /\ MaxStacks \in Nat
    /\ IsFiniteSet(Tenant)
    /\ Empty \notin Tenant
    /\ Nobody \notin Admin

NoStack == 0

VARIABLES
    writer,    \* who holds the RWMutex for writing
    op,        \* what each admin is in the middle of: [call, tenant]
    tenants,   \* the registry: tenant -> [stack, draining]
    running,   \* stacks whose key manager runs
    stuck,     \* history: of these, the ones whose Start or Shutdown failed
    built,     \* the tenants of the stacks built so far, in order
    gauge,     \* the active-tenants metric
    held,      \* the stack each request works with
    reply,     \* what each request's last call returned
    drained    \* history: stacks whose Drain has returned

vars == <<writer, op, tenants, running, stuck, built, gauge, held, reply, drained>>

NotThere == [stack |-> NoStack, draining |-> FALSE]
Idle     == [call |-> "none", tenant |-> Empty]

Registered == {t \in Tenant : tenants[t] # NotThere}

\* The type invariant.
TypeOK ==
    /\ writer \in Admin \cup {Nobody}
    /\ op \in [Admin -> [call : {"none", "Add", "Remove"}, tenant : Tenant \cup {Empty}]]
    /\ tenants \in [Tenant -> [stack : Nat, draining : BOOLEAN]]
    /\ built \in Seq(Tenant)
    /\ running \subseteq DOMAIN built
    /\ stuck \subseteq running
    /\ gauge \in Nat
    /\ held \in [Req -> Nat]
    /\ reply \in [Req -> {"none", "OK", "InvalidArgument", "NotFound", "Unavailable"}]
    /\ drained \subseteq DOMAIN built

-----------------------------------------------------------------------------
\* NewMultiTenantRegistry
Init ==
    /\ writer = Nobody
    /\ op = [a \in Admin |-> Idle]
    /\ tenants = [t \in Tenant |-> NotThere]
    /\ running = {}
    /\ stuck = {}
    /\ built = << >>
    /\ gauge = 0
    /\ held = [r \in Req |-> NoStack]
    /\ reply = [r \in Req |-> "none"]
    /\ drained = {}

\* mu.Lock() by an idle admin
Lock(a) == op[a] = Idle /\ writer = Nobody

\* Add: AlreadyExists, or go on to build and start the stack under the lock.
\* Calls with an empty tenant id or configuration return before the lock.
AddBegin(a, t) ==
    /\ Lock(a)
    /\ tenants[t] = NotThere
    /\ Len(built) < MaxStacks
    /\ writer' = a
    /\ op' = [op EXCEPT ![a] = [call |-> "Add", tenant |-> t]]
    /\ UNCHANGED <<tenants, running, stuck, built, gauge, held, reply, drained>>

Unlock(a) == writer' = Nobody /\ op' = [op EXCEPT ![a] = Idle]

\* Mutant: registered before it is started.
AddFinishEarly(a) ==
    LET t == op[a].tenant
        s == Len(built) + 1 IN
    /\ op[a].call = "Add"
    /\ built' = Append(built, t)
    /\ tenants' = [tenants EXCEPT ![t] = [stack |-> s, draining |-> FALSE]]
    /\ gauge' = Cardinality(Registered \cup {t})
    /\ \/ running' = running \cup {s}
       \/ "start_err" \in Faults /\ UNCHANGED running
    /\ Unlock(a)
    /\ UNCHANGED <<stuck, held, reply, drained>>

\* manager.Start; register the stack and set the gauge, or return the error.  Add
\* stops nothing on its way out: what a failed Start has set going stays.
AddFinish(a) ==
    LET t == op[a].tenant
        s == Len(built) + 1 IN
    /\ op[a].call = "Add"
    /\ built' = Append(built, t)
    /\ \/ /\ running' = running \cup {s}
          /\ tenants' = [tenants EXCEPT ![t] = [stack |-> s, draining |-> FALSE]]
          /\ gauge' = Cardinality(Registered \cup {t})
          /\ UNCHANGED stuck
       \/ /\ "start_err" \in Faults
          /\ \E left \in {{}, {s}} : running' = running \cup left /\ stuck' = stuck \cup left
          /\ UNCHANGED <<tenants, gauge>>
    /\ Unlock(a)
    /\ UNCHANGED <<held, reply, drained>>

\* Drain; NotFound changes nothing.
Drain(a, t) ==
    /\ Lock(a)
    /\ tenants[t] # NotThere
    /\ tenants' = [tenants EXCEPT ![t].draining = TRUE]
    /\ drained' = drained \cup {tenants[t].stack}
    /\ UNCHANGED <<writer, op, running, stuck, built, gauge, held, reply>>

\* Mutant: the drain precondition is not enforced.
RemoveBeginUndrained(a, t) ==
    /\ Lock(a)
    /\ tenants[t] # NotThere
    /\ writer' = a
    /\ op' = [op EXCEPT ![a] = [call |-> "Remove", tenant |-> t]]
    /\ UNCHANGED <<tenants, running, stuck, built, gauge, held, reply, drained>>

\* Remove: NotFound, FailedPrecondition unless draining, or go on to stop the
\* key manager under the lock.
RemoveBegin(a, t) ==
    /\ Lock(a)
    /\ tenants[t] # NotThere /\ tenants[t].draining
    /\ writer' = a
    /\ op' = [op EXCEPT ![a] = [call |-> "Remove", tenant |-> t]]
    /\ UNCHANGED <<tenants, running, stuck, built, gauge, held, reply, drained>>

\* Mutant: the entry is deleted and nothing is stopped.
RemoveFinishRunning(a) ==
    LET t == op[a].tenant IN
    /\ op[a].call = "Remove"
    /\ tenants' = [tenants EXCEPT ![t] = NotThere]
    /\ gauge' = Cardinality(Registered \ {t})
    /\ Unlock(a)
    /\ UNCHANGED <<running, stuck, built, held, reply, drained>>

\* km.Shutdown, whose error is only logged; then the entry goes.
RemoveFinish(a) ==
    LET t == op[a].tenant IN
    /\ op[a].call = "Remove"
    /\ \/ running' = running \ {tenants[t].stack} /\ UNCHANGED stuck
       \/ /\ "shutdown_err" \in Faults
          /\ stuck' = stuck \cup {tenants[t].stack}
          /\ UNCHANGED running
    /\ tenants' = [tenants EXCEPT ![t] = NotThere]
    /\ gauge' = Cardinality(Registered \ {t})
    /\ Unlock(a)
    /\ UNCHANGED <<built, held, reply, drained>>

\* Mutant: Get does not look at the draining flag.
GetDraining(r, t) ==
    /\ held[r] = NoStack
    /\ writer = Nobody
    /\ t # Empty /\ tenants[t] # NotThere
    /\ held' = [held EXCEPT ![r] = tenants[t].stack]
    /\ reply' = [reply EXCEPT ![r] = "none"]
    /\ UNCHANGED <<writer, op, tenants, running, stuck, built, gauge, drained>>

\* Get, under the read lock: the request keeps the manager it is given.
Get(r, t) ==
    /\ held[r] = NoStack
    /\ \/ /\ t = Empty
          /\ reply' = [reply EXCEPT ![r] = "InvalidArgument"]
          /\ UNCHANGED held
       \/ /\ t # Empty /\ writer = Nobody
          /\ tenants[t] = NotThere \/ tenants[t].draining
          /\ reply' = [reply EXCEPT ![r] = "NotFound"]
          /\ UNCHANGED held
       \/ /\ t # Empty /\ writer = Nobody
          /\ tenants[t] # NotThere /\ ~tenants[t].draining
          /\ held' = [held EXCEPT ![r] = tenants[t].stack]
          /\ reply' = [reply EXCEPT ![r] = "none"]
    /\ UNCHANGED <<writer, op, tenants, running, stuck, built, gauge, drained>>

\* A library call of the handler.  On a stopped key manager it may answer
\* ErrManagerNotRunning, which ends the request with Unavailable.
Use(r) ==
    /\ held[r] # NoStack
    /\ \/ /\ reply' = [reply EXCEPT ![r] = "OK"]
          /\ UNCHANGED held
       \/ /\ held[r] \notin running
          /\ reply' = [reply EXCEPT ![r] = "Unavailable"]
          /\ held' = [held EXCEPT ![r] = NoStack]
    /\ UNCHANGED <<writer, op, tenants, running, stuck, built, gauge, drained>>

\* The RPC returns.
Return(r) ==
    /\ held[r] # NoStack
    /\ held' = [held EXCEPT ![r] = NoStack]
    /\ UNCHANGED <<writer, op, tenants, running, stuck, built, gauge, reply, drained>>

Next ==
    \/ \E a \in Admin : \/ \E t \in Tenant : AddBegin(a, t) \/ Drain(a, t) \/ RemoveBegin(a, t)
                        \/ AddFinish(a) \/ RemoveFinish(a)
    \/ \E r \in Req : \/ \E t \in Tenant \cup {Empty} : Get(r, t)
                      \/ Use(r) \/ Return(r)

Spec == Init /\ [][Next]_vars

-----------------------------------------------------------------------------
\* ADR-007: tenants' key material is isolated.  No two key managers ever run on
\* one tenant's keys, through any sequence of adds and removals by several
\* goroutines, apart from removed ones whose Shutdown failed and unregistered ones
\* whose Start failed half way.
OneRunningStack == \A s, u \in running \ stuck : built[s] = built[u] => s = u

\* "Drain marks tenantID as draining so subsequent Get calls return
\* codes.NotFound": once Drain has returned, nobody is given that stack, also
\* while the tenant is being removed and added again.
DrainFence ==
    [][\A r \in Req : held'[r] # held[r] /\ held'[r] # NoStack => held'[r] \notin drained]_vars

\* A request's manager is only ever stopped under it when its tenant was
\* drained after the request had looked it up.
CutOffOnlyByDrain ==
    \A r \in Req : held[r] # NoStack /\ held[r] \notin running => held[r] \in drained

-----------------------------------------------------------------------------
(***************************************************************************)
(* The inductive invariant behind the three.                               *)
(***************************************************************************)

\* The mutex is held by the admin that is in the middle of a call.
LockHeld == \A a \in Admin : op[a] # Idle <=> writer = a

\* A registered stack runs and belongs to its tenant, and nothing else runs
\* but what refused to stop or was left behind by a failed start.
RegisteredRuns ==
    /\ \A t \in Registered : /\ tenants[t].stack \in running \ stuck
                              /\ built[tenants[t].stack] = t
    /\ \A s \in running \ stuck : tenants[built[s]].stack = s
    /\ \A a \in Admin : op[a].call = "Add" => op[a].tenant \in Tenant \ Registered
    /\ \A a \in Admin : op[a].call = "Remove" => /\ op[a].tenant \in Registered
                                                /\ tenants[op[a].tenant].draining

\* The metric counts the registered tenants, draining ones included.
GaugeExact == gauge = Cardinality(Registered)

\* Draining is recorded, and what requests hold runs or was drained.
DrainRecorded ==
    /\ \A t \in Registered : tenants[t].draining <=> tenants[t].stack \in drained
    /\ \A r \in Req : held[r] # NoStack => held[r] \in running \cup drained

RegistryInv == TypeOK /\ LockHeld /\ RegisteredRuns /\ DrainRecorded /\ GaugeExact
=============================================================================
