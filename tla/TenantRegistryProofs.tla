------------------------ MODULE TenantRegistryProofs ------------------------
(***************************************************************************)
(* Proofs about TenantRegistry, for any goroutines, requests and tenants   *)
(* and any bound on the stacks built.                                      *)
(***************************************************************************)
EXTENDS TenantRegistry, TLAPS, FiniteSetTheorems

\* Appending a tenant to the stacks built: the new stack is a new number, and
\* the older ones keep their tenants.
LEMMA BuiltAppend ==
    ASSUME NEW b \in Seq(Tenant), NEW t \in Tenant
    PROVE  /\ Append(b, t) \in Seq(Tenant)
           /\ Len(b) + 1 \notin DOMAIN b
           /\ DOMAIN Append(b, t) = DOMAIN b \cup {Len(b) + 1}
           /\ Append(b, t)[Len(b) + 1] = t
           /\ \A s \in DOMAIN b : Append(b, t)[s] = b[s]
           /\ \A s \in DOMAIN b : s \in Nat /\ s # 0 /\ b[s] \in Tenant
           /\ Len(b) + 1 \in Nat /\ Len(b) + 1 # 0
  OBVIOUS

\* The value of the gauge is a number, whatever tenants are registered.
LEMMA GaugeType ==
    /\ \A S : S \subseteq Tenant => Cardinality(S) \in Nat
    /\ Cardinality({}) = 0
  BY RegistryAssumption, FS_Subset, FS_CardinalityType, FS_EmptySet

\* An empty registry satisfies the invariant.
LEMMA RegistryInit == Init => RegistryInv
  <1>. SUFFICES ASSUME Init PROVE RegistryInv
    OBVIOUS
  <1>. USE DEF Init, Idle, NotThere, NoStack
  <1>1. Registered = {}
    BY DEF Registered
  <1>2. TypeOK
    BY DEF TypeOK
  <1>3. LockHeld
    BY RegistryAssumption DEF LockHeld
  <1>4. RegisteredRuns
    BY <1>1 DEF RegisteredRuns
  <1>5. DrainRecorded
    BY <1>1 DEF DrainRecorded
  <1>6. GaugeExact
    BY <1>1, GaugeType DEF GaugeExact
  <1>. QED BY <1>2, <1>3, <1>4, <1>5, <1>6 DEF RegistryInv

\* A step that leaves the registry and its stacks alone and gives requests only
\* running stacks preserves the invariant.
LEMMA RequestStep ==
    ASSUME RegistryInv, NEW r \in Req,
           UNCHANGED <<writer, op, tenants, running, stuck, built, gauge, drained>>,
           NEW s \in Nat, s # NoStack => s \in running \cup drained,
           held' \in {held, [held EXCEPT ![r] = s]},
           reply' \in [Req -> {"none", "OK", "InvalidArgument", "NotFound", "Unavailable"}]
    PROVE  RegistryInv'
  <1>1. Registered' = Registered
    BY DEF Registered
  <1>2. TypeOK'
    BY DEF RegistryInv, TypeOK
  <1>3. LockHeld' /\ GaugeExact'
    BY <1>1 DEF RegistryInv, LockHeld, GaugeExact
  <1>4. RegisteredRuns'
    BY <1>1 DEF RegistryInv, RegisteredRuns
  <1>5. DrainRecorded'
    <2>1. \A q \in Req : held'[q] # NoStack => held'[q] \in running \cup drained
      BY DEF RegistryInv, DrainRecorded, TypeOK
    <2>. QED BY <1>1, <2>1 DEF RegistryInv, DrainRecorded
  <1>. QED BY <1>2, <1>3, <1>4, <1>5 DEF RegistryInv

\* Taking the lock for a call preserves the invariant.
LEMMA BeginStep ==
    ASSUME RegistryInv, NEW a \in Admin, NEW t \in Tenant, AddBegin(a, t) \/ RemoveBegin(a, t)
    PROVE  RegistryInv'
  <1>. USE DEF RegistryInv
  <1>0. PICK c \in {"Add", "Remove"} :
          /\ Lock(a)
          /\ writer' = a
          /\ op' = [op EXCEPT ![a] = [call |-> c, tenant |-> t]]
          /\ c = "Add" => tenants[t] = NotThere
          /\ c = "Remove" => tenants[t] # NotThere /\ tenants[t].draining
          /\ UNCHANGED <<tenants, running, stuck, built, gauge, held, reply, drained>>
    BY DEF AddBegin, RemoveBegin
  <1>1. Registered' = Registered
    BY <1>0 DEF Registered
  <1>2. TypeOK'
    BY <1>0 DEF TypeOK
  <1>3. LockHeld'
    BY <1>0, RegistryAssumption DEF LockHeld, Lock, Idle, TypeOK
  <1>4. RegisteredRuns'
    <2>1. \A b \in Admin : b # a => op'[b] = op[b]
      BY <1>0 DEF TypeOK
    <2>2. op'[a] = [call |-> c, tenant |-> t]
      BY <1>0 DEF TypeOK
    <2>. QED BY <1>0, <1>1, <2>1, <2>2 DEF RegisteredRuns, Registered
  <1>5. DrainRecorded' /\ GaugeExact'
    BY <1>0, <1>1 DEF DrainRecorded, GaugeExact
  <1>. QED BY <1>2, <1>3, <1>4, <1>5

\* In the middle of a call: nobody else is, and releasing the lock leaves
\* every admin idle.
LEMMA UnlockFacts ==
    ASSUME RegistryInv, NEW a \in Admin, op[a].call # "none", Unlock(a)
    PROVE  /\ LockHeld'
           /\ \A b \in Admin : op'[b] = Idle
           /\ writer' \in Admin \cup {Nobody}
           /\ op' \in [Admin -> [call : {"none", "Add", "Remove"}, tenant : Tenant \cup {Empty}]]
  <1>1. op[a] # Idle
    BY DEF Idle
  <1>2. writer = a
    BY <1>1 DEF RegistryInv, LockHeld
  <1>3. \A b \in Admin : b # a => op[b] = Idle
    BY <1>2 DEF RegistryInv, LockHeld
  <1>4. \A b \in Admin : op'[b] = Idle
    BY <1>3 DEF Unlock, RegistryInv, TypeOK
  <1>5. LockHeld'
    BY <1>4, RegistryAssumption DEF LockHeld, Unlock
  <1>6. Idle \in [call : {"none", "Add", "Remove"}, tenant : Tenant \cup {Empty}]
    BY DEF Idle
  <1>. QED BY <1>4, <1>5, <1>6 DEF Unlock, RegistryInv, TypeOK

\* Finishing an Add preserves the invariant, whether or not the stack starts:
\* the new stack's number is fresh, and its tenant had nothing registered.
LEMMA AddStep ==
    ASSUME RegistryInv, NEW a \in Admin, AddFinish(a)
    PROVE  RegistryInv'
  <1>. DEFINE t == op[a].tenant
              s == Len(built) + 1
  <1>. USE DEF RegistryInv
  <1>1. op[a].call = "Add" /\ Unlock(a) /\ UNCHANGED <<held, reply, drained>>
    BY DEF AddFinish
  <1>2. t \in Tenant /\ t \notin Registered /\ tenants[t] = NotThere
    BY <1>1 DEF RegisteredRuns, Registered
  <1>3. built \in Seq(Tenant) /\ built' = Append(built, t)
    BY DEF AddFinish, TypeOK
  <1>4. /\ built' \in Seq(Tenant)
        /\ s \notin DOMAIN built /\ s \in Nat /\ s # 0
        /\ DOMAIN built' = DOMAIN built \cup {s}
        /\ built'[s] = t
        /\ \A x \in DOMAIN built : built'[x] = built[x] /\ x # 0 /\ built[x] \in Tenant
    BY <1>2, <1>3, BuiltAppend
  <1>5. /\ LockHeld'
        /\ \A b \in Admin : op'[b].call = "none"
        /\ writer' \in Admin \cup {Nobody}
        /\ op' \in [Admin -> [call : {"none", "Add", "Remove"}, tenant : Tenant \cup {Empty}]]
    BY <1>1, UnlockFacts DEF Idle
  <1>6. ASSUME UNCHANGED <<tenants, gauge>>,
               NEW left \in {{}, {s}}, running' = running \cup left, stuck' = stuck \cup left
        PROVE  RegistryInv'
    <2>1. Registered' = Registered
      BY <1>6 DEF Registered
    <2>5. running' \ stuck' = running \ stuck
      BY <1>4, <1>6 DEF TypeOK
    <2>2. TypeOK'
      BY <1>1, <1>4, <1>5, <1>6 DEF TypeOK
    <2>3. RegisteredRuns'
      BY <1>1, <1>4, <1>5, <1>6, <2>1, <2>5 DEF RegisteredRuns, TypeOK
    <2>4. DrainRecorded' /\ GaugeExact'
      BY <1>1, <1>6, <2>1 DEF DrainRecorded, GaugeExact
    <2>. QED BY <1>5, <2>2, <2>3, <2>4
  <1>7. CASE /\ running' = running \cup {s}
             /\ tenants' = [tenants EXCEPT ![t] = [stack |-> s, draining |-> FALSE]]
             /\ gauge' = Cardinality(Registered \cup {t})
             /\ UNCHANGED stuck
    <2>1. /\ tenants'[t].stack = s /\ tenants'[t].draining = FALSE
          /\ \A u \in Tenant : u # t => tenants'[u] = tenants[u]
      BY <1>2, <1>7 DEF TypeOK
    <2>2. Registered' = Registered \cup {t}
      BY <1>2, <1>4, <2>1 DEF Registered, NotThere, NoStack
    <2>3. TypeOK'
      <3>1. gauge' \in Nat
        BY <1>2, <1>7, GaugeType DEF Registered
      <3>2. tenants' \in [Tenant -> [stack : Nat, draining : BOOLEAN]]
        BY <1>4, <1>7 DEF TypeOK
      <3>. QED BY <1>1, <1>4, <1>5, <1>7, <3>1, <3>2 DEF TypeOK
    <2>4. \A u \in Registered : u # t /\ tenants[u].stack \in DOMAIN built
      BY <1>2 DEF RegisteredRuns, TypeOK
    <2>5. \A x \in running \ stuck : built[x] # t
      <3>1. SUFFICES ASSUME NEW x \in running \ stuck, built[x] = t PROVE FALSE
        OBVIOUS
      <3>2. tenants[t].stack = x /\ x \in DOMAIN built
        BY <3>1 DEF RegisteredRuns, TypeOK
      <3>. QED BY <1>2, <1>4, <3>2 DEF NotThere, NoStack
    <2>6. RegisteredRuns'
      <3>1. \A u \in Registered' : tenants'[u].stack \in running' \ stuck' /\ built'[tenants'[u].stack] = u
        <4>1. \A u \in Registered : tenants'[u].stack \in running' \ stuck' /\ built'[tenants'[u].stack] = u
          BY <1>1, <1>4, <1>7, <2>1, <2>4 DEF RegisteredRuns, Registered
        <4>2. s \notin stuck
          BY <1>4 DEF TypeOK
        <4>. QED BY <1>1, <1>4, <1>7, <2>1, <2>2, <4>1, <4>2
      <3>2. \A x \in running' \ stuck' : tenants'[built'[x]].stack = x
        <4>1. \A x \in running \ stuck : tenants'[built'[x]].stack = x
          BY <1>4, <2>1, <2>5 DEF RegisteredRuns, TypeOK
        <4>. QED BY <1>1, <1>4, <1>7, <2>1, <4>1
      <3>. QED BY <1>5, <3>1, <3>2 DEF RegisteredRuns
    <2>7. DrainRecorded'
      <3>1. s \notin drained
        BY <1>4 DEF TypeOK
      <3>2. \A u \in Registered : tenants'[u] = tenants[u]
        BY <2>1, <2>4 DEF Registered
      <3>. QED BY <1>1, <1>7, <2>1, <2>2, <3>1, <3>2 DEF DrainRecorded
    <2>8. GaugeExact'
      BY <1>7, <2>2 DEF GaugeExact
    <2>. QED BY <1>5, <2>3, <2>6, <2>7, <2>8
  <1>. QED BY <1>6, <1>7 DEF AddFinish

\* Registered stacks belong to their tenants, so no two tenants share one.
LEMMA StacksDiffer ==
    ASSUME RegistryInv, NEW t \in Registered, NEW u \in Registered, t # u
    PROVE  tenants[t].stack # tenants[u].stack
  BY DEF RegistryInv, RegisteredRuns

\* Draining a tenant preserves the invariant.
LEMMA DrainStep ==
    ASSUME RegistryInv, NEW a \in Admin, NEW t \in Tenant, Drain(a, t)
    PROVE  RegistryInv'
  <1>. USE DEF RegistryInv
  <1>1. /\ t \in Registered
        /\ drained' = drained \cup {tenants[t].stack}
        /\ UNCHANGED <<writer, op, running, stuck, built, gauge, held, reply>>
    BY DEF Drain, Registered
  <1>2. /\ tenants' \in [Tenant -> [stack : Nat, draining : BOOLEAN]]
        /\ \A u \in Tenant : tenants'[u].stack = tenants[u].stack
        /\ tenants'[t].draining
        /\ \A u \in Tenant : u # t => tenants'[u] = tenants[u]
    BY DEF Drain, TypeOK
  <1>3. Registered' = Registered
    BY <1>1, <1>2 DEF Registered, NotThere
  <1>4. tenants[t].stack \in running
    BY <1>1 DEF RegisteredRuns
  <1>5. TypeOK'
    BY <1>1, <1>2, <1>4 DEF TypeOK
  <1>6. LockHeld' /\ GaugeExact'
    BY <1>1, <1>3 DEF LockHeld, GaugeExact
  <1>7. RegisteredRuns'
    <2>1. \A x \in running : built[x] \in Tenant
      BY DEF TypeOK
    <2>2. \A u \in Registered : u \in Tenant
      BY DEF Registered
    <2>3. \A b \in Admin : op[b].call = "Remove" => tenants'[op[b].tenant].draining
      BY <1>2, <2>2 DEF RegisteredRuns
    <2>. QED BY <1>1, <1>2, <1>3, <2>1, <2>2, <2>3 DEF RegisteredRuns
  <1>8. DrainRecorded'
    <2>1. \A u \in Registered : tenants'[u].draining <=> tenants'[u].stack \in drained'
      <3>1. TAKE u \in Registered
      <3>2. u \in Tenant
        BY DEF Registered
      <3>3. CASE u = t
        BY <1>1, <1>2, <3>3
      <3>4. CASE u # t
        BY <1>1, <1>2, <3>2, <3>4, StacksDiffer DEF DrainRecorded
      <3>. QED BY <3>3, <3>4
    <2>. QED BY <1>1, <1>3, <2>1 DEF DrainRecorded
  <1>. QED BY <1>5, <1>6, <1>7, <1>8

\* Finishing a Remove preserves the invariant, whether or not the key manager
\* stops: the stack was drained, so the requests that hold it are accounted for.
LEMMA RemoveStep ==
    ASSUME RegistryInv, NEW a \in Admin, RemoveFinish(a)
    PROVE  RegistryInv'
  <1>. DEFINE t == op[a].tenant
              s == tenants[t].stack
  <1>. USE DEF RegistryInv
  <1>1. /\ op[a].call = "Remove" /\ Unlock(a)
        /\ tenants' = [tenants EXCEPT ![t] = NotThere]
        /\ gauge' = Cardinality(Registered \ {t})
        /\ UNCHANGED <<built, held, reply, drained>>
    BY DEF RemoveFinish
  <1>2. t \in Registered /\ t \in Tenant /\ tenants[t].draining
    BY <1>1 DEF RegisteredRuns, Registered
  <1>3. s \in running \ stuck /\ s \in drained
    BY <1>2 DEF RegisteredRuns, DrainRecorded
  <1>4. /\ running' \ stuck' = (running \ stuck) \ {s}
        /\ running' \subseteq running /\ stuck' \subseteq running'
        /\ running \subseteq running' \cup {s}
    BY <1>3 DEF RemoveFinish, TypeOK
  <1>5. /\ LockHeld'
        /\ \A b \in Admin : op'[b].call = "none"
        /\ writer' \in Admin \cup {Nobody}
        /\ op' \in [Admin -> [call : {"none", "Add", "Remove"}, tenant : Tenant \cup {Empty}]]
    BY <1>1, UnlockFacts DEF Idle
  <1>6. tenants'[t] = NotThere /\ \A u \in Tenant : u # t => tenants'[u] = tenants[u]
    BY <1>1, <1>2 DEF TypeOK
  <1>7. Registered' = Registered \ {t}
    BY <1>2, <1>6 DEF Registered
  <1>8. TypeOK'
    <2>1. gauge' \in Nat
      BY <1>1, GaugeType DEF Registered
    <2>2. tenants' \in [Tenant -> [stack : Nat, draining : BOOLEAN]]
      BY <1>1 DEF TypeOK, NotThere, NoStack
    <2>. QED BY <1>1, <1>4, <1>5, <2>1, <2>2 DEF TypeOK
  <1>9. RegisteredRuns'
    <2>1. \A u \in Registered' : u \in Registered /\ u # t /\ tenants'[u] = tenants[u]
      BY <1>6, <1>7 DEF Registered
    <2>2. \A u \in Registered' : tenants'[u].stack \in running' \ stuck' /\ built'[tenants'[u].stack] = u
      BY <1>1, <1>2, <1>4, <2>1, StacksDiffer DEF RegisteredRuns
    <2>3. \A x \in running' \ stuck' : tenants'[built'[x]].stack = x
      <3>1. TAKE x \in running' \ stuck'
      <3>2. x \in running \ stuck /\ x # s /\ built[x] \in Tenant
        BY <1>4 DEF TypeOK
      <3>3. built[x] # t
        BY <3>2 DEF RegisteredRuns
      <3>. QED BY <1>1, <1>6, <3>2, <3>3 DEF RegisteredRuns
    <2>. QED BY <1>5, <2>2, <2>3 DEF RegisteredRuns
  <1>10. DrainRecorded'
    <2>1. \A u \in Registered' : u \in Registered /\ tenants'[u] = tenants[u]
      BY <1>6, <1>7 DEF Registered
    <2>. QED BY <1>1, <1>3, <1>4, <2>1 DEF DrainRecorded
  <1>11. GaugeExact'
    BY <1>1, <1>7 DEF GaugeExact
  <1>. QED BY <1>5, <1>8, <1>9, <1>10, <1>11

\* Looking a manager up, using it and returning preserve the invariant.
LEMMA RequestSteps ==
    ASSUME RegistryInv, NEW r \in Req,
           (\E t \in Tenant \cup {Empty} : Get(r, t)) \/ Use(r) \/ Return(r)
    PROVE  RegistryInv'
  <1>1. UNCHANGED <<writer, op, tenants, running, stuck, built, gauge, drained>>
    BY DEF Get, Use, Return
  <1>2. reply' \in [Req -> {"none", "OK", "InvalidArgument", "NotFound", "Unavailable"}]
    BY DEF Get, Use, Return, RegistryInv, TypeOK
  <1>3. \E s \in Nat : /\ s # NoStack => s \in running \cup drained
                      /\ held' \in {held, [held EXCEPT ![r] = s]}
    <2>1. CASE Use(r) \/ Return(r)
      BY <2>1 DEF Use, Return, NoStack
    <2>2. ASSUME NEW t \in Tenant \cup {Empty}, Get(r, t) PROVE <1>3
      <3>1. CASE UNCHANGED held
        BY <3>1 DEF NoStack
      <3>2. CASE /\ t # Empty /\ tenants[t] # NotThere
                 /\ held' = [held EXCEPT ![r] = tenants[t].stack]
        <4>1. t \in Registered
          BY <3>2 DEF Registered
        <4>2. tenants[t].stack \in running /\ tenants[t].stack \in Nat
          BY <4>1 DEF RegistryInv, RegisteredRuns, TypeOK, Registered
        <4>. QED BY <3>2, <4>2
      <3>. QED BY <2>2, <3>1, <3>2 DEF Get
    <2>. QED BY <2>1, <2>2
  <1>. QED BY <1>1, <1>2, <1>3, RequestStep

\* Every step of the registry preserves the invariant.
LEMMA RegistryNext == RegistryInv /\ [Next]_vars => RegistryInv'
  <1>. SUFFICES ASSUME RegistryInv, [Next]_vars PROVE RegistryInv'
    OBVIOUS
  <1>1. CASE UNCHANGED vars
    BY <1>1 DEF vars, RegistryInv, TypeOK, LockHeld, RegisteredRuns, DrainRecorded, GaugeExact, Registered
  <1>2. ASSUME NEW a \in Admin, NEW t \in Tenant,
               AddBegin(a, t) \/ Drain(a, t) \/ RemoveBegin(a, t)
        PROVE  RegistryInv'
    BY <1>2, BeginStep, DrainStep
  <1>3. ASSUME NEW a \in Admin, AddFinish(a) \/ RemoveFinish(a) PROVE RegistryInv'
    BY <1>3, AddStep, RemoveStep
  <1>4. ASSUME NEW r \in Req,
               (\E t \in Tenant \cup {Empty} : Get(r, t)) \/ Use(r) \/ Return(r)
        PROVE  RegistryInv'
    BY <1>4, RequestSteps
  <1>. QED BY <1>1, <1>2, <1>3, <1>4 DEF Next

\* The registry's inductive invariant: the lock is held by whoever is in a
\* call, registered stacks run under their own tenant and nothing else runs
\* but what failed to stop or to start, draining is recorded, and the gauge is exact.
THEOREM RegistrySafe == Spec => []RegistryInv
  BY RegistryInit, RegistryNext, PTL DEF Spec

\* Through any adds, drains and removals, no two key managers run on one
\* tenant's keys, apart from removed ones whose Shutdown failed and unregistered ones
\* whose Start failed half way (multi_tenant.go Add and Remove).
THEOREM OneStackPerTenant == Spec => []OneRunningStack
  <1>1. RegistryInv => OneRunningStack
    BY DEF RegistryInv, RegisteredRuns, OneRunningStack
  <1>. QED BY <1>1, RegistrySafe, PTL

\* A request finds its manager stopped only after its tenant was drained
\* (Remove's FailedPrecondition).
THEOREM CutOffNeedsDrain == Spec => []CutOffOnlyByDrain
  <1>1. RegistryInv => CutOffOnlyByDrain
    BY DEF RegistryInv, DrainRecorded, CutOffOnlyByDrain
  <1>. QED BY <1>1, RegistrySafe, PTL

\* Once Drain has returned, Get never hands that stack out again, not even
\* across a Remove and a new Add of the tenant.
THEOREM DrainIsAFence == Spec => DrainFence
  <1>1. ASSUME RegistryInv, [Next]_vars
        PROVE  [\A r \in Req : held'[r] # held[r] /\ held'[r] # NoStack => held'[r] \notin drained]_vars
    <2>1. CASE UNCHANGED held
      BY <2>1
    <2>2. ASSUME NEW q \in Req, Use(q) \/ Return(q)
          PROVE  \A r \in Req : held'[r] # held[r] => held'[r] = NoStack
      BY <1>1, <2>2 DEF Use, Return, RegistryInv, TypeOK
    <2>3. ASSUME NEW q \in Req, NEW t \in Tenant \cup {Empty}, Get(q, t)
          PROVE  \A r \in Req : held'[r] # held[r] => held'[r] \notin drained
      <3>1. CASE UNCHANGED held
        BY <3>1
      <3>2. CASE /\ t # Empty /\ tenants[t] # NotThere /\ ~tenants[t].draining
                 /\ held' = [held EXCEPT ![q] = tenants[t].stack]
        <4>1. tenants[t].stack \notin drained
          BY <1>1, <3>2 DEF Registered, RegistryInv, DrainRecorded
        <4>. QED BY <1>1, <3>2, <4>1 DEF RegistryInv, TypeOK
      <3>. QED BY <2>3, <3>1, <3>2 DEF Get
    <2>4. UNCHANGED held \/ \E q \in Req : Use(q) \/ Return(q) \/ \E t \in Tenant \cup {Empty} : Get(q, t)
      BY <1>1 DEF Next, vars, AddBegin, AddFinish, Drain, RemoveBegin, RemoveFinish
    <2>. QED BY <2>1, <2>2, <2>3, <2>4
  <1>. QED BY <1>1, RegistrySafe, PTL DEF Spec, DrainFence
=============================================================================
