------------------------- MODULE IdempotencyProofs -------------------------
(***************************************************************************)
(* Proofs about Idempotency for any set of requests, any inputs and any    *)
(* time-to-live values.                                                    *)
(***************************************************************************)
EXTENDS Idempotency, TLAPS

\* The chain ends in a claim, in a plain call or in a rejection.
LEMMA RouteType ==
    ASSUME NEW q PROVE Route(q) \in {"claim", "plain"} \cup RejectCodes
  BY DEF Route, AuthVerdict, CallerVerdict, ValidationVerdict,
         IdempotencyVerdict, RejectCodes

\* What the records are, whatever the time-to-live values.
LEMMA RecordType ==
    /\ Absent \in Record
    /\ Pending \in Record
    /\ SeedRecords \subseteq Record
  BY TTLAssumption, SeedAssumption DEF Absent, Pending, Record

\* encodeCompletedRecord yields a record that carries a response.
LEMMA CompletedType ==
    ASSUME NEW r \in Req, input \in [Req -> Inputs]
    PROVE  Completed(r) \in Record /\ Completed(r).resp # NoReq
  BY TTLAssumption, RequestAssumption DEF Completed, Record

\* What one tick of Redis does to a record: it counts down, and the record is
\* gone after its last tick; a record without TTL stays.
LEMMA ExpireType ==
    ASSUME NEW rec \in Record
    PROVE  /\ Expire(rec) \in Record
           /\ rec.ttl > 1 => /\ Expire(rec).ttl = rec.ttl - 1
                             /\ Expire(rec).state = rec.state
                             /\ Expire(rec).resp = rec.resp
           /\ rec.ttl = 1 => Expire(rec) = Absent
           /\ rec.ttl = 0 => Expire(rec) = rec
           /\ Expire(rec).state = "completed" =>
                rec.state = "completed" /\ Expire(rec).resp = rec.resp
  <1>1. rec.ttl \in Nat
    BY DEF Record
  <1>2. CASE rec.ttl = 0
    BY <1>2 DEF Expire
  <1>3. CASE rec.ttl = 1
    BY <1>3, RecordType DEF Expire, Absent
  <1>4. CASE rec.ttl > 1
    <2>1. Expire(rec) = [rec EXCEPT !.ttl = rec.ttl - 1]
      BY <1>1, <1>4 DEF Expire
    <2>. QED BY <1>1, <1>4, <2>1 DEF Record
  <1>. QED BY <1>1, <1>2, <1>3, <1>4

\* The answers the interceptor gives are well-formed replies.
LEMMA AnswerType ==
    /\ \A c \in Codes, x \in Req \cup {NoReq, LegacyResp} :
         /\ Answer(c, x) \in Reply
         /\ Answer(c, x).code = c
         /\ Answer(c, x).resp = x
    /\ RejectCodes \subseteq Codes /\ "OK" \notin RejectCodes
    /\ {"OK", "Aborted", "FailedPrecondition", "HandlerError"} \subseteq Codes
  BY DEF Answer, Reply, Codes, RejectCodes

GoodReply == {a \in Reply : a.code = "OK" => a.resp # NoReq}

\* Answering preserves the types of the two variables it changes.
LEMMA FinishType ==
    ASSUME TypeOK, NEW r \in Req, NEW a \in GoodReply, Finish(r, a)
    PROVE  /\ pc' \in [Req -> Stages]
           /\ reply' \in [Req -> Reply]
           /\ \A s \in Req : reply'[s].code = "OK" => reply'[s].resp # NoReq
           /\ \A s \in Req : pc'[s] = IF s = r THEN "done" ELSE pc[s]
  BY DEF TypeOK, Finish, GoodReply, Stages

\* resolveExistingRecord never answers OK without a response.
LEMMA LookupAnswer ==
    ASSUME NEW rec \in Record, rec.state = "completed" => rec.resp # NoReq, NEW q
    PROVE  ResolveExistingRecord(rec, q) \in GoodReply
  <1>1. rec.resp \in Req \cup {NoReq, LegacyResp}
    BY DEF Record
  <1>. QED BY <1>1, AnswerType DEF ResolveExistingRecord, GoodReply

\* The initial states are type correct.
LEMMA TypeInit == Init => TypeOK
  BY RecordType, SeedAssumption, RequestAssumption, TTLAssumption
  DEF Init, TypeOK, Absent, Stages, Running, Executing, Reply, NoReply, Codes

\* Every step of the interceptor keeps the types: one case per action.
LEMMA TypeStep == TypeOK /\ [Next]_vars => TypeOK'
  <1>. SUFFICES ASSUME TypeOK, [Next]_vars PROVE TypeOK'
    OBVIOUS
  <1>. USE DEF TypeOK, KeyOf, Stages, Running, Executing
  <1>a. \A c \in Codes \ {"OK"} : Answer(c, NoReq) \in GoodReply
    BY AnswerType DEF GoodReply
  <1>b. \A x \in Req : Answer("OK", x) \in GoodReply
    BY AnswerType, RequestAssumption DEF GoodReply
  <1>1. ASSUME NEW r \in Req, Arrive(r) PROVE TypeOK'
    <2>1. input[r] \in Inputs /\ (Route(input[r]) = "claim" => KeyOf(r) \in RedisKeys)
      BY DEF RedisKeys
    <2>2. CASE Route(input[r]) \in {"claim", "plain"}
      BY <1>1, <2>1, <2>2 DEF Arrive, RejectCodes, Finish
    <2>3. CASE Route(input[r]) \in RejectCodes
      <3>1. Finish(r, Answer(Route(input[r]), NoReq))
        BY <1>1, <2>3 DEF Arrive, RejectCodes
      <3>2. Answer(Route(input[r]), NoReq) \in GoodReply
        BY <1>a, <2>3, AnswerType DEF RejectCodes
      <3>. QED BY <1>1, <3>1, <3>2, FinishType DEF Arrive
    <2>. QED BY <2>2, <2>3, RouteType
  <1>2. ASSUME NEW r \in Req, Claim(r) PROVE TypeOK'
    <2>1. Pending.state # "completed"
      BY DEF Pending
    <2>2. SetNX(KeyOf(r)) \in [RedisKeys -> Record]
      BY RecordType DEF SetNX
    <2>3. \A k \in RedisKeys : SetNX(KeyOf(r))[k] \in {store[k], Pending}
      BY RecordType DEF SetNX
    <2>4. store' \in {store, SetNX(KeyOf(r))} /\ UNCHANGED <<input, age, reply, window>>
      BY <1>2 DEF Claim
    <2>5. pc' \in [Req -> Stages] /\ KeyOf(r) \in RedisKeys
          /\ \A s \in Req \ {r} : pc'[s] = pc[s]
      BY <1>2 DEF Claim
    <2>. QED BY <2>1, <2>2, <2>3, <2>4, <2>5
  <1>3. ASSUME NEW r \in Req, Lookup(r) PROVE TypeOK'
    <2>1. KeyOf(r) \in RedisKeys
      BY <1>3 DEF Lookup
    <2>2. ResolveExistingRecord(store[KeyOf(r)], input[r]) \in GoodReply
      BY <2>1, LookupAnswer
    <2>3. PICK a \in GoodReply : Finish(r, a)
      BY <1>3, <1>a, <2>2, AnswerType DEF Lookup
    <2>. QED BY <1>3, <2>3, FinishType DEF Lookup
  <1>4. ASSUME NEW r \in Req, HandlerOK(r) PROVE TypeOK'
    BY <1>4, TTLAssumption DEF HandlerOK
  <1>5. ASSUME NEW r \in Req, HandlerErr(r) PROVE TypeOK'
    <2>1. PICK a \in GoodReply : Finish(r, a)
      BY <1>5, <1>a, AnswerType DEF HandlerErr
    <2>. QED BY <1>5, <2>1, FinishType, TTLAssumption DEF HandlerErr
  <1>6. ASSUME NEW r \in Req, Promote(r) PROVE TypeOK'
    <2>1. PICK a \in GoodReply : Finish(r, a)
      BY <1>6, <1>b DEF Promote
    <2>2. KeyOf(r) \in RedisKeys
      BY <1>6 DEF Promote
    <2>3. /\ store' \in [RedisKeys -> Record]
          /\ \A k \in RedisKeys : store'[k] \in {store[k], Completed(r)}
      BY <1>6, <2>2, CompletedType DEF Promote
    <2>4. /\ age' \in [Req -> 0 .. HandlerDeadline] /\ input' = input
          /\ window' \in [Req -> 0 .. ResponseTTL]
      BY <1>6, TTLAssumption DEF Promote
    <2>. QED BY <2>1, <2>3, <2>4, FinishType, CompletedType
  <1>7. ASSUME NEW r \in Req, Plain(r) PROVE TypeOK'
    <2>1. PICK a \in GoodReply : Finish(r, a)
      BY <1>7, <1>a, <1>b, AnswerType DEF Plain
    <2>. QED BY <1>7, <2>1, FinishType DEF Plain
  <1>8. ASSUME NEW r \in Req, Crash(r) PROVE TypeOK'
    BY <1>8, TTLAssumption DEF Crash
  <1>9. ASSUME Tick PROVE TypeOK'
    <2>1. ASSUME NEW k \in RedisKeys
          PROVE  /\ Expire(store[k]) \in Record
                 /\ Expire(store[k]).state = "completed" => Expire(store[k]).resp # NoReq
      <3>1. /\ store[k] \in Record
            /\ store[k].state = "completed" => store[k].resp # NoReq
        OBVIOUS
      <3>. QED BY ONLY <3>1, ExpireType
    <2>2. /\ store' \in [RedisKeys -> Record]
          /\ \A k \in RedisKeys : store'[k] = Expire(store[k])
      BY <1>9, <2>1 DEF Tick
    <2>3. age' \in [Req -> 0 .. HandlerDeadline]
      BY <1>9, TTLAssumption DEF Tick
    <2>4. window' \in [Req -> 0 .. ResponseTTL]
      <3>1. ASSUME NEW r \in Req
            PROVE  (IF window[r] = 0 THEN 0 ELSE window[r] - 1) \in 0 .. ResponseTTL
        <4>1. window[r] \in 0 .. ResponseTTL
          OBVIOUS
        <4>. QED BY ONLY <4>1, TTLAssumption
      <3>2. window' = [r \in Req |-> IF window[r] = 0 THEN 0 ELSE window[r] - 1]
        BY <1>9 DEF Tick
      <3>. QED BY ONLY <3>1, <3>2
    <2>. QED BY <1>9, <2>1, <2>2, <2>3, <2>4 DEF Tick
  <1>10. CASE UNCHANGED vars
    BY <1>10 DEF vars
  <1>. QED BY <1>1, <1>2, <1>3, <1>4, <1>5, <1>6, <1>7, <1>8, <1>9, <1>10 DEF Next

\* Type correctness, under every combination of faults: in particular no
\* request is ever answered OK without a response.
THEOREM TypeCorrect == Spec => []TypeOK
  BY TypeInit, TypeStep, PTL DEF Spec

-----------------------------------------------------------------------------
(***************************************************************************)
(* Mutual exclusion of handlers.                                           *)
(***************************************************************************)

\* Every step preserves the exclusion invariant.  The claim is created only on
\* an absent key, which nobody who executes can have; a tick never expires the
\* record of a request that is still within its deadline.
LEMMA ExclusionStep ==
    ASSUME TimelyHandlers, ReliableClaims,
           ExclusionInv, TypeOK', [Next]_vars
    PROVE  ExclusionInv'
  <1>. USE DEF ExclusionInv, ClaimBacked, ClaimExclusive, KeyOf, Executing
  <1>k. \A s \in Req : pc[s] \in Executing => KeyOf(s) \in RedisKeys
    BY DEF TypeOK
  <1>1. ASSUME NEW r \in Req, Arrive(r) PROVE ExclusionInv'
    <2>1. pc' = [pc EXCEPT ![r] = Route(input[r])] \/ pc' = [pc EXCEPT ![r] = "done"]
      BY <1>1 DEF Arrive, Finish
    <2>2. pc'[r] \notin Executing /\ \A s \in Req \ {r} : pc'[s] = pc[s]
      BY <1>1, <2>1 DEF Arrive, Finish, TypeOK, RejectCodes
    <2>3. pc[r] \notin Executing /\ UNCHANGED <<input, store, age>>
      BY <1>1 DEF Arrive
    <2>. QED BY <2>2, <2>3
  <1>2. ASSUME NEW r \in Req, Claim(r) PROVE ExclusionInv'
    <2>. DEFINE k == KeyOf(r)
    <2>1. /\ pc[r] = "claim" /\ k \in RedisKeys /\ age[r] = 0
          /\ UNCHANGED <<input, age>>
          /\ store' = SetNX(k)
          /\ pc' = [pc EXCEPT ![r] = IF store[k].state = "absent" THEN "handler" ELSE "lookup"]
      BY <1>2 DEF Claim, TypeOK, ReliableClaims
    <2>2. CASE store[k].state # "absent"
      <3>1. store' = store /\ pc' = [pc EXCEPT ![r] = "lookup"]
        BY <2>1, <2>2 DEF SetNX
      <3>. QED BY <2>1, <3>1 DEF TypeOK
    <2>3. CASE store[k].state = "absent"
      <3>1. store' = [store EXCEPT ![k] = Pending] /\ pc' = [pc EXCEPT ![r] = "handler"]
        BY <2>1, <2>3 DEF SetNX
      <3>2. store'[k].state = "pending" /\ store'[k].ttl = PendingTTL
        BY <2>1, <3>1 DEF Pending, TypeOK
      <3>3. \A s \in Req : pc[s] \in Executing => KeyOf(s) # k /\ store'[KeyOf(s)] = store[KeyOf(s)]
        BY <2>3, <3>1, <1>k DEF TypeOK
      <3>4. pc'[r] = "handler" /\ \A s \in Req \ {r} : pc'[s] = pc[s]
        BY <3>1 DEF TypeOK
      <3>. QED BY <2>1, <3>2, <3>3, <3>4, TTLAssumption
    <2>. QED BY <2>2, <2>3
  <1>3. ASSUME NEW r \in Req, Lookup(r) PROVE ExclusionInv'
    BY <1>3 DEF Lookup, Finish, TypeOK
  <1>4. ASSUME NEW r \in Req, HandlerOK(r) PROVE ExclusionInv'
    BY <1>4 DEF HandlerOK, TypeOK
  <1>5. ASSUME NEW r \in Req, HandlerErr(r) PROVE ExclusionInv'
    BY <1>5 DEF HandlerErr, Finish, TypeOK
  <1>6. ASSUME NEW r \in Req, Promote(r) PROVE ExclusionInv'
    <2>1. /\ pc[r] = "promote" /\ pc'[r] = "done" /\ age'[r] = 0 /\ input' = input
          /\ \A s \in Req \ {r} : pc'[s] = pc[s] /\ age'[s] = age[s]
      BY <1>6 DEF Promote, Finish, TypeOK
    <2>2. \A s \in Req \ {r} : pc[s] \in Executing => store'[KeyOf(s)] = store[KeyOf(s)]
      BY <1>6, <1>k DEF Promote, TypeOK
    <2>. QED BY <2>1, <2>2
  <1>7. ASSUME NEW r \in Req, Plain(r) PROVE ExclusionInv'
    BY <1>7 DEF Plain, Finish, TypeOK
  <1>8. ASSUME NEW r \in Req, Crash(r) PROVE ExclusionInv'
    BY <1>8 DEF Crash, TypeOK
  <1>9. ASSUME Tick PROVE ExclusionInv'
    <2>1. UNCHANGED <<pc, input>>
      BY <1>9 DEF Tick
    <2>2. ASSUME NEW s \in Req, pc[s] \in Executing
          PROVE  /\ store'[KeyOf(s)].state = "pending"
                 /\ store'[KeyOf(s)].ttl + age'[s] = PendingTTL
      <3>1. store[KeyOf(s)] \in Record /\ store'[KeyOf(s)] = Expire(store[KeyOf(s)])
        BY <1>9, <1>k, <2>2 DEF Tick, TypeOK
      <3>2. age[s] \in Nat /\ age[s] < HandlerDeadline /\ age'[s] = age[s] + 1
        BY <1>9, <2>2, TTLAssumption DEF Tick, TypeOK
      <3>3. store[KeyOf(s)].ttl + age[s] = PendingTTL /\ store[KeyOf(s)].state = "pending"
        BY <2>2
      <3>4. store[KeyOf(s)].ttl \in Nat
        BY <3>1 DEF Record
      <3>5. store[KeyOf(s)].ttl > 1
        BY ONLY <3>2, <3>3, <3>4, TTLAssumption, TimelyHandlers DEF TimelyHandlers
      <3>6. Expire(store[KeyOf(s)]).ttl = store[KeyOf(s)].ttl - 1
            /\ Expire(store[KeyOf(s)]).state = "pending"
        BY ONLY <3>1, <3>3, <3>5, ExpireType
      <3>. QED BY ONLY <3>1, <3>2, <3>3, <3>4, <3>6, TTLAssumption
    <2>3. \A s \in Req : pc[s] \notin Executing => age'[s] = age[s]
      BY <1>9 DEF Tick
    <2>. QED BY <2>1, <2>2, <2>3
  <1>10. CASE UNCHANGED vars
    BY <1>10 DEF vars
  <1>. QED BY <1>1, <1>2, <1>3, <1>4, <1>5, <1>6, <1>7, <1>8, <1>9, <1>10 DEF Next

\* The exclusion invariant holds throughout: whoever executes a handler owns a
\* claim whose remaining life covers what is left of its deadline.
LEMMA ExclusionHolds ==
    ASSUME TimelyHandlers, ReliableClaims
    PROVE  Spec => []ExclusionInv
  <1>1. Init => ExclusionInv
    BY TypeInit DEF Init, ExclusionInv, ClaimBacked, ClaimExclusive, Executing
  <1>2. ExclusionInv /\ [Next]_vars => ExclusionInv'
    BY TypeStep, ExclusionStep, TimelyHandlers, ReliableClaims DEF ExclusionInv
  <1>. QED BY <1>1, <1>2, PTL DEF Spec

\* While handlers finish within the claim's life and SetNX does not fail, no two
\* requests with the same idempotency key are ever in the handler together,
\* whatever else fails: reads, promotions, handlers or replicas.
THEOREM ClaimExclusion ==
    ASSUME TimelyHandlers, ReliableClaims
    PROVE  Spec => []ClaimExclusive
  <1>1. ExclusionInv => ClaimExclusive
    BY DEF ExclusionInv
  <1>. QED BY <1>1, ExclusionHolds, TimelyHandlers, ReliableClaims, PTL

\* Every step from a state of the exclusion invariant is a step of Mutex on one
\* key, or none.
LEMMA MutexStep ==
    ASSUME ExclusionInv, ExclusionInv', [Next]_vars
    PROVE  ClaimMutex!Next \/ UNCHANGED Inside
  <1>. DEFINE In(k) == {r \in Req : pc[r] \in Executing /\ KeyOf(r) = k}
  <1>t. TypeOK /\ ClaimExclusive'
    BY DEF ExclusionInv
  <1>i. input' = input
    BY DEF Next, Arrive, Claim, Lookup, HandlerOK, HandlerErr, Promote, Plain, Crash, Tick, vars
  <1>1. Inside = [k \in RedisKeys |-> In(k)] /\ Inside' = [k \in RedisKeys |-> In(k)']
    BY DEF Inside
  <1>2. ASSUME NEW r \in Req, pc'[r] \in Executing <=> pc[r] \in Executing,
               \A s \in Req \ {r} : pc'[s] = pc[s]
        PROVE  UNCHANGED Inside
    <2>1. \A k \in RedisKeys : In(k)' = In(k)
      BY <1>2, <1>i DEF KeyOf
    <2>. QED BY <1>1, <2>1
  <1>3. ASSUME NEW r \in Req, pc[r] \in Executing, pc'[r] \notin Executing,
               \A s \in Req \ {r} : pc'[s] = pc[s]
        PROVE  ClaimMutex!Next
    <2>1. PICK k \in RedisKeys : k = KeyOf(r)
      BY <1>3, <1>t DEF TypeOK
    <2>2. /\ r \in In(k) /\ In(k)' = In(k) \ {r}
          /\ \A j \in RedisKeys \ {k} : In(j)' = In(j)
      BY <1>3, <1>i, <2>1 DEF KeyOf
    <2>3. Inside' = [Inside EXCEPT ![k] = Inside[k] \ {r}]
      BY <1>1, <2>1, <2>2
    <2>4. ClaimMutex!Leave(r, k)
      BY <1>1, <2>1, <2>2, <2>3 DEF ClaimMutex!Leave
    <2>. QED BY <2>1, <2>4 DEF ClaimMutex!Next
  <1>4. ASSUME NEW r \in Req, pc[r] = "claim", pc'[r] \in Executing,
               \A s \in Req \ {r} : pc'[s] = pc[s]
        PROVE  ClaimMutex!Next
    <2>1. PICK k \in RedisKeys : k = KeyOf(r)
      BY <1>4, <1>t DEF TypeOK
    <2>2. pc[r] \notin Executing /\ \A s \in Req : s \in In(k)' => s = r
      BY <1>4, <1>t, <1>i, <2>1 DEF ClaimExclusive, KeyOf, Executing
    <2>3. In(k) = {} /\ In(k)' = {r} /\ \A j \in RedisKeys \ {k} : In(j)' = In(j)
      BY <1>4, <1>i, <2>1, <2>2 DEF KeyOf
    <2>4. Inside' = [Inside EXCEPT ![k] = {r}]
      BY <1>1, <2>1, <2>3
    <2>5. ClaimMutex!Enter(r, k)
      BY <1>1, <2>1, <2>3, <2>4 DEF ClaimMutex!Enter
    <2>. QED BY <2>1, <2>5 DEF ClaimMutex!Next
  <1>5. ASSUME NEW r \in Req,
               Arrive(r) \/ Claim(r) \/ Lookup(r) \/ HandlerOK(r) \/ HandlerErr(r)
               \/ Promote(r) \/ Plain(r) \/ Crash(r)
        PROVE  ClaimMutex!Next \/ UNCHANGED Inside
    <2>1. \A s \in Req \ {r} : pc'[s] = pc[s]
      BY <1>5, <1>t DEF TypeOK, Arrive, Claim, Lookup, HandlerOK, HandlerErr, Promote, Plain,
                        Crash, Finish
    <2>2. pc[r] = "claim" \/ pc[r] \in Executing \/ pc'[r] \notin Executing
      BY <1>5, <1>t DEF TypeOK, Arrive, Claim, Lookup, HandlerOK, HandlerErr, Promote, Plain,
                        Crash, Finish, Executing, RejectCodes
    <2>. QED BY <1>2, <1>3, <1>4, <2>1, <2>2 DEF Executing
  <1>6. CASE Tick \/ UNCHANGED vars
    <2>1. \A k \in RedisKeys : In(k)' = In(k)
      BY <1>6, <1>i DEF KeyOf, Tick, vars
    <2>. QED BY <1>1, <2>1
  <1>. QED BY <1>5, <1>6 DEF Next

\* The claim protocol implements the abstract Mutex, one resource per
\* idempotency key, under the conditions of ClaimExclusion.
THEOREM ClaimImplementsMutex ==
    ASSUME TimelyHandlers, ReliableClaims
    PROVE  Spec => ImplementsMutex
  <1>1. Init => ClaimMutex!Init
    BY DEF Init, ClaimMutex!Init, Inside, Executing
  <1>2. ExclusionInv /\ ExclusionInv' /\ [Next]_vars => [ClaimMutex!Next]_Inside
    BY MutexStep
  <1>. QED BY <1>1, <1>2, ExclusionHolds, TimelyHandlers, ReliableClaims, PTL
           DEF Spec, ImplementsMutex, ClaimMutex!Spec

-----------------------------------------------------------------------------
(***************************************************************************)
(* Stored responses, and at-most-once.                                     *)
(***************************************************************************)

\* A step from a state of the exclusion invariant treats completed records as
\* CompletedOnlyAges says: whoever promotes finds its own pending claim.
LEMMA CompletedStep ==
    ASSUME ExclusionInv, [Next]_vars
    PROVE  CompletedAges
  <1>. SUFFICES ASSUME NEW k \in RedisKeys, store[k].state = "completed"
                PROVE  \/ store'[k] = Absent /\ store[k].ttl = 1
                       \/ store'[k] \in {store[k], [store[k] EXCEPT !.ttl = store[k].ttl - 1]}
    BY DEF CompletedAges
  <1>. USE DEF ExclusionInv
  <1>1. ASSUME NEW r \in Req, Claim(r) PROVE store'[k] = store[k]
    BY <1>1 DEF Claim, SetNX, TypeOK
  <1>2. ASSUME NEW r \in Req, Promote(r) PROVE store'[k] = store[k]
    BY <1>2 DEF Promote, ClaimBacked, Executing, TypeOK
  <1>3. ASSUME Tick PROVE \/ store'[k] = Absent /\ store[k].ttl = 1
                          \/ store'[k] \in {store[k], [store[k] EXCEPT !.ttl = store[k].ttl - 1]}
    <2>1. store'[k] = Expire(store[k])
      BY <1>3 DEF Tick
    <2>. QED BY <2>1 DEF Expire
  <1>4. CASE UNCHANGED store
    BY <1>4
  <1>. QED BY <1>1, <1>2, <1>3, <1>4
       DEF Next, Arrive, Lookup, HandlerOK, HandlerErr, Plain, Crash, vars

\* Under the same conditions as ClaimExclusion, a stored response is never
\* overwritten, downgraded to a claim or deleted before its time.
THEOREM ResponsesOnlyAge ==
    ASSUME TimelyHandlers, ReliableClaims
    PROVE  Spec => CompletedOnlyAges
  <1>1. ExclusionInv /\ [Next]_vars => [CompletedAges]_vars
    BY CompletedStep
  <1>. QED BY <1>1, ExclusionHolds, TimelyHandlers, ReliableClaims, PTL DEF Spec, CompletedOnlyAges

\* Every step keeps the open windows covered: a response that cannot be stored
\* closes its window.
LEMMA WindowStep ==
    ASSUME OnceInv, ExclusionInv', [Next]_vars
    PROVE  WindowCovered'
  <1>. USE DEF OnceInv, ExclusionInv, KeyOf
  <1>t. \A s \in Req : window[s] \in Nat /\ window[s] <= ResponseTTL
    BY TTLAssumption DEF TypeOK
  <1>p. \A s \in Req : pc[s] = "promote" => KeyOf(s) \in RedisKeys /\ store[KeyOf(s)].state = "pending"
    BY DEF TypeOK, Executing, ClaimBacked
  <1>1. ASSUME NEW r \in Req, Arrive(r) PROVE WindowCovered'
    BY <1>1 DEF Arrive, Finish, TypeOK, WindowCovered
  <1>2. ASSUME NEW r \in Req, Claim(r) PROVE WindowCovered'
    <2>1. \A s \in Req : window[s] > 0 => pc'[s] = pc[s]
      BY <1>2 DEF Claim, TypeOK, WindowCovered
    <2>2. \A k \in RedisKeys : store[k].state = "completed" => store'[k] = store[k]
      BY <1>2 DEF Claim, SetNX, TypeOK
    <2>3. UNCHANGED <<input, window>>
      BY <1>2 DEF Claim
    <2>. QED BY <2>1, <2>2, <2>3 DEF WindowCovered
  <1>3. ASSUME NEW r \in Req, Lookup(r) PROVE WindowCovered'
    BY <1>3 DEF Lookup, Finish, TypeOK, WindowCovered
  <1>4. ASSUME NEW r \in Req, HandlerOK(r) PROVE WindowCovered'
    BY <1>4 DEF HandlerOK, TypeOK, WindowCovered
  <1>5. ASSUME NEW r \in Req, HandlerErr(r) PROVE WindowCovered'
    BY <1>5 DEF HandlerErr, Finish, TypeOK, WindowCovered
  <1>6. ASSUME NEW r \in Req, Promote(r) PROVE WindowCovered'
    <2>1. /\ pc[r] = "promote" /\ pc'[r] = "done" /\ input' = input
          /\ \A s \in Req \ {r} : pc'[s] = pc[s] /\ window'[s] = window[s]
      BY <1>6 DEF Promote, Finish, TypeOK
    <2>2. KeyOf(r) \in RedisKeys /\ store[KeyOf(r)].state = "pending"
      BY <2>1, <1>p
    <2>3. CASE store' = [store EXCEPT ![KeyOf(r)] = Completed(r)] /\ window' = window
      <3>1. store'[KeyOf(r)] = Completed(r)
            /\ \A k \in RedisKeys \ {KeyOf(r)} : store'[k] = store[k]
        BY <2>2, <2>3 DEF TypeOK
      <3>2. Completed(r).state = "completed" /\ Completed(r).resp = r
            /\ Completed(r).ttl = ResponseTTL
        BY DEF Completed
      <3>3. \A s \in Req \ {r} : window[s] > 0 /\ pc[s] # "promote" => KeyOf(s) # KeyOf(r)
        BY <2>2 DEF WindowCovered
      <3>. QED BY <2>1, <2>2, <2>3, <3>1, <3>2, <3>3, <1>t DEF WindowCovered
    <2>4. CASE store' = store /\ window' = [window EXCEPT ![r] = 0]
      <3>1. window'[r] = 0
        BY <2>4 DEF TypeOK
      <3>. QED BY <2>1, <2>4, <3>1 DEF WindowCovered
    <2>. QED BY <1>6, <2>3, <2>4 DEF Promote
  <1>7. ASSUME NEW r \in Req, Plain(r) PROVE WindowCovered'
    BY <1>7 DEF Plain, Finish, TypeOK, WindowCovered
  <1>8. ASSUME NEW r \in Req, Crash(r) PROVE WindowCovered'
    BY <1>8 DEF Crash, TypeOK, WindowCovered
  <1>9. ASSUME Tick PROVE WindowCovered'
    <2>1. UNCHANGED <<pc, input>> /\ \A k \in RedisKeys : store'[k] = Expire(store[k])
      BY <1>9 DEF Tick
    <2>2. ASSUME NEW s \in Req, window'[s] > 0, pc[s] # "promote"
          PROVE  /\ pc[s] = "done" /\ KeyOf(s) \in RedisKeys
                 /\ store'[KeyOf(s)].state = "completed"
                 /\ store'[KeyOf(s)].resp = s
                 /\ window'[s] <= store'[KeyOf(s)].ttl
      <3>1. window[s] > 1 /\ window'[s] = window[s] - 1
        BY <1>9, <1>t, <2>2 DEF Tick
      <3>2. /\ pc[s] = "done" /\ KeyOf(s) \in RedisKeys
            /\ store[KeyOf(s)].state = "completed" /\ store[KeyOf(s)].resp = s
            /\ window[s] <= store[KeyOf(s)].ttl
        BY <1>t, <2>2, <3>1 DEF WindowCovered
      <3>3. store[KeyOf(s)] \in Record /\ store[KeyOf(s)].ttl \in Nat
        BY <3>2 DEF TypeOK, Record
      <3>4. store[KeyOf(s)].ttl > 1
        BY ONLY <1>t, <3>1, <3>2, <3>3
      <3>5. /\ Expire(store[KeyOf(s)]).ttl = store[KeyOf(s)].ttl - 1
            /\ Expire(store[KeyOf(s)]).state = "completed"
            /\ Expire(store[KeyOf(s)]).resp = s
        BY ONLY <3>2, <3>3, <3>4, ExpireType
      <3>6. store'[KeyOf(s)] = Expire(store[KeyOf(s)])
        BY <2>1, <3>2
      <3>. QED BY ONLY <1>t, <3>1, <3>2, <3>3, <3>5, <3>6
    <2>. QED BY <2>1, <2>2 DEF WindowCovered
  <1>10. CASE UNCHANGED vars
    BY <1>10 DEF vars, WindowCovered
  <1>. QED BY <1>1, <1>2, <1>3, <1>4, <1>5, <1>6, <1>7, <1>8, <1>9, <1>10 DEF Next

\* The invariant of at-most-once holds throughout: every open window is covered
\* by a pending promotion or by a stored response that outlives it.
THEOREM OnceHolds ==
    ASSUME TimelyHandlers, ReliableClaims
    PROVE  Spec => []OnceInv
  <1>1. Init => WindowCovered /\ ExclusionInv
    BY TypeInit DEF Init, WindowCovered, ExclusionInv, ClaimBacked, ClaimExclusive, Executing
  <1>2. OnceInv /\ [Next]_vars => OnceInv'
    <2>. SUFFICES ASSUME OnceInv, [Next]_vars PROVE OnceInv'
      OBVIOUS
    <2>1. ExclusionInv'
      BY TypeStep, ExclusionStep, TimelyHandlers, ReliableClaims DEF OnceInv, ExclusionInv
    <2>. QED BY <2>1, WindowStep DEF OnceInv
  <1>. QED BY <1>1, <1>2, PTL DEF Spec, OnceInv

\* At-most-once: with timely handlers and answered claims, no second request
\* with the same key has an effect while the retention window of the first is
\* open, whatever reads, promotions, handlers or replicas fail.
THEOREM EffectsAtMostOnce ==
    ASSUME TimelyHandlers, ReliableClaims
    PROVE  Spec => []AtMostOnce
  <1>1. OnceInv => AtMostOnce
    <2>. SUFFICES ASSUME OnceInv, NEW r \in Req, NEW s \in Req,
                         window[r] > 0, window[s] > 0, KeyOf(r) = KeyOf(s)
                  PROVE  r = s
      BY DEF AtMostOnce
    <2>1. \A q \in Req : pc[q] = "promote" => store[KeyOf(q)].state = "pending"
      BY DEF OnceInv, ExclusionInv, ClaimBacked, Executing
    <2>. QED BY <2>1 DEF OnceInv, ExclusionInv, WindowCovered, ClaimExclusive, Executing
  <1>. QED BY <1>1, OnceHolds, TimelyHandlers, ReliableClaims, PTL

-----------------------------------------------------------------------------
(***************************************************************************)
(* Replays, under every fault.                                             *)
(***************************************************************************)

\* computeFingerprint never yields the empty value of a record without one.
LEMMA FingerprintStored == \A q : Fingerprint(q) # NoFp
  BY DEF Fingerprint, NoFp

\* Every step keeps stored responses filed under their origin, and hands out
\* only such responses.
LEMMA ReplayStep ==
    ASSUME ReplayInv, TypeOK', [Next]_vars
    PROVE  StoredFaithful' /\ ReplayFaithful'
  <1>. USE DEF ReplayInv, KeyOf
  <1>1. ASSUME NEW r \in Req, Arrive(r) PROVE StoredFaithful' /\ ReplayFaithful'
    <2>1. /\ pc[r] = "idle" /\ UNCHANGED <<input, store>>
          /\ reply' = reply \/ \E c \in RejectCodes : reply' = [reply EXCEPT ![r] = Answer(c, NoReq)]
          /\ \A s \in Req \ {r} : pc'[s] = pc[s]
      BY <1>1 DEF Arrive, Finish, TypeOK
    <2>2. /\ \A s \in Req \ {r} : reply'[s] = reply[s]
          /\ reply'[r] = reply[r] \/ reply'[r].code # "OK"
      BY <2>1, AnswerType DEF TypeOK
    <2>3. StoredFaithful'
      BY <2>1, <2>2 DEF StoredFaithful
    <2>4. ReplayFaithful'
      BY <2>1, <2>2 DEF ReplayFaithful
    <2>. QED BY <2>3, <2>4
  <1>2. ASSUME NEW r \in Req, Claim(r) PROVE StoredFaithful' /\ ReplayFaithful'
    <2>1. /\ pc[r] = "claim" /\ UNCHANGED <<input, reply>>
          /\ \A s \in Req \ {r} : pc'[s] = pc[s]
          /\ \A k \in RedisKeys : store'[k] \in {store[k], Pending}
      BY <1>2, RecordType DEF Claim, SetNX, TypeOK
    <2>2. Pending.state # "completed"
      BY DEF Pending
    <2>3. StoredFaithful'
      BY <2>1, <2>2 DEF StoredFaithful
    <2>4. ReplayFaithful'
      BY <2>1 DEF ReplayFaithful
    <2>. QED BY <2>3, <2>4
  <1>3. ASSUME NEW r \in Req, Lookup(r) PROVE StoredFaithful' /\ ReplayFaithful'
    <2>. DEFINE rec == store[KeyOf(r)]
    <2>1. /\ pc[r] = "lookup" /\ UNCHANGED <<input, store>> /\ KeyOf(r) \in RedisKeys
          /\ \A s \in Req \ {r} : pc'[s] = pc[s] /\ reply'[s] = reply[s]
          /\ pc'[r] = "done"
          /\ reply'[r] \in {ResolveExistingRecord(rec, input[r]), Answer("Aborted", NoReq)}
      BY <1>3 DEF Lookup, Finish, TypeOK, Executing
    <2>2. rec.resp \in Req \cup {NoReq, LegacyResp}
      BY <2>1 DEF TypeOK, Record
    <2>3. reply'[r].code = "OK" =>
            /\ rec.state = "completed" /\ reply'[r].resp = rec.resp
            /\ rec.fp = NoFp \/ rec.fp = Fingerprint(input[r])
      BY <2>1, <2>2, AnswerType DEF ResolveExistingRecord
    <2>4. StoredFaithful'
      BY <2>1 DEF StoredFaithful
    <2>5. ASSUME reply'[r].code = "OK", reply'[r].resp \in Req \ {r}
          PROVE  LET q == reply'[r].resp IN
                 /\ pc'[q] = "done" /\ reply'[q] = Answer("OK", q)
                 /\ KeyOf(q) = KeyOf(r) /\ Fingerprint(input[q]) = Fingerprint(input[r])
      BY <2>1, <2>3, <2>5, FingerprintStored DEF StoredFaithful
    <2>6. ReplayFaithful'
      BY <2>1, <2>5 DEF ReplayFaithful
    <2>. QED BY <2>4, <2>6
  <1>4. ASSUME NEW r \in Req, HandlerOK(r) PROVE StoredFaithful' /\ ReplayFaithful'
    <2>1. /\ pc[r] = "handler" /\ UNCHANGED <<input, store, reply>>
          /\ \A s \in Req \ {r} : pc'[s] = pc[s]
      BY <1>4 DEF HandlerOK, TypeOK
    <2>. QED BY <2>1 DEF StoredFaithful, ReplayFaithful
  <1>5. ASSUME NEW r \in Req, HandlerErr(r) PROVE StoredFaithful' /\ ReplayFaithful'
    <2>1. /\ pc[r] = "handler" /\ UNCHANGED <<input, store>>
          /\ \A s \in Req \ {r} : pc'[s] = pc[s] /\ reply'[s] = reply[s]
          /\ reply'[r].code # "OK"
      BY <1>5, AnswerType DEF HandlerErr, Finish, TypeOK
    <2>. QED BY <2>1 DEF StoredFaithful, ReplayFaithful
  <1>6. ASSUME NEW r \in Req, Promote(r) PROVE StoredFaithful' /\ ReplayFaithful'
    <2>1. /\ pc[r] = "promote" /\ UNCHANGED input /\ pc'[r] = "done"
          /\ \A s \in Req \ {r} : pc'[s] = pc[s] /\ reply'[s] = reply[s]
          /\ reply'[r] = Answer("OK", r)
          /\ KeyOf(r) \in RedisKeys
      BY <1>6 DEF Promote, Finish, TypeOK, Executing
    <2>2. /\ store'[KeyOf(r)] \in {store[KeyOf(r)], Completed(r)}
          /\ \A k \in RedisKeys \ {KeyOf(r)} : store'[k] = store[k]
      BY <1>6, <2>1 DEF Promote, TypeOK
    <2>3. Completed(r).resp = r /\ Completed(r).fp = Fingerprint(input[r])
      BY DEF Completed
    <2>4. StoredFaithful'
      BY <2>1, <2>2, <2>3 DEF StoredFaithful
    <2>5. reply'[r].resp = r
      BY <2>1, AnswerType
    <2>6. ReplayFaithful'
      BY <2>1, <2>5 DEF ReplayFaithful
    <2>. QED BY <2>4, <2>6
  <1>7. ASSUME NEW r \in Req, Plain(r) PROVE StoredFaithful' /\ ReplayFaithful'
    <2>1. /\ pc[r] = "plain" /\ UNCHANGED <<input, store>>
          /\ \A s \in Req \ {r} : pc'[s] = pc[s] /\ reply'[s] = reply[s]
          /\ reply'[r].code = "OK" => reply'[r].resp = r
      BY <1>7, AnswerType DEF Plain, Finish, TypeOK
    <2>. QED BY <2>1 DEF StoredFaithful, ReplayFaithful
  <1>8. ASSUME NEW r \in Req, Crash(r) PROVE StoredFaithful' /\ ReplayFaithful'
    <2>1. /\ pc[r] \in Running /\ UNCHANGED <<input, store, reply>>
          /\ \A s \in Req \ {r} : pc'[s] = pc[s]
      BY <1>8 DEF Crash, TypeOK
    <2>. QED BY <2>1 DEF StoredFaithful, ReplayFaithful, Running, Executing
  <1>9. ASSUME Tick PROVE StoredFaithful' /\ ReplayFaithful'
    <2>1. UNCHANGED <<pc, input, reply>> /\ \A k \in RedisKeys : store'[k] = Expire(store[k])
      BY <1>9 DEF Tick
    <2>2. ASSUME NEW k \in RedisKeys, Expire(store[k]).state = "completed"
          PROVE  /\ store[k].state = "completed"
                 /\ Expire(store[k]).resp = store[k].resp /\ Expire(store[k]).fp = store[k].fp
      <3>1. store[k] \in Record
        BY DEF TypeOK
      <3>. QED BY ONLY <3>1, <2>2 DEF Expire, Absent, Record
    <2>3. StoredFaithful'
      BY <2>1, <2>2 DEF StoredFaithful
    <2>4. ReplayFaithful'
      BY <2>1 DEF ReplayFaithful
    <2>. QED BY <2>3, <2>4
  <1>10. CASE UNCHANGED vars
    BY <1>10 DEF vars, StoredFaithful, ReplayFaithful
  <1>. QED BY <1>1, <1>2, <1>3, <1>4, <1>5, <1>6, <1>7, <1>8, <1>9, <1>10 DEF Next

\* Nobody is ever answered with the tokens of a different request, whatever
\* fails and however slow the handlers are.
THEOREM ReplaysFaithful == Spec => []ReplayFaithful
  <1>1. Init => ReplayInv
    <2>. SUFFICES ASSUME Init PROVE StoredFaithful /\ ReplayFaithful
      BY TypeInit DEF ReplayInv
    <2>1. \A k \in RedisKeys : store[k].state = "completed" => store[k].resp = LegacyResp
      BY SeedAssumption DEF Init, Absent
    <2>2. \A r \in Req : reply[r].code # "OK"
      BY DEF Init, NoReply
    <2>. QED BY <2>1, <2>2, RequestAssumption DEF StoredFaithful, ReplayFaithful
  <1>2. ReplayInv /\ [Next]_vars => ReplayInv'
    BY TypeStep, ReplayStep DEF ReplayInv
  <1>3. ReplayInv => ReplayFaithful
    BY DEF ReplayInv
  <1>. QED BY <1>1, <1>2, <1>3, PTL DEF Spec

-----------------------------------------------------------------------------
(***************************************************************************)
(* Admission, under every fault.                                           *)
(***************************************************************************)

\* Only a request that authentication, caller authorization and validation let
\* through is routed to the claim.
LEMMA ClaimWellFormed ==
    ASSUME NEW q, Route(q) = "claim"
    PROVE  WellFormed(q)
  <1>1. /\ AuthVerdict(q) = "pass" /\ CallerVerdict(q) = "pass"
        /\ ValidationVerdict(q) = "pass" /\ IdempotencyVerdict(q) = "claim"
    BY DEF Route, AuthVerdict, CallerVerdict, ValidationVerdict
  <1>2. q.method \in IdempotentMethods /\ q.tenant # <<>>
    BY <1>1 DEF IdempotencyVerdict
  <1>3. q.method # "Health"
    BY <1>2 DEF IdempotentMethods
  <1>4. Identity(q) \in DOMAIN Permitted /\ q.tenant \in Permitted[Identity(q)]
    BY <1>1, <1>2, <1>3 DEF CallerVerdict, IsPermitted
  <1>5. q.id # "" /\ ~HasReservedClaim(q)
    BY <1>1, <1>2 DEF ValidationVerdict, MissingIdentifier, IdempotentMethods
  <1>. QED BY <1>2, <1>4, <1>5 DEF WellFormed, HasReservedClaim

\* A step keeps every record owed to a request the chain let through: claims
\* and promotions are the work of such a request, and nobody goes back.
LEMMA AdmissionStep ==
    ASSUME AdmissionInv, [Next]_vars
    PROVE  ClaimsRouted' /\ OnlyAdmittedClaim'
  <1>. USE DEF AdmissionInv, KeyOf, Executing
  <1>. DEFINE Owed(rec) == rec.state = "pending" \/ rec.resp \in Req
              ByNow(k, r) == /\ pc'[r] \notin {"idle", "claim"} /\ KeyOf(r) = k
                             /\ Route(input[r]) = "claim"
  <1>i. input' = input
    BY DEF Next, Arrive, Claim, Lookup, HandlerOK, HandlerErr, Promote, Plain, Crash, Tick, vars
  <1>1. \A s \in Req : pc[s] \notin {"idle", "claim"} => pc'[s] \notin {"idle", "claim"}
    BY DEF Next, Arrive, Claim, Lookup, HandlerOK, HandlerErr, Promote, Plain, Crash,
           Tick, Finish, TypeOK, vars
  <1>2. \A s \in Req : pc'[s] \in Executing \cup {"claim", "lookup"} =>
          \/ pc[s] \in Executing \cup {"claim", "lookup"}
          \/ Route(input[s]) = "claim"
    BY DEF Next, Arrive, Claim, Lookup, HandlerOK, HandlerErr, Promote, Plain, Crash,
           Tick, Finish, TypeOK, vars
  <1>3. ClaimsRouted'
    BY <1>i, <1>2 DEF ClaimsRouted
  <1>4. ASSUME NEW k \in RedisKeys, Owed(store'[k])
        PROVE  Owed(store[k]) \/ \E r \in Req : ByNow(k, r)
    <2>1. ASSUME NEW r \in Req, Claim(r) PROVE Owed(store[k]) \/ \E s \in Req : ByNow(k, s)
      <3>1. KeyOf(r) # k => store'[k] = store[k]
        BY <2>1 DEF Claim, SetNX, TypeOK
      <3>2. pc'[r] \notin {"idle", "claim"} /\ Route(input[r]) = "claim"
        BY <2>1 DEF Claim, TypeOK, ClaimsRouted
      <3>. QED BY <1>4, <3>1, <3>2
    <2>2. ASSUME NEW r \in Req, Promote(r) PROVE Owed(store[k]) \/ \E s \in Req : ByNow(k, s)
      <3>1. KeyOf(r) # k => store'[k] = store[k]
        BY <2>2 DEF Promote, TypeOK
      <3>2. pc'[r] \notin {"idle", "claim"} /\ Route(input[r]) = "claim"
        BY <2>2 DEF Promote, Finish, TypeOK, ClaimsRouted
      <3>. QED BY <1>4, <3>1, <3>2
    <2>3. ASSUME Tick PROVE Owed(store[k])
      <3>1. store'[k] = Expire(store[k]) /\ store[k] \in Record
        BY <2>3 DEF Tick, TypeOK
      <3>. QED BY <1>4, <3>1, RequestAssumption DEF Expire, Absent, Record
    <2>4. CASE UNCHANGED store
      BY <1>4, <2>4
    <2>. QED BY <2>1, <2>2, <2>3, <2>4
         DEF Next, Arrive, Lookup, HandlerOK, HandlerErr, Plain, Crash, vars
  <1>5. OnlyAdmittedClaim'
    BY <1>i, <1>1, <1>4, ClaimWellFormed DEF OnlyAdmittedClaim
  <1>. QED BY <1>3, <1>5

\* ADR-016, for any callers, tenants and requests: what the chain rejects never
\* leaves a claim or a response in the store.
THEOREM OnlyAdmittedRequestsClaim == Spec => []OnlyAdmittedClaim
  <1>1. Init => AdmissionInv
    <2>. SUFFICES ASSUME Init PROVE ClaimsRouted /\ OnlyAdmittedClaim
      BY TypeInit DEF AdmissionInv
    <2>1. \A k \in RedisKeys : store[k].state # "pending" /\ store[k].resp \notin Req
      BY SeedAssumption, RequestAssumption DEF Init, Absent
    <2>. QED BY <2>1 DEF Init, ClaimsRouted, OnlyAdmittedClaim, Executing
  <1>2. AdmissionInv /\ [Next]_vars => AdmissionInv'
    BY TypeStep, AdmissionStep DEF AdmissionInv
  <1>3. AdmissionInv => OnlyAdmittedClaim
    BY DEF AdmissionInv
  <1>. QED BY <1>1, <1>2, <1>3, PTL DEF Spec
=============================================================================
