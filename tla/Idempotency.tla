---------------------------- MODULE Idempotency ----------------------------
(***************************************************************************)
(* The idempotency interceptor (internal/interceptor/idempotency.go) over  *)
(* the Redis store (internal/store/redis.go), for the requests of any      *)
(* number of clients on any number of replicas.                            *)
(*                                                                         *)
(* Every request runs in a goroutine of its own; Redis is the only state   *)
(* they share, so each store command and each handler return is an action. *)
(* A request is a one-shot process: a client's retry is another element of *)
(* Req with the same input.                                                *)
(*                                                                         *)
(* Time passes in Tick.  A record carries its remaining time to live in    *)
(* ticks; ttl 0 is Redis's "no expiry", which is what a zero duration      *)
(* configures.  HandlerDeadline bounds the time between a claim and its    *)
(* promotion (the client's deadline: nothing on the server bounds it).     *)
(*                                                                         *)
(* Faults is the set of failures that may happen:                          *)
(*   setnx_err   the claim fails and is not applied                        *)
(*   setnx_lost  the claim is applied but its reply is lost                *)
(*   get_err     the read after a lost claim fails                         *)
(*   set_err     the promotion fails (also: the request's context was      *)
(*               cancelled while its handler ran)                          *)
(*   crash       the replica serving the request dies                      *)
(***************************************************************************)
EXTENDS InterceptorChain

CONSTANTS
    Req,              \* requests that clients may send
    Inputs,           \* what a request may carry
    PendingTTL,       \* cfg.LockTTL, in ticks: life of a claim
    ResponseTTL,      \* cfg.IdempotencyTTL, in ticks: life of a response
    HandlerDeadline,  \* longest time from claim to promotion, in ticks
    Faults,           \* which failures may happen
    SeedRecords,      \* records that earlier releases may have left behind
    NoReq             \* "no request": not an element of Req

AllFaults ==
    {"setnx_err", "setnx_lost", "get_err", "set_err", "crash"}

LegacyResp == "legacy"   \* a response minted by an earlier release

ASSUME RequestAssumption ==
    LegacyResp \notin Req /\ NoReq \notin Req \cup {LegacyResp}
ASSUME TTLAssumption ==
    PendingTTL \in Nat /\ ResponseTTL \in Nat /\ HandlerDeadline \in Nat
ASSUME FaultAssumption == Faults \subseteq AllFaults

VARIABLES
    pc,       \* where each request is
    input,    \* what each request carries
    store,    \* Redis: idempotency key -> record
    age,      \* ticks since the request's claim, while its handler runs
    reply,    \* what the client was answered
    window    \* history: ticks left of the retention the service owes to the
              \* request's own effect (0: no effect, over, or void because
              \* its response could not be stored)

vars == <<pc, input, store, age, reply, window>>

NoFp == <<>>   \* no fingerprint stored

Record == [state : {"absent", "pending", "completed", "unreadable"},
           resp : Req \cup {NoReq, LegacyResp},
           fp : {NoFp} \cup {Fingerprint(q) : q \in Inputs},
           ttl : Nat]

ASSUME SeedAssumption ==
    \A s \in SeedRecords :
        /\ s \in Record
        /\ \/ s.state = "completed" /\ s.resp = LegacyResp /\ s.fp = NoFp
           \/ s.state = "unreadable" /\ s.resp = NoReq

Absent  == [state |-> "absent", resp |-> NoReq, fp |-> NoFp, ttl |-> 0]
\* Mutant: the claim written without a TTL.
PendingWithoutTTL == [state |-> "pending", resp |-> NoReq, fp |-> NoFp, ttl |-> 0]

Pending == [state |-> "pending", resp |-> NoReq, fp |-> NoFp,
            ttl |-> PendingTTL]
\* Mutant: the response written with the claim's TTL.
CompletedWithPendingTTL(r) == [state |-> "completed", resp |-> r,
                               fp |-> Fingerprint(input[r]), ttl |-> PendingTTL]

\* encodeCompletedRecord: the response minted by r, and r's fingerprint
Completed(r) == [state |-> "completed", resp |-> r,
                 fp |-> Fingerprint(input[r]), ttl |-> ResponseTTL]

RedisKeys == {RedisKey(q) : q \in {i \in Inputs : Route(i) = "claim"}}
KeyOf(r)  == RedisKey(input[r])

\* Stages in which the request holds (or believes it holds) the claim.
Executing == {"handler", "promote"}
Running   == Executing \cup {"claim", "lookup", "plain"}
Stages    == Running \cup {"idle", "done", "crashed"}

Codes == RejectCodes \cup {"OK", "Aborted", "FailedPrecondition", "HandlerError"}
NoReply == [code |-> "none", resp |-> NoReq]
Answer(code, resp) == [code |-> code, resp |-> resp]
Reply == [code : Codes \cup {"none"}, resp : Req \cup {NoReq, LegacyResp}]

\* The type invariant: every variable in its set, a request at the store has a
\* key, and an OK answer carries a response.
TypeOK ==
    /\ pc \in [Req -> Stages]
    /\ input \in [Req -> Inputs]
    /\ store \in [RedisKeys -> Record]
    /\ age \in [Req -> 0 .. HandlerDeadline]
    /\ reply \in [Req -> Reply]
    /\ window \in [Req -> 0 .. ResponseTTL]
    /\ \A r \in Req :
         /\ pc[r] \in Executing \cup {"claim", "lookup"} => KeyOf(r) \in RedisKeys
         /\ reply[r].code = "OK" => reply[r].resp # NoReq
    /\ \A k \in RedisKeys : store[k].state = "completed" => store[k].resp # NoReq

-----------------------------------------------------------------------------
Init ==
    /\ pc = [r \in Req |-> "idle"]
    /\ input \in [Req -> Inputs]
    /\ store \in [RedisKeys -> {Absent} \cup SeedRecords]
    /\ age = [r \in Req |-> 0]
    /\ reply = [r \in Req |-> NoReply]
    /\ window = [r \in Req |-> 0]

Finish(r, a) ==
    /\ pc' = [pc EXCEPT ![r] = "done"]
    /\ reply' = [reply EXCEPT ![r] = a]

(***************************************************************************)
(* The interceptor chain up to the claim: the request is rejected, passed  *)
(* to the handler without the store, or goes on to claim its key.          *)
(***************************************************************************)
Arrive(r) ==
    /\ pc[r] = "idle"
    /\ LET route == Route(input[r]) IN
         \/ /\ route \in {"claim", "plain"}
            /\ pc' = [pc EXCEPT ![r] = route]
            /\ UNCHANGED reply
         \/ /\ route \in RejectCodes
            /\ Finish(r, Answer(route, NoReq))
    /\ UNCHANGED <<input, store, age, window>>

(***************************************************************************)
(* SetNX of the pending record.  Redis creates the key only if it is       *)
(* absent.  An error is logged and the handler runs anyway.                *)
(***************************************************************************)
\* Mutant: SET instead of SET NX.
SetNXOverwrites(k) == [store EXCEPT ![k] = Pending]

SetNX(k) == IF store[k].state = "absent"
            THEN [store EXCEPT ![k] = Pending] ELSE store

\* Mutant: check the key with a read, claim it unconditionally.
ClaimWithoutNX(r) ==
    /\ pc[r] = "claim"
    /\ pc' = [pc EXCEPT ![r] = IF store[KeyOf(r)].state \in {"absent", "pending"}
                               THEN "handler" ELSE "lookup"]
    /\ store' = SetNX(KeyOf(r))
    /\ UNCHANGED <<input, age, reply, window>>

Claim(r) ==
    /\ pc[r] = "claim"
    /\ \/ /\ pc' = [pc EXCEPT ![r] = IF store[KeyOf(r)].state = "absent"
                                     THEN "handler" ELSE "lookup"]
          /\ store' = SetNX(KeyOf(r))
       \/ /\ "setnx_err" \in Faults
          /\ pc' = [pc EXCEPT ![r] = "handler"]
          /\ UNCHANGED store
       \/ /\ "setnx_lost" \in Faults
          /\ pc' = [pc EXCEPT ![r] = "handler"]
          /\ store' = SetNX(KeyOf(r))
    /\ UNCHANGED <<input, age, reply, window>>

(***************************************************************************)
(* The claim was lost: answer from the record that Get finds.  A record    *)
(* that is pending, unreadable or gone by now, and a failed Get, all make  *)
(* the request a concurrent duplicate.                                     *)
(***************************************************************************)
\* Mutants: the fingerprint is not compared; any record counts as completed.
ResolveIgnoringFingerprint(rec, q) ==
    IF rec.state # "completed" THEN Answer("Aborted", NoReq)
    ELSE Answer("OK", rec.resp)
ResolveIgnoringState(rec, q) ==
    IF rec.fp # NoFp /\ rec.fp # Fingerprint(q)
    THEN Answer("FailedPrecondition", NoReq) ELSE Answer("OK", rec.resp)

ResolveExistingRecord(rec, q) ==
    IF rec.state # "completed" THEN Answer("Aborted", NoReq)
    ELSE IF rec.fp # NoFp /\ rec.fp # Fingerprint(q)
         THEN Answer("FailedPrecondition", NoReq)
    ELSE Answer("OK", rec.resp)

\* Mutant: wait for the winner's response instead of failing fast.
LookupWaits(r) ==
    /\ pc[r] = "lookup"
    /\ store[KeyOf(r)].state = "completed"
    /\ Finish(r, ResolveExistingRecord(store[KeyOf(r)], input[r]))
    /\ UNCHANGED <<input, store, age, window>>

Lookup(r) ==
    /\ pc[r] = "lookup"
    /\ \/ Finish(r, ResolveExistingRecord(store[KeyOf(r)], input[r]))
       \/ "get_err" \in Faults /\ Finish(r, Answer("Aborted", NoReq))
    /\ UNCHANGED <<input, store, age, window>>

(***************************************************************************)
(* The handler returns.  An error leaves the claim to expire.              *)
(***************************************************************************)
HandlerOK(r) ==
    /\ pc[r] = "handler"
    /\ pc' = [pc EXCEPT ![r] = "promote"]
    /\ window' = [window EXCEPT ![r] = ResponseTTL]
    /\ UNCHANGED <<input, store, age, reply>>

HandlerErr(r) ==
    /\ pc[r] = "handler"
    /\ Finish(r, Answer("HandlerError", NoReq))
    /\ age' = [age EXCEPT ![r] = 0]
    /\ UNCHANGED <<input, store, window>>

(***************************************************************************)
(* Set of the completed record, unconditional; an error is only logged.    *)
(***************************************************************************)
\* Mutant: answer without storing the response.
PromoteForgets(r) ==
    /\ pc[r] = "promote"
    /\ Finish(r, Answer("OK", r))
    /\ age' = [age EXCEPT ![r] = 0]
    /\ UNCHANGED <<input, store, window>>

Promote(r) ==
    /\ pc[r] = "promote"
    /\ \/ /\ store' = [store EXCEPT ![KeyOf(r)] = Completed(r)]
          /\ UNCHANGED window
       \/ /\ "set_err" \in Faults
          /\ window' = [window EXCEPT ![r] = 0]
          /\ UNCHANGED store
    /\ Finish(r, Answer("OK", r))
    /\ age' = [age EXCEPT ![r] = 0]
    /\ UNCHANGED input

\* A request without an idempotency key, or of another RPC.
Plain(r) ==
    /\ pc[r] = "plain"
    /\ \/ Finish(r, Answer("OK", r))
       \/ Finish(r, Answer("HandlerError", NoReq))
    /\ UNCHANGED <<input, store, age, window>>

Crash(r) ==
    /\ "crash" \in Faults
    /\ pc[r] \in Running
    /\ pc' = [pc EXCEPT ![r] = "crashed"]
    /\ age' = [age EXCEPT ![r] = 0]
    /\ window' = [window EXCEPT ![r] = 0]
    /\ UNCHANGED <<input, store, reply>>

(***************************************************************************)
(* One tick: records age and expire.  No request outlives its deadline.    *)
(***************************************************************************)
Expire(rec) == IF rec.ttl = 0 THEN rec
               ELSE IF rec.ttl = 1 THEN Absent
               ELSE [rec EXCEPT !.ttl = rec.ttl - 1]

Tick ==
    /\ \A r \in Req : pc[r] \in Executing => age[r] < HandlerDeadline
    /\ store' = [k \in RedisKeys |-> Expire(store[k])]
    /\ age' = [r \in Req |-> IF pc[r] \in Executing THEN age[r] + 1 ELSE age[r]]
    /\ window' = [r \in Req |-> IF window[r] = 0 THEN 0 ELSE window[r] - 1]
    /\ UNCHANGED <<pc, input, reply>>

Next ==
    \/ \E r \in Req : \/ Arrive(r) \/ Claim(r) \/ Lookup(r)
                      \/ HandlerOK(r) \/ HandlerErr(r)
                      \/ Promote(r) \/ Plain(r) \/ Crash(r)
    \/ Tick

Spec == Init /\ [][Next]_vars

(***************************************************************************)
(* Goroutines are scheduled, handlers return (library calls have client    *)
(* deadlines) and time passes; nothing makes clients send, or crash.       *)
(***************************************************************************)
Fairness ==
    /\ \A r \in Req : /\ WF_vars(Claim(r)) /\ WF_vars(Lookup(r))
                      /\ WF_vars(HandlerOK(r) \/ HandlerErr(r))
                      /\ WF_vars(Promote(r)) /\ WF_vars(Plain(r))
    /\ WF_vars(Tick)

FairSpec == Spec /\ Fairness

-----------------------------------------------------------------------------
(***************************************************************************)
(* Safety.                                                                 *)
(***************************************************************************)

\* "At most one concurrent request with the same key reaches the handler":
\* the claim keeps two executions of the handler for one idempotency key from
\* overlapping, as long as handlers finish within the claim's life and SetNX
\* itself does not fail.
ClaimExclusive ==
    \A r, s \in Req :
        /\ pc[r] \in Executing /\ pc[s] \in Executing
        /\ KeyOf(r) = KeyOf(s)
        => r = s

\* The same as a refinement: the claim protocol implements Mutex, with one
\* resource per idempotency key.
Inside == [k \in RedisKeys |-> {r \in Req : pc[r] \in Executing /\ KeyOf(r) = k}]
ClaimMutex == INSTANCE Mutex WITH Proc <- Req, Res <- RedisKeys, inside <- Inside
ImplementsMutex == ClaimMutex!Spec

\* At-most-once within the retention window: while ResponseTTL has not passed
\* since a handler's effect, no other request with that key has an effect.  An
\* effect whose response was never stored, because the promotion failed or the
\* replica died first, is owed nothing: the code lets its claim expire and a
\* retry act again.
AtMostOnce ==
    \A r, s \in Req :
        window[r] > 0 /\ window[s] > 0 /\ KeyOf(r) = KeyOf(s) => r = s

\* A replayed response (an OK answer minted by another request) was really
\* minted by a request with the same Redis key and the same fingerprint:
\* nobody is answered with the tokens of a different request.  Responses of
\* earlier releases carry no fingerprint and are exempt, as in ADR-013.
ReplayFaithful ==
    \A r \in Req :
        LET q == reply[r].resp IN
        reply[r].code = "OK" /\ q \in Req \ {r} =>
            /\ pc[q] \in {"done", "crashed"}
            /\ reply[q] \in {Answer("OK", q), NoReply}
            /\ KeyOf(q) = KeyOf(r)
            /\ Fingerprint(input[q]) = Fingerprint(input[r])

\* What a request must look like for the service to act on it, stated without
\* reference to the order of the interceptors.
WellFormed(q) ==
    /\ Identity(q) \in DOMAIN Permitted
    /\ q.tenant \in Permitted[Identity(q)]
    /\ q.tenant # <<>> /\ q.id # ""
    /\ \A c \in q.claims : c[1] \notin ReservedClaimKeys

\* ADR-016: a request that fails authentication, authorization or validation
\* never writes a claim, so every record of this release is owed to a
\* well-formed request that got past the claim.
OnlyAdmittedClaim ==
    \A k \in RedisKeys :
        store[k].state = "pending" \/ store[k].resp \in Req =>
            \E r \in Req : /\ pc[r] \notin {"idle", "claim"}
                          /\ KeyOf(r) = k
                          /\ WellFormed(input[r])

CompletedAges ==
    \A k \in RedisKeys : store[k].state = "completed" =>
        \/ store'[k] = Absent /\ store[k].ttl = 1
        \/ store'[k] \in {store[k], [store[k] EXCEPT !.ttl = store[k].ttl - 1]}

\* A completed response is never overwritten, replaced by a claim or deleted:
\* it only ages, and disappears when its last tick has passed.
CompletedOnlyAges == [][CompletedAges]_vars

(***************************************************************************)
(* Liveness, under FairSpec.                                               *)
(***************************************************************************)

\* Every request that entered the interceptor is answered, unless its replica
\* dies: losers of a claim fail fast instead of waiting for the winner.
EventuallyAnswered ==
    \A r \in Req : pc[r] \in Running ~> pc[r] \in {"done", "crashed"}

\* A claim never blocks its key for good: it is promoted or it expires, also
\* when its handler failed or its replica died.
ClaimResolves ==
    \A k \in RedisKeys : store[k].state = "pending" ~> store[k].state # "pending"

-----------------------------------------------------------------------------
(***************************************************************************)
(* The inductive invariants behind ClaimExclusive and AtMostOnce.          *)
(***************************************************************************)

\* The operating conditions of the two results: handlers finish before their
\* claim can expire, and Redis answers every SetNX.
TimelyHandlers == HandlerDeadline < PendingTTL
ReliableClaims == Faults \cap {"setnx_err", "setnx_lost"} = {}

\* Whoever runs a handler still owns a pending record whose remaining life is
\* exactly what the claim's life leaves after the request's age.
ClaimBacked ==
    \A r \in Req :
        /\ pc[r] \in Executing => /\ store[KeyOf(r)].state = "pending"
                                  /\ store[KeyOf(r)].ttl + age[r] = PendingTTL
        /\ pc[r] \notin Executing => age[r] = 0

ExclusionInv == TypeOK /\ ClaimBacked /\ ClaimExclusive

\* An open window is covered: its request is about to promote, or its response
\* is stored and outlives the window.
WindowCovered ==
    \A r \in Req : window[r] > 0 =>
        \/ pc[r] = "promote"
        \/ /\ pc[r] = "done"
           /\ KeyOf(r) \in RedisKeys
           /\ store[KeyOf(r)].state = "completed"
           /\ store[KeyOf(r)].resp = r
           /\ window[r] <= store[KeyOf(r)].ttl

OnceInv == ExclusionInv /\ WindowCovered

(***************************************************************************)
(* The inductive invariants behind ReplayFaithful and OnlyAdmittedClaim,   *)
(* which hold under every fault and for handlers of any speed.             *)
(***************************************************************************)

\* A stored response of this release is filed under the key, and carries the
\* fingerprint, of the request that minted it and was answered with it.
StoredFaithful ==
    \A k \in RedisKeys :
        LET q == store[k].resp IN
        store[k].state = "completed" /\ q \in Req =>
            /\ pc[q] = "done" /\ reply[q] = Answer("OK", q)
            /\ KeyOf(q) = k
            /\ store[k].fp = Fingerprint(input[q])

ReplayInv == TypeOK /\ StoredFaithful /\ ReplayFaithful

\* Whoever is at the store was sent there by the whole chain.
ClaimsRouted ==
    \A r \in Req : pc[r] \in Executing \cup {"claim", "lookup"} => Route(input[r]) = "claim"

AdmissionInv == TypeOK /\ ClaimsRouted /\ OnlyAdmittedClaim
=============================================================================
