------------------------------ MODULE CallPath ------------------------------
(***************************************************************************)
(* A call from the Go client to the server and back: NewClient and Close   *)
(* (client/client.go), the correlation interceptor                         *)
(* (internal/observability/correlation.go) around the rest of the chain,   *)
(* and the log lines, span attributes and metrics it leaves behind.        *)
(*                                                                         *)
(* Several calls run at once over one client.  The library below the       *)
(* handlers logs through one adapter and whatever loggers it derives from  *)
(* it with With; both are shared by all calls.                             *)
(***************************************************************************)
EXTENDS Config, Client, Redaction, FiniteSets

CONSTANTS
    Calls,        \* the calls made through the client
    Environments, \* environments the server may have been started with
    OptionLists,  \* options the client may be made with
    Contexts,     \* metadata a caller's context may carry
    Requests,     \* requests, as in InterceptorChain, the sender left open
    FieldLists,   \* keysAndValues of the library, without the context
    MaxBound,     \* With calls the library makes
    Grants,       \* the caller registry: identity -> tenants
    CertName,     \* Common Name of the client's certificate
    Missing       \* a metadata value or certificate that is not there

ASSUME CallPathAssumption ==
    /\ MaxBound \in Nat
    /\ IsFiniteSet(Calls) /\ "" \notin Calls
    /\ \A q \in Requests : {"apiKey", "cn"} \subseteq DOMAIN q
    /\ CertName # ""

\* Accepted by config.Load; a key is never mistaken for one that is not there.
ASSUME EnvironmentAssumption ==
    \A e \in Environments :
        /\ LoadError(e) = "" /\ e.callerRegistry # ""
        /\ e.callerKeys \in Seq(Seq(STRING))
        /\ Missing \notin DOMAIN StaticCallerKeys(e)

\* Metadata is a list of pairs; no correlation id of a client's choosing is
\* one that uuid.New() returns, or a raw token.
ASSUME MetadataAssumption ==
    /\ "secret" \notin Calls
    /\ \A o \in OptionLists, ctx \in Contexts :
         LET md == Outgoing(DialConfig(o), ctx) IN
         /\ DialConfig(o).interceptors \in Seq(ToSet(DialConfig(o).interceptors))
         /\ ctx \in Seq(ToSet(ctx))
         /\ \A i \in Positions(md, "x-correlation-id") : md[i][2] \notin Calls \cup {"secret"}

\* The library passes string keys and values in turn, possibly a last key
\* without a value, and a raw token only under one of the deny-listed keys.
ASSUME FieldsAssumption ==
    \A fields \in FieldLists :
        /\ fields \in Seq(ToSet(fields))
        /\ \A i \in DOMAIN fields :
             /\ fields[i].kind # "ctx"
             /\ i % 2 = 1 => /\ fields[i].kind = "str"
                             /\ fields[i].v \notin {"secret", "correlation_id"}
             /\ i % 2 = 0 /\ fields[i].v = "secret" => IsRedactedKey(fields[i-1].v)

VARIABLES
    env, opts, \* what the server and the client were started with
    conn,      \* the client's connection
    stage,     \* where each call is
    sent,      \* the caller's metadata, the call's metadata and its request
    corr,      \* the correlation id bound to each call's context
    identity,  \* the caller identity bound to it
    code,      \* the status the chain returned
    reply,     \* what the client got: a code and the correlation header
    bound,     \* attributes bound to the library's derived logger
    given,     \* history: the field lists they were bound from
    written,   \* the last log line or span attributes written
    requests,  \* MetricGRPCRequests, which is exported without labels
    durations  \* MetricGRPCDuration: how many durations were observed

clientVars == <<env, opts, conn, sent, reply>>
serverVars == <<corr, identity, code>>
outputVars == <<bound, given, written, requests, durations>>
vars == <<stage, clientVars, serverVars, outputVars>>

Chain == INSTANCE InterceptorChain WITH
            AuthMode <- IF TLSMode(env) = "mtls" THEN "mtls" ELSE "static",
            KeyIdentity <- StaticCallerKeys(env),
            Permitted <- Grants

Dialed  == DialConfig(opts)
Outcomes == {"OK", "LibraryError"}
NoReply == [code |-> "none", header |-> ""]
Nothing == [sink |-> "none", attrs |-> <<>>]
NoCall  == [ctx |-> <<>>, md |-> <<>>, req |-> Missing]

Init ==
    /\ env \in Environments /\ opts \in OptionLists
    /\ conn = "none"
    /\ stage = [c \in Calls |-> "idle"]
    /\ sent = [c \in Calls |-> NoCall]
    /\ corr = [c \in Calls |-> ""] /\ identity = [c \in Calls |-> Missing]
    /\ code = [c \in Calls |-> "none"] /\ reply = [c \in Calls |-> NoReply]
    /\ bound = <<>> /\ given = <<>>
    /\ written = Nothing
    /\ requests = 0 /\ durations = 0

-----------------------------------------------------------------------------
(***************************************************************************)
(* The client.                                                             *)
(***************************************************************************)
\* grpc.NewClient in turn refuses an address that it cannot parse.
NewClient ==
    /\ conn = "none"
    /\ conn' \in IF DialError(Dialed) = "" THEN {"open", "refused"} ELSE {"refused"}
    /\ UNCHANGED <<stage, env, opts, sent, reply, serverVars, outputVars>>

\* The RPC methods call the stub.  A client and a server that disagree about
\* the transport never get to exchange a request.
Send(c) ==
    /\ stage[c] = "idle" /\ conn \in {"open", "closed"}
    /\ \E md \in Contexts, q \in Requests :
         sent' = [sent EXCEPT ![c] = [ctx |-> md, md |-> Outgoing(Dialed, md), req |-> q]]
    /\ \/ /\ conn = "open" /\ Transport(Dialed) = TLSMode(env)
          /\ stage' = [stage EXCEPT ![c] = "arrived"]
          /\ UNCHANGED reply
       \/ /\ conn = "open" /\ Transport(Dialed) # TLSMode(env)
          /\ stage' = [stage EXCEPT ![c] = "done"]
          /\ reply' = [reply EXCEPT ![c].code = "Unavailable"]
       \/ /\ conn = "closed"
          /\ stage' = [stage EXCEPT ![c] = "done"]
          /\ reply' = [reply EXCEPT ![c].code = "Canceled"]
    /\ UNCHANGED <<env, opts, conn, serverVars, outputVars>>

\* Close: calls in flight are cancelled for the client; the server goes on.
Close ==
    /\ conn = "open"
    /\ conn' = "closed"
    /\ reply' = [c \in Calls |->
                    IF stage[c] # "idle" /\ reply[c] = NoReply
                    THEN [NoReply EXCEPT !.code = "Canceled"] ELSE reply[c]]
    /\ UNCHANGED <<stage, env, opts, sent, serverVars, outputVars>>

-----------------------------------------------------------------------------
(***************************************************************************)
(* The server.                                                             *)
(***************************************************************************)
SpanWrite(c, map) ==
    [sink |-> "span", by |-> c,
     attrs |-> SetToSeq({[key |-> k, value |-> map[k]] : k \in DOMAIN map})]

\* uuid.New().String(): no other call gets it, so the call itself stands for it.
FreshId(c) == c

\* Mutant: one generated id serves every call that brings none.
CorrelationIdShared(c) ==
    LET first == FirstValue(sent[c].md, "x-correlation-id", "") IN
    IF first = "" THEN "process" ELSE first

\* The first value the client sent, or a new id if that is missing or empty.
CorrelationId(c) ==
    LET first == FirstValue(sent[c].md, "x-correlation-id", "") IN
    IF first = "" THEN FreshId(c) ELSE first

\* The correlation interceptor, up to handler(ctx, req).
Correlate(c) ==
    /\ stage[c] = "arrived"
    /\ stage' = [stage EXCEPT ![c] = "chain"]
    /\ corr' = [corr EXCEPT ![c] = CorrelationId(c)]
    /\ written' = SpanWrite(c, [correlation_id |-> Str(CorrelationId(c))])
    /\ UNCHANGED <<clientVars, identity, code, bound, given, requests, durations>>

\* The request as the rest of the chain sees it.
Arrived(c) ==
    [sent[c].req EXCEPT !.apiKey = FirstValue(sent[c].md, "x-api-key", Missing),
                        !.cn = IF TLSMode(env) = "mtls" THEN CertName ELSE Missing]

\* Authentication, caller authorization, validation, idempotency admission.
RunChain(c) ==
    /\ stage[c] = "chain"
    /\ identity' = [identity EXCEPT ![c] = Chain!Identity(Arrived(c))]
    /\ \/ /\ Chain!Route(Arrived(c)) = "plain"
          /\ stage' = [stage EXCEPT ![c] = "handler"]
          /\ UNCHANGED code
       \/ /\ Chain!Route(Arrived(c)) # "plain"
          /\ stage' = [stage EXCEPT ![c] = "count"]
          /\ code' = [code EXCEPT ![c] = Chain!Route(Arrived(c))]
    /\ UNCHANGED <<clientVars, corr, outputVars>>

Return(c) ==
    /\ stage[c] = "handler"
    /\ stage' = [stage EXCEPT ![c] = "count"]
    /\ \E result \in Outcomes : code' = [code EXCEPT ![c] = result]
    /\ UNCHANGED <<clientVars, corr, identity, outputVars>>

\* Mutant: only calls that the chain let through are counted.
CountServed(c) ==
    /\ stage[c] = "count"
    /\ stage' = [stage EXCEPT ![c] = "time"]
    /\ requests' = IF code[c] \in Outcomes THEN requests + 1 ELSE requests
    /\ UNCHANGED <<clientVars, serverVars, bound, given, written, durations>>

\* PrometheusMetrics.IncrementCounter; the labels it is given go nowhere.
Count(c) ==
    /\ stage[c] = "count"
    /\ stage' = [stage EXCEPT ![c] = "time"]
    /\ requests' = requests + 1
    /\ UNCHANGED <<clientVars, serverVars, bound, given, written, durations>>

\* metrics.RecordDuration, and the answer with its header.
Time(c) ==
    /\ stage[c] = "time"
    /\ stage' = [stage EXCEPT ![c] = "done"]
    /\ durations' = durations + 1
    /\ reply' = IF reply[c] # NoReply THEN reply
                ELSE [reply EXCEPT ![c] = [code |-> code[c], header |-> corr[c]]]
    /\ UNCHANGED <<env, opts, conn, sent, serverVars, bound, given, written, requests>>

-----------------------------------------------------------------------------
(***************************************************************************)
(* The library, on behalf of a call whose handler runs.  It passes the     *)
(* request's context as the first element, or leaves it out.               *)
(***************************************************************************)
KeysAndValues(c, fields, hasCtx) ==
    IF hasCtx THEN <<Ctx(corr[c])>> \o fields ELSE fields

LibraryLog(c) ==
    /\ stage[c] = "handler"
    /\ \E fields \in FieldLists, hasCtx, derived \in BOOLEAN :
         written' =
            [sink |-> "log", by |-> c, ctx |-> hasCtx,
             attrs |-> AdapterLog(IF derived THEN bound ELSE <<>>,
                                  KeysAndValues(c, fields, hasCtx)),
             fields |-> {fields} \cup IF derived THEN ToSet(given) ELSE {}]
    /\ UNCHANGED <<stage, clientVars, serverVars, bound, given, requests, durations>>

LibraryWith(c) ==
    /\ stage[c] = "handler" /\ Len(given) < MaxBound
    /\ \E fields \in FieldLists, hasCtx \in BOOLEAN :
         /\ bound' = AdapterWith(bound, KeysAndValues(c, fields, hasCtx))
         /\ given' = Append(given, fields)
    /\ UNCHANGED <<stage, clientVars, serverVars, written, requests, durations>>

\* The pairs of a list, by position: its reference meaning.
PairsOf(fields) ==
    {[key |-> fields[2*i-1].v, value |-> fields[2*i]] : i \in 1 .. Len(fields) \div 2}

AttributeMap(fields) ==
    [k \in {p.key : p \in PairsOf(fields)} |->
        (CHOOSE p \in PairsOf(fields) : p.key = k).value]

LibrarySpan(c) ==
    /\ stage[c] = "handler"
    /\ \E fields \in FieldLists :
         written' = SpanWrite(c, SpanAttributes(AttributeMap(fields)))
    /\ UNCHANGED <<stage, clientVars, serverVars, bound, given, requests, durations>>

-----------------------------------------------------------------------------
Next ==
    \/ NewClient \/ Close
    \/ \E c \in Calls :
         \/ Send(c) \/ Correlate(c) \/ RunChain(c) \/ Return(c) \/ Count(c) \/ Time(c)
         \/ LibraryLog(c) \/ LibraryWith(c) \/ LibrarySpan(c)

Spec == Init /\ [][Next]_vars

-----------------------------------------------------------------------------
Reached == {c \in Calls : corr[c] # ""}

\* The caller a request is attributed to is the one the operator's settings
\* name for that client: with mTLS the certificate's name, otherwise the
\* identity listed (last) for the first key among the metadata, "=" signs in the
\* key included.  That is the key the client was made with, whatever its
\* interceptors append.  (The caller's own metadata comes before it, and an
\* interceptor that replaces the metadata loses it.)
KeyReachesServer ==
    \A c \in Calls :
        code[c] # "none" /\ Positions(sent[c].ctx, "x-api-key") = {} =>
            IF TLSMode(env) = "mtls" THEN identity[c] = CertName
            ELSE LET key    == FirstValue(sent[c].md, "x-api-key", NoKey)
                     pairs  == env.callerKeys
                     listed == {i \in DOMAIN pairs : Front(pairs[i]) = key}
                 IN  /\ Dialed.staticKey # NoKey /\ Replacing(Dialed.interceptors) = {} =>
                          key = Dialed.staticKey
                     /\ listed = {} => identity[c] = Missing
                     /\ \A i \in listed : (\A j \in listed : j =< i) => identity[c] = Last(pairs[i])

\* The library's raw tokens reach neither the log nor a span, whichever logger
\* they are passed to, by whichever call.
NoSecretLogged ==
    \A a \in ToSet(written.attrs) : a.key # "secret" /\ a.value.v # "secret"

\* Redaction and binding lose nothing else: whatever the library logs under a
\* key that is not deny-listed is in the line, under its key, and so are the
\* fields it bound before.  What is no field, the context, is never printed.
NothingElseLost ==
    /\ \A a \in ToSet(written.attrs) : a.value.kind # "ctx"
    /\ written.sink = "log" =>
        \A p \in UNION {PairsOf(fields) : fields \in written.fields} :
            IsRedactedKey(p.key) \/ p \in ToSet(written.attrs)

CorrelationWritten ==
    \A a \in ToSet(written.attrs) : a.key = "correlation_id" =>
        /\ written.sink = "log" => a.value.v = IF written.ctx THEN corr[written.by] ELSE ""
        /\ written.sink = "span" => a.value.v = corr[written.by]

\* One id follows a call: what is logged for it, its span and the header of its
\* answer carry the id the client sent, or else one that no other call has.  A
\* line logged without a context carries none, whoever derived its logger.
CorrelationFollows ==
    /\ CorrelationWritten
    /\ \A c \in Reached :
         /\ reply[c].header \in {"", corr[c]}
         /\ LET first == FirstValue(sent[c].md, "x-correlation-id", "") IN
            IF first # "" THEN corr[c] = first
            ELSE \A d \in Calls \ {c} : corr[d] # corr[c]

\* Whatever becomes of a call (rejected by an interceptor, failed in the
\* library, abandoned by its client), it is counted once and timed once, both
\* before its answer: no answer is missing from the metrics, and when nothing
\* is in flight they agree with each other and with what arrived.
EveryCallCounted ==
    /\ Cardinality({c \in Calls : reply[c].header # ""}) <= durations
    /\ durations <= requests /\ requests <= Cardinality(Reached)
    /\ (\A c \in Calls : stage[c] \in {"idle", "done"}) =>
         requests = Cardinality(Reached) /\ durations = Cardinality(Reached)

-----------------------------------------------------------------------------
(***************************************************************************)
(* The strengthening of the properties above that steps preserve.          *)
(***************************************************************************)
Stages == {"idle", "arrived", "chain", "handler", "count", "time", "done"}

Shapes ==
    /\ env \in Environments /\ opts \in OptionLists
    /\ stage \in [Calls -> Stages]
    /\ DOMAIN sent = Calls /\ DOMAIN corr = Calls /\ DOMAIN identity = Calls
    /\ DOMAIN code = Calls /\ DOMAIN reply = Calls
    /\ \A c \in Calls : DOMAIN reply[c] = {"code", "header"}

\* A call has an id exactly from the correlation interceptor on, and the
\* metrics hold exactly the calls that interceptor is through with.
Counted == {c \in Reached : stage[c] \in {"time", "done"}}
Timed   == {c \in Reached : stage[c] = "done"}

CountsExact ==
    /\ requests = Cardinality(Counted) /\ durations = Cardinality(Timed)
    /\ \A c \in Calls :
         /\ stage[c] \in {"idle", "arrived"} => c \notin Reached
         /\ stage[c] \in {"chain", "handler", "count", "time"} => c \in Reached
         /\ reply[c].header # "" => c \in Timed

CountInv == Shapes /\ CountsExact

\* What a call was sent with decides its id and, behind authentication, its
\* caller.
IdsFromMetadata ==
    \A c \in Calls :
        /\ stage[c] # "idle" =>
             /\ sent[c].ctx \in Contexts /\ sent[c].req \in Requests
             /\ sent[c].md = Outgoing(Dialed, sent[c].ctx)
        /\ c \in Reached => corr[c] = CorrelationId(c)
        /\ reply[c].header \in {"", corr[c]}

CallersFromMetadata ==
    \A c \in Calls :
        /\ code[c] # "none" => stage[c] \in {"count", "time", "done"}
        /\ stage[c] \in {"handler", "count", "time"} \/ code[c] # "none" =>
             stage[c] # "idle" /\ identity[c] = Chain!Identity(Arrived(c))

\* What is bound to the derived logger: no secret, no context, no id, and every
\* other field it was derived with.
BoundClean ==
    /\ bound \in Seq(ToSet(bound)) /\ given \in Seq(FieldLists)
    /\ \A a \in ToSet(bound) :
         /\ a.key \notin {"secret", "correlation_id"}
         /\ a.value.v # "secret" /\ a.value.kind # "ctx"
    /\ \A fields \in ToSet(given) : \A p \in PairsOf(fields) :
         IsRedactedKey(p.key) \/ p \in ToSet(bound)

WrittenFor == written.sink # "none" => written.by \in Reached

PathInv ==
    /\ CountInv /\ IdsFromMetadata /\ CallersFromMetadata
    /\ BoundClean /\ WrittenFor /\ NoSecretLogged /\ NothingElseLost /\ CorrelationWritten
=============================================================================
