--------------------------- MODULE CallPathProofs ---------------------------
(***************************************************************************)
(* Theorems about CallPath: what the metrics, the log, the spans and the   *)
(* answers say of the calls, for any number of them.                       *)
(***************************************************************************)
EXTENDS CallPath, TLAPS, FiniteSetTheorems, WellFoundedInduction

-----------------------------------------------------------------------------
(***************************************************************************)
(* The metrics.                                                            *)
(***************************************************************************)
LEMMA CorrelationIdSet == ASSUME NEW c \in Calls PROVE CorrelationId(c) # ""
  BY CallPathAssumption DEF CorrelationId, FreshId

LEMMA FiniteCounts ==
    /\ IsFiniteSet(Reached) /\ IsFiniteSet(Counted) /\ IsFiniteSet(Timed)
    /\ Cardinality(Reached) \in Nat /\ Cardinality(Counted) \in Nat
    /\ Cardinality(Timed) \in Nat
  <1>1. IsFiniteSet(Reached) /\ IsFiniteSet(Counted) /\ IsFiniteSet(Timed)
    <2>1. Reached \in SUBSET Calls /\ Counted \in SUBSET Calls /\ Timed \in SUBSET Calls
      BY DEF Reached, Counted, Timed
    <2>. QED BY <2>1, CallPathAssumption, FS_Subset
  <1>. QED BY <1>1, FS_CardinalityType

LEMMA ShapesInit == Init => Shapes
  <1>. SUFFICES ASSUME Init PROVE Shapes
    OBVIOUS
  <1>1. stage \in [Calls -> Stages]
    BY DEF Init, Stages
  <1>2. \A c \in Calls : DOMAIN reply[c] = {"code", "header"}
    BY DEF Init, NoReply
  <1>. QED BY <1>1, <1>2 DEF Init, Shapes

LEMMA ShapesStep == Shapes /\ [Next]_vars => Shapes'
  <1>. SUFFICES ASSUME Shapes, [Next]_vars PROVE Shapes'
    OBVIOUS
  <1>. USE DEF Shapes, Stages, serverVars, clientVars, outputVars
  <1>1. CASE NewClient
    BY <1>1 DEF NewClient
  <1>2. CASE Close
    BY <1>2 DEF Close, NoReply
  <1>3. ASSUME NEW c \in Calls, Send(c) PROVE Shapes'
    BY <1>3 DEF Send
  <1>4. ASSUME NEW c \in Calls, Correlate(c) PROVE Shapes'
    BY <1>4 DEF Correlate
  <1>5. ASSUME NEW c \in Calls, RunChain(c) PROVE Shapes'
    BY <1>5 DEF RunChain
  <1>6. ASSUME NEW c \in Calls, Return(c) PROVE Shapes'
    BY <1>6 DEF Return
  <1>7. ASSUME NEW c \in Calls, Count(c) PROVE Shapes'
    BY <1>7 DEF Count
  <1>8. ASSUME NEW c \in Calls, Time(c) PROVE Shapes'
    BY <1>8 DEF Time
  <1>9. ASSUME NEW c \in Calls, LibraryLog(c) \/ LibraryWith(c) \/ LibrarySpan(c) PROVE Shapes'
    BY <1>9 DEF LibraryLog, LibraryWith, LibrarySpan
  <1>10. CASE UNCHANGED vars
    BY <1>10 DEF vars
  <1>. QED BY <1>1, <1>2, <1>3, <1>4, <1>5, <1>6, <1>7, <1>8, <1>9, <1>10 DEF Next

\* Steps that move no call between the sets the metrics count.
LEMMA CountsKept ==
    ASSUME Shapes, CountsExact, Shapes',
           UNCHANGED <<corr, requests, durations>>,
           \A d \in Calls : stage'[d] = stage[d] \/
                /\ stage'[d] \notin {"idle", "arrived"}
                /\ stage[d] \notin {"idle", "arrived", "time", "done"}
                /\ stage'[d] \notin {"time", "done"},
           \A d \in Calls : reply'[d].header = reply[d].header
    PROVE  CountsExact'
  <1>1. Reached' = Reached
    BY DEF Reached
  <1>2. Counted' = Counted /\ Timed' = Timed
    BY <1>1 DEF Counted, Timed, Reached
  <1>3. ASSUME NEW d \in Calls
        PROVE  /\ stage'[d] \in {"idle", "arrived"} => d \notin Reached'
               /\ stage'[d] \in {"chain", "handler", "count", "time"} => d \in Reached'
               /\ reply'[d].header # "" => d \in Timed'
    <2>. stage[d] \in Stages /\ stage'[d] \in Stages
      BY DEF Shapes
    <2>. QED BY <1>1, <1>2 DEF CountsExact, Stages
  <1>. QED BY <1>2, <1>3 DEF CountsExact

LEMMA CountsStep == CountInv /\ [Next]_vars => CountInv'
  <1>. SUFFICES ASSUME CountInv, [Next]_vars PROVE CountsExact'
    BY ShapesStep DEF CountInv
  <1>. Shapes /\ Shapes' /\ CountsExact
    BY ShapesStep DEF CountInv
  <1>1. CASE NewClient
    BY <1>1, CountsKept DEF NewClient, serverVars, outputVars
  <1>2. CASE Close
    <2>1. \A d \in Calls : reply'[d].header = reply[d].header
      BY <1>2 DEF Close, NoReply
    <2>. QED BY <1>2, <2>1, CountsKept DEF Close, serverVars, outputVars
  <1>3. ASSUME NEW c \in Calls, Send(c) PROVE CountsExact'
    <2>1. stage[c] = "idle" /\ stage'[c] \in {"arrived", "done"}
      BY <1>3 DEF Send, Shapes
    <2>2. \A d \in Calls : d # c => stage'[d] = stage[d]
      BY <1>3 DEF Send, Shapes
    <2>3. \A d \in Calls : reply'[d].header = reply[d].header
      BY <1>3 DEF Send, Shapes
    <2>4. UNCHANGED <<corr, requests, durations>> /\ Reached' = Reached
      BY <1>3 DEF Send, serverVars, outputVars, Reached
    <2>5. c \notin Reached /\ reply[c].header = ""
      BY <2>1 DEF CountsExact, Timed
    <2>6. Counted' = Counted /\ Timed' = Timed
      BY <2>1, <2>2, <2>4, <2>5 DEF Counted, Timed, Reached
    <2>. QED BY <2>1, <2>2, <2>3, <2>4, <2>5, <2>6 DEF CountsExact, Timed
  <1>4. ASSUME NEW c \in Calls, Correlate(c) PROVE CountsExact'
    <2>1. stage[c] = "arrived" /\ stage'[c] = "chain"
      BY <1>4 DEF Correlate, Shapes
    <2>2. \A d \in Calls : d # c => stage'[d] = stage[d] /\ corr'[d] = corr[d]
      BY <1>4 DEF Correlate, Shapes
    <2>3. UNCHANGED <<reply, requests, durations>>
      BY <1>4 DEF Correlate, clientVars
    <2>4. corr'[c] # ""
      BY <1>4, CorrelationIdSet DEF Correlate, Shapes
    <2>5. Reached' = Reached \cup {c}
      BY <2>2, <2>4 DEF Reached
    <2>6. Counted' = Counted /\ Timed' = Timed
      BY <2>1, <2>2, <2>5 DEF Counted, Timed, Reached
    <2>. QED BY <2>1, <2>2, <2>3, <2>5, <2>6 DEF CountsExact
  <1>5. ASSUME NEW c \in Calls, RunChain(c) \/ Return(c) PROVE CountsExact'
    BY <1>5, CountsKept DEF RunChain, Return, clientVars, outputVars, Shapes
  <1>6. ASSUME NEW c \in Calls, Count(c) PROVE CountsExact'
    <2>1. stage[c] = "count" /\ stage'[c] = "time" /\ c \in Reached
      BY <1>6 DEF Count, Shapes, CountsExact
    <2>2. \A d \in Calls : d # c => stage'[d] = stage[d]
      BY <1>6 DEF Count, Shapes
    <2>3. UNCHANGED <<reply, corr, durations>> /\ Reached' = Reached
      BY <1>6 DEF Count, clientVars, serverVars, Reached
    <2>4. Counted' = Counted \cup {c} /\ Timed' = Timed /\ c \notin Counted
      BY <2>1, <2>2, <2>3 DEF Counted, Timed, Reached
    <2>5. Cardinality(Counted') = Cardinality(Counted) + 1
      BY <2>4, FiniteCounts, FS_AddElement
    <2>6. requests' = Cardinality(Counted')
      BY <1>6, <2>5 DEF Count, CountsExact
    <2>. QED BY <2>1, <2>2, <2>3, <2>4, <2>6 DEF CountsExact
  <1>7. ASSUME NEW c \in Calls, Time(c) PROVE CountsExact'
    <2>1. stage[c] = "time" /\ stage'[c] = "done" /\ c \in Reached
      BY <1>7 DEF Time, Shapes, CountsExact
    <2>2. \A d \in Calls : d # c => stage'[d] = stage[d] /\ reply'[d] = reply[d]
      BY <1>7 DEF Time, Shapes
    <2>3. UNCHANGED <<corr, requests>> /\ Reached' = Reached
      BY <1>7 DEF Time, serverVars, Reached
    <2>4. Timed' = Timed \cup {c} /\ Counted' = Counted /\ c \notin Timed
      BY <2>1, <2>2, <2>3 DEF Counted, Timed, Reached
    <2>5. Cardinality(Timed') = Cardinality(Timed) + 1
      BY <2>4, FiniteCounts, FS_AddElement
    <2>6. durations' = Cardinality(Timed')
      BY <1>7, <2>5 DEF Time, CountsExact
    <2>. QED BY <2>1, <2>2, <2>3, <2>4, <2>6 DEF CountsExact
  <1>8. ASSUME NEW c \in Calls, LibraryLog(c) \/ LibraryWith(c) \/ LibrarySpan(c)
        PROVE  CountsExact'
    BY <1>8, CountsKept DEF LibraryLog, LibraryWith, LibrarySpan, clientVars, serverVars
  <1>9. CASE UNCHANGED vars
    BY <1>9, CountsKept DEF vars, clientVars, serverVars, outputVars
  <1>. QED BY <1>1, <1>2, <1>3, <1>4, <1>5, <1>6, <1>7, <1>8, <1>9 DEF Next

LEMMA CountsInit == Init => CountInv
  <1>. SUFFICES ASSUME Init PROVE CountInv
    OBVIOUS
  <1>1. Shapes /\ Reached = {} /\ Counted = {} /\ Timed = {}
    BY ShapesInit DEF Init, Reached, Counted, Timed
  <1>. QED BY <1>1, FS_EmptySet DEF Init, CountInv, CountsExact, NoReply

\* The metrics hold exactly the calls the correlation interceptor is through with.
THEOREM CountsHold == Spec => []CountInv
  BY CountsInit, CountsStep, PTL DEF Spec

\* Every call is counted once and timed once before its answer, whatever became
\* of it, and at rest the metrics equal the number of calls that arrived.
THEOREM CallsAllCounted == Spec => []EveryCallCounted
  <1>1. CountInv => EveryCallCounted
    <2>. SUFFICES ASSUME CountInv PROVE EveryCallCounted
      OBVIOUS
    <2>. DEFINE answered == {c \in Calls : reply[c].header # ""}
    <2>1. answered \in SUBSET Timed /\ Timed \in SUBSET Counted /\ Counted \in SUBSET Reached
      BY DEF CountInv, CountsExact, Counted, Timed
    <2>2. /\ Cardinality(answered) <= Cardinality(Timed)
          /\ Cardinality(Timed) <= Cardinality(Counted)
          /\ Cardinality(Counted) <= Cardinality(Reached)
      BY <2>1, FiniteCounts, FS_Subset
    <2>3. ASSUME \A c \in Calls : stage[c] \in {"idle", "done"}
          PROVE  Counted = Reached /\ Timed = Reached
      BY <2>3 DEF CountInv, CountsExact, Counted, Timed, Reached
    <2>. QED BY <2>2, <2>3 DEF EveryCallCounted, CountInv, CountsExact
  <1>. QED BY <1>1, CountsHold, PTL

-----------------------------------------------------------------------------
(***************************************************************************)
(* Ids and callers.                                                        *)
(***************************************************************************)
IdInv == CountInv /\ IdsFromMetadata /\ CallersFromMetadata

LEMMA IdsInit == Init => IdInv
  <1>. SUFFICES ASSUME Init PROVE IdInv
    OBVIOUS
  <1>1. CountInv
    BY CountsInit
  <1>2. IdsFromMetadata
    BY DEF Init, IdsFromMetadata, Reached, NoReply
  <1>3. CallersFromMetadata
    BY DEF Init, CallersFromMetadata
  <1>. QED BY <1>1, <1>2, <1>3 DEF IdInv

\* A step that leaves a call's metadata alone leaves its id and caller alone.
LEMMA IdsKept ==
    ASSUME IdInv, NEW c \in Calls, UNCHANGED <<env, opts>>,
           sent'[c] = sent[c], corr'[c] = corr[c], reply'[c].header \in {reply[c].header, corr[c]},
           stage'[c] # "idle" => stage[c] # "idle"
    PROVE  /\ stage'[c] # "idle" =>
                /\ sent'[c].ctx \in Contexts /\ sent'[c].req \in Requests
                /\ sent'[c].md = Outgoing(Dialed', sent'[c].ctx)
           /\ c \in Reached' => corr'[c] = CorrelationId(c)'
           /\ reply'[c].header \in {"", corr'[c]}
           /\ Arrived(c)' = Arrived(c) /\ Chain!Identity(Arrived(c))' = Chain!Identity(Arrived(c))
  <1>1. Dialed' = Dialed
    BY DEF Dialed
  <1>2. CorrelationId(c)' = CorrelationId(c)
    BY DEF CorrelationId
  <1>3. c \in Reached' <=> c \in Reached
    BY DEF Reached
  <1>4. Arrived(c)' = Arrived(c)
    BY DEF Arrived
  <1>5. Chain!Identity(Arrived(c))' = Chain!Identity(Arrived(c))
    BY <1>4 DEF Chain!Identity, Chain!MTLSAuthenticate, Chain!StaticKeyAuthenticate
  <1>. QED BY <1>1, <1>2, <1>3, <1>4, <1>5 DEF IdInv, IdsFromMetadata

LEMMA IdsStep == IdInv /\ [Next]_vars => IdsFromMetadata'
  <1>. SUFFICES ASSUME IdInv, [Next]_vars, NEW d \in Calls
                PROVE  /\ stage'[d] # "idle" =>
                            /\ sent'[d].ctx \in Contexts /\ sent'[d].req \in Requests
                            /\ sent'[d].md = Outgoing(Dialed', sent'[d].ctx)
                       /\ d \in Reached' => corr'[d] = CorrelationId(d)'
                       /\ reply'[d].header \in {"", corr'[d]}
    BY DEF IdsFromMetadata
  <1>. CountInv /\ Shapes /\ CountsExact /\ CountInv'
    BY CountsStep DEF IdInv, CountInv
  <1>1. CASE NewClient
    BY <1>1, IdsKept DEF NewClient, serverVars
  <1>2. CASE Close
    <2>1. reply'[d].header = reply[d].header
      BY <1>2 DEF Close, NoReply
    <2>. QED BY <1>2, <2>1, IdsKept DEF Close, serverVars
  <1>3. CASE \E c \in Calls : Send(c)
    <2>1. PICK c \in Calls : Send(c)
      BY <1>3
    <2>2. UNCHANGED <<env, opts, corr>> /\ Dialed' = Dialed
      BY <2>1 DEF Send, serverVars, Dialed
    <2>3. reply'[d].header = reply[d].header
      BY <2>1 DEF Send, Shapes
    <2>4. CASE d # c
      <3>1. sent'[d] = sent[d] /\ stage'[d] = stage[d]
        BY <2>1, <2>4 DEF Send, Shapes
      <3>. QED BY <2>2, <2>3, <3>1, IdsKept
    <2>5. CASE d = c
      <3>1. /\ sent'[d].ctx \in Contexts /\ sent'[d].req \in Requests
            /\ sent'[d].md = Outgoing(Dialed, sent'[d].ctx)
        BY <2>1, <2>5 DEF Send, Shapes
      <3>2. d \notin Reached'
        BY <2>1, <2>2, <2>5 DEF Send, CountsExact, Reached
      <3>3. reply'[d].header = ""
        BY <2>1, <2>3, <2>5 DEF Send, CountsExact, Timed
      <3>. QED BY <2>2, <3>1, <3>2, <3>3
    <2>. QED BY <2>4, <2>5
  <1>4. CASE \E c \in Calls : Correlate(c)
    <2>1. PICK c \in Calls : Correlate(c)
      BY <1>4
    <2>2. UNCHANGED <<env, opts, sent, reply>> /\ Dialed' = Dialed
      BY <2>1 DEF Correlate, clientVars, Dialed
    <2>3. CASE d # c
      <3>1. corr'[d] = corr[d] /\ stage'[d] = stage[d]
        BY <2>1, <2>3 DEF Correlate, Shapes
      <3>. QED BY <2>2, <3>1, IdsKept
    <2>4. CASE d = c
      <3>1. stage[d] = "arrived" /\ corr'[d] = CorrelationId(d)
        BY <2>1, <2>4 DEF Correlate, Shapes
      <3>2. CorrelationId(d)' = CorrelationId(d)
        BY <2>2 DEF CorrelationId
      <3>3. reply'[d].header = ""
        BY <2>2, <3>1 DEF CountsExact, Timed
      <3>. QED BY <2>2, <3>1, <3>2, <3>3 DEF IdInv, IdsFromMetadata
    <2>. QED BY <2>3, <2>4
  <1>5. CASE \E c \in Calls : RunChain(c) \/ Return(c) \/ Count(c)
    <2>1. UNCHANGED <<env, opts, sent, reply, corr>> /\ (stage'[d] # "idle" => stage[d] # "idle")
      BY <1>5 DEF RunChain, Return, Count, clientVars, serverVars, Shapes
    <2>. QED BY <2>1, IdsKept
  <1>6. CASE \E c \in Calls : Time(c)
    <2>1. UNCHANGED <<env, opts, sent, corr>> /\ (stage'[d] # "idle" => stage[d] # "idle")
      BY <1>6 DEF Time, serverVars, Shapes
    <2>2. reply'[d].header \in {reply[d].header, corr[d]}
      BY <1>6 DEF Time, Shapes
    <2>. QED BY <2>1, <2>2, IdsKept
  <1>7. CASE \E c \in Calls : LibraryLog(c) \/ LibraryWith(c) \/ LibrarySpan(c)
    <2>1. UNCHANGED <<env, opts, sent, reply, corr, stage>>
      BY <1>7 DEF LibraryLog, LibraryWith, LibrarySpan, clientVars, serverVars
    <2>. QED BY <2>1, IdsKept
  <1>8. CASE UNCHANGED vars
    <2>1. UNCHANGED <<env, opts, sent, reply, corr, stage>>
      BY <1>8 DEF vars, clientVars, serverVars
    <2>. QED BY <2>1, IdsKept
  <1>. QED BY <1>1, <1>2, <1>3, <1>4, <1>5, <1>6, <1>7, <1>8 DEF Next

LEMMA CallersStep == IdInv /\ [Next]_vars => CallersFromMetadata'
  <1>. SUFFICES ASSUME IdInv, [Next]_vars, NEW d \in Calls
                PROVE  /\ code'[d] # "none" => stage'[d] \in {"count", "time", "done"}
                       /\ stage'[d] \in {"handler", "count", "time"} \/ code'[d] # "none" =>
                            stage'[d] # "idle" /\ identity'[d] = Chain!Identity(Arrived(d))'
    BY DEF CallersFromMetadata
  <1>. Shapes /\ CountsExact /\ stage[d] \in Stages
    BY DEF IdInv, CountInv, Shapes
  <1>. DEFINE Before == /\ code[d] # "none" => stage[d] \in {"count", "time", "done"}
                        /\ stage[d] \in {"handler", "count", "time"} \/ code[d] # "none" =>
                             stage[d] # "idle" /\ identity[d] = Chain!Identity(Arrived(d))
  <1>0. Before
    BY DEF IdInv, CallersFromMetadata
  <1>1. ASSUME Chain!Identity(Arrived(d))' = Chain!Identity(Arrived(d)),
               UNCHANGED <<code, identity>>, stage'[d] = stage[d]
        PROVE  /\ code'[d] # "none" => stage'[d] \in {"count", "time", "done"}
               /\ stage'[d] \in {"handler", "count", "time"} \/ code'[d] # "none" =>
                    stage'[d] # "idle" /\ identity'[d] = Chain!Identity(Arrived(d))'
    BY <1>0, <1>1
  <1>2. UNCHANGED <<env, sent>> => Chain!Identity(Arrived(d))' = Chain!Identity(Arrived(d))
    BY DEF Arrived, Chain!Identity, Chain!MTLSAuthenticate, Chain!StaticKeyAuthenticate
  <1>3. CASE NewClient
    BY <1>1, <1>2, <1>3 DEF NewClient, serverVars
  <1>4. CASE Close
    BY <1>1, <1>2, <1>4 DEF Close, serverVars
  <1>5. CASE \E c \in Calls : Send(c)
    <2>1. PICK c \in Calls : Send(c)
      BY <1>5
    <2>2. UNCHANGED <<env, code, identity>>
      BY <2>1 DEF Send, serverVars
    <2>3. CASE d # c
      <3>1. sent'[d] = sent[d] /\ stage'[d] = stage[d]
        BY <2>1, <2>3 DEF Send, Shapes
      <3>2. Chain!Identity(Arrived(d))' = Chain!Identity(Arrived(d))
        BY <2>2, <3>1 DEF Arrived, Chain!Identity, Chain!MTLSAuthenticate, Chain!StaticKeyAuthenticate
      <3>. QED BY <1>1, <2>2, <3>1, <3>2
    <2>4. CASE d = c
      <3>1. stage[d] = "idle" /\ stage'[d] \in {"arrived", "done"}
        BY <2>1, <2>4 DEF Send, Shapes
      <3>. QED BY <1>0, <2>2, <3>1
    <2>. QED BY <2>3, <2>4
  <1>6. CASE \E c \in Calls : Correlate(c)
    <2>1. UNCHANGED <<env, sent, code, identity>>
      BY <1>6 DEF Correlate, clientVars
    <2>2. stage'[d] = stage[d] \/ (stage[d] = "arrived" /\ stage'[d] = "chain")
      BY <1>6 DEF Correlate, Shapes
    <2>. QED BY <1>0, <1>2, <2>1, <2>2
  <1>7. CASE \E c \in Calls : RunChain(c)
    <2>1. PICK c \in Calls : RunChain(c)
      BY <1>7
    <2>2. UNCHANGED <<env, sent>>
      BY <2>1 DEF RunChain, clientVars
    <2>3. CASE d # c
      <3>1. stage'[d] = stage[d] /\ identity'[d] = identity[d] /\ code'[d] = code[d]
        BY <2>1, <2>3 DEF RunChain, Shapes
      <3>. QED BY <1>0, <1>2, <2>2, <3>1
    <2>4. CASE d = c
      <3>1. stage[d] = "chain" /\ identity'[d] = Chain!Identity(Arrived(d))
        BY <2>1, <2>4 DEF RunChain, Shapes
      <3>2. stage'[d] = "count" \/ (stage'[d] = "handler" /\ code'[d] = code[d])
        BY <2>1, <2>4 DEF RunChain, Shapes
      <3>. QED BY <1>0, <1>2, <2>2, <3>1, <3>2
    <2>. QED BY <2>3, <2>4
  <1>8. CASE \E c \in Calls : Return(c)
    <2>1. UNCHANGED <<env, sent, identity>>
      BY <1>8 DEF Return, clientVars
    <2>2. \/ stage'[d] = stage[d] /\ code'[d] = code[d]
          \/ stage[d] = "handler" /\ stage'[d] = "count"
      BY <1>8 DEF Return, Shapes
    <2>. QED BY <1>0, <1>2, <2>1, <2>2
  <1>9. CASE \E c \in Calls : Count(c) \/ Time(c)
    <2>1. UNCHANGED <<env, sent, identity, code>>
      BY <1>9 DEF Count, Time, clientVars, serverVars
    <2>2. \/ stage'[d] = stage[d]
          \/ stage[d] \in {"count", "time"} /\ stage'[d] \in {"time", "done"}
      BY <1>9 DEF Count, Time, Shapes
    <2>. QED BY <1>0, <1>2, <2>1, <2>2
  <1>10. CASE \E c \in Calls : LibraryLog(c) \/ LibraryWith(c) \/ LibrarySpan(c)
    BY <1>1, <1>2, <1>10 DEF LibraryLog, LibraryWith, LibrarySpan, clientVars, serverVars
  <1>11. CASE UNCHANGED vars
    BY <1>1, <1>2, <1>11 DEF vars, clientVars, serverVars
  <1>. QED BY <1>3, <1>4, <1>5, <1>6, <1>7, <1>8, <1>9, <1>10, <1>11 DEF Next

\* A call's id and caller are those its metadata yields.
THEOREM IdsHold == Spec => []IdInv
  <1>1. IdInv /\ [Next]_vars => IdInv'
    BY CountsStep, IdsStep, CallersStep DEF IdInv
  <1>. QED BY <1>1, IdsInit, PTL DEF Spec

-----------------------------------------------------------------------------
(***************************************************************************)
(* Which caller a call is attributed to.                                   *)
(***************************************************************************)
LEMMA LeastElement ==
    ASSUME NEW S \in SUBSET Nat, S # {}
    PROVE  Min(S) \in S /\ \A n \in S : Min(S) =< n
  <1>1. PICK x \in S : \A y \in S : ~(<<y, x>> \in OpToRel(<, Nat))
    BY NatLessThanWellFounded, WFMin
  <1>2. \A y \in S : ~(y < x)
    BY <1>1 DEF OpToRel
  <1>3. \A y \in S : x =< y
    BY <1>2
  <1>. QED BY <1>3 DEF Min

LEMMA CheckMessages ==
    ASSUME NEW e
    PROVE  DOMAIN Checks(e) = 1 .. 9 /\ \A i \in 1 .. 9 : Checks(e)[i][2] # ""
  <1>1. DOMAIN Checks(e) = 1 .. 9
    BY DEF Checks
  <1>2. /\ Checks(e)[1][2] # "" /\ Checks(e)[2][2] # "" /\ Checks(e)[3][2] # ""
        /\ Checks(e)[4][2] # "" /\ Checks(e)[5][2] # "" /\ Checks(e)[6][2] # ""
        /\ Checks(e)[7][2] # "" /\ Checks(e)[8][2] # "" /\ Checks(e)[9][2] # ""
    BY DEF Checks
  <1>3. \A i \in 1 .. 9 : i = 1 \/ i = 2 \/ i = 3 \/ i = 4 \/ i = 5 \/ i = 6 \/ i = 7 \/ i = 8 \/ i = 9
    OBVIOUS
  <1>. QED BY <1>1, <1>2, <1>3

\* A malformed pair makes Load refuse: no check has "" for its message.
LEMMA PairsRefused ==
    ASSUME NEW e
    PROVE  Checks(e)[4][1] => LoadError(e) # ""
  <1>. DEFINE failing == {i \in DOMAIN Checks(e) : Checks(e)[i][1]}
  <1>. HIDE DEF failing
  <1>0. failing \subseteq 1 .. 9 /\ \A i \in 1 .. 9 : Checks(e)[i][1] => i \in failing
    BY CheckMessages DEF failing
  <1>1. failing \in SUBSET Nat /\ (Checks(e)[4][1] => 4 \in failing)
    BY <1>0
  <1>2. failing # {} => Min(failing) \in 1 .. 9
    BY <1>0, <1>1, LeastElement
  <1>3. failing # {} => LoadError(e) = Checks(e)[Min(failing)][2]
    BY DEF LoadError, failing
  <1>. QED BY <1>1, <1>2, <1>3, CheckMessages

\* So no accepted environment lists an empty key.
LEMMA PairsChecked ==
    ASSUME NEW e, LoadError(e) = ""
    PROVE  \A p \in ToSet(e.callerKeys) : ValidPair(p)
  <1>1. Checks(e)[4][1] = \E p \in ToSet(e.callerKeys) : ~ValidPair(p)
    BY DEF Checks
  <1>. QED BY <1>1, PairsRefused

LEMMA CallerKeysTyped == \A e \in Environments : e.callerKeys \in Seq(Seq(STRING))
  BY EnvironmentAssumption

\* The map Load builds holds, for every key, the identity listed for it last.
LEMMA KeysAsListed ==
    ASSUME NEW e \in Environments, NEW k
    PROVE  LET listed == {i \in DOMAIN e.callerKeys : Front(e.callerKeys[i]) = k} IN
           /\ k \in DOMAIN StaticCallerKeys(e) <=> listed # {}
           /\ \A i \in listed : (\A j \in listed : j =< i) =>
                StaticCallerKeys(e)[k] = Last(e.callerKeys[i])
  <1>. DEFINE keys == e.callerKeys
              listed == {i \in DOMAIN keys : Front(keys[i]) = k}
  <1>1. k \in DOMAIN StaticCallerKeys(e) <=> listed # {}
    BY DEF StaticCallerKeys, PairKey, ToSet
  <1>2. ASSUME NEW i \in listed, \A j \in listed : j =< i
        PROVE  StaticCallerKeys(e)[k] = Last(keys[i])
    <2>1. listed \subseteq Nat
      BY CallerKeysTyped
    <2>. DEFINE Top(x) == x \in listed /\ \A j \in listed : x >= j
    <2>2. Top(i) /\ \A x : Top(x) => x = i
      <3>. HIDE DEF listed
      <3>1. i \in Nat /\ \A j \in listed : j \in Nat
        BY <2>1
      <3>2. Top(i)
        BY <1>2, <3>1
      <3>3. ASSUME NEW x, Top(x) PROVE x = i
        <4>1. x \in Nat /\ x >= i /\ x =< i
          BY <1>2, <3>1, <3>3
        <4>. QED BY <3>1, <4>1
      <3>. QED BY <3>2, <3>3
    <2>3. Max(listed) = i
      <3>. HIDE DEF listed
      <3>. QED BY <2>2 DEF Max
    <2>4. {n \in DOMAIN keys : PairKey(keys[n]) = k} = listed
      BY DEF PairKey
    <2>5. k \in DOMAIN StaticCallerKeys(e)
      BY <1>1
    <2>6. StaticCallerKeys(e)[k] = Last(keys[Max(listed)])
      BY <2>4, <2>5 DEF StaticCallerKeys, PairKey, PairIdentity
    <2>. QED BY <2>3, <2>6
  <1>. QED BY <1>1, <1>2

\* The client's own key comes first unless the caller's context brings one or an
\* interceptor replaces the metadata.
LEMMA OwnKeyFirst ==
    ASSUME NEW o \in OptionLists, NEW ctx \in Contexts, NEW default,
           Positions(ctx, "x-api-key") = {}, DialConfig(o).staticKey # NoKey,
           Replacing(DialConfig(o).interceptors) = {}
    PROVE  FirstValue(Outgoing(DialConfig(o), ctx), "x-api-key", default) = DialConfig(o).staticKey
  <1>. DEFINE key == DialConfig(o).staticKey
              extra == DialConfig(o).interceptors
              md == Outgoing(DialConfig(o), ctx)
              at == Positions(md, "x-api-key")
              here == Len(ctx) + 1
  <1>1. PICK C, X : ctx \in Seq(C) /\ extra \in Seq(X)
    BY MetadataAssumption
  <1>. DEFINE own == [replaces |-> FALSE, pair |-> <<"x-api-key", key>>]
              chain == <<own>> \o extra
              pairs == [i \in DOMAIN chain |-> chain[i].pair]
  <1>8. Interceptors(DialConfig(o)) = chain
    BY DEF Interceptors, StaticKeyInterceptor
  <1>9. /\ Len(extra) \in Nat /\ DOMAIN chain = 1 .. Len(extra) + 1 /\ chain[1] = own
        /\ \A i \in 2 .. Len(extra) + 1 : chain[i] = extra[i-1] /\ i-1 \in DOMAIN extra
    BY <1>1
  <1>10. Replacing(chain) = {}
    BY <1>9 DEF Replacing
  <1>2. md = ctx \o pairs
    BY <1>8, <1>10 DEF Outgoing
  <1>11. PICK P : pairs \in Seq(P) /\ Len(pairs) = Len(extra) + 1 /\ pairs[1] = <<"x-api-key", key>>
    <2>. DEFINE P == {chain[i].pair : i \in DOMAIN chain}
                N == Len(extra) + 1
    <2>1. N \in Nat /\ pairs \in [1 .. N -> P]
      BY <1>9
    <2>2. pairs[1] = <<"x-api-key", key>>
      BY <1>9
    <2>. HIDE DEF pairs, P
    <2>3. pairs \in Seq(P) /\ Len(pairs) = N
      <3>. HIDE DEF N
      <3>. QED BY <2>1
    <2>. QED BY <2>2, <2>3
  <1>. HIDE DEF pairs, chain
  <1>3. Len(ctx) \in Nat /\ here \in DOMAIN md /\ DOMAIN md \subseteq Nat
    BY <1>1, <1>2, <1>9, <1>11
  <1>4. md[here] = <<"x-api-key", key>>
    BY <1>1, <1>2, <1>9, <1>11
  <1>5. \A i \in 1 .. Len(ctx) : md[i] = ctx[i] /\ i \in DOMAIN ctx
    BY <1>1, <1>2, <1>11
  <1>6. here \in at /\ \A i \in at : here =< i
    <2>1. here \in at
      BY <1>3, <1>4 DEF Positions
    <2>2. ASSUME NEW i \in at, i < here PROVE FALSE
      <3>1. i \in 1 .. Len(ctx) /\ md[i][1] = "x-api-key"
        BY <1>1, <1>2, <1>3, <1>11, <2>2 DEF Positions
      <3>2. i \in Positions(ctx, "x-api-key")
        BY <1>5, <3>1 DEF Positions
      <3>. QED BY <3>2
    <2>3. at \subseteq Nat
      BY <1>3 DEF Positions
    <2>. QED BY <1>3, <2>1, <2>2, <2>3
  <1>7. Min(at) = here
    <2>1. at \in SUBSET Nat /\ at # {}
      BY <1>3, <1>6 DEF Positions
    <2>2. Min(at) \in at /\ Min(at) =< here
      BY <1>6, <2>1, LeastElement
    <2>. QED BY <1>3, <1>6, <2>1, <2>2
  <1>. QED BY <1>4, <1>6, <1>7 DEF FirstValue

\* A call is attributed to the caller the operator's settings name for its
\* client, for every list of keys and every order of client options.
THEOREM CallerAttributed == Spec => []KeyReachesServer
  <1>1. IdInv => KeyReachesServer
    <2>. SUFFICES ASSUME IdInv, NEW c \in Calls,
                         code[c] # "none", Positions(sent[c].ctx, "x-api-key") = {}
                  PROVE  IF TLSMode(env) = "mtls" THEN identity[c] = CertName
                         ELSE LET key    == FirstValue(sent[c].md, "x-api-key", NoKey)
                                  pairs  == env.callerKeys
                                  listed == {i \in DOMAIN pairs : Front(pairs[i]) = key}
                              IN  /\ Dialed.staticKey # NoKey
                                     /\ Replacing(Dialed.interceptors) = {} =>
                                       key = Dialed.staticKey
                                  /\ listed = {} => identity[c] = Missing
                                  /\ \A i \in listed : (\A j \in listed : j =< i) =>
                                       identity[c] = Last(pairs[i])
      BY Zenon DEF KeyReachesServer
    <2>1. /\ env \in Environments /\ opts \in OptionLists
          /\ stage[c] # "idle" /\ identity[c] = Chain!Identity(Arrived(c))
          /\ sent[c].ctx \in Contexts /\ sent[c].req \in Requests
          /\ sent[c].md = Outgoing(Dialed, sent[c].ctx)
      BY DEF IdInv, CountInv, Shapes, IdsFromMetadata, CallersFromMetadata
    <2>2. /\ Arrived(c).apiKey = FirstValue(sent[c].md, "x-api-key", Missing)
          /\ Arrived(c).cn = IF TLSMode(env) = "mtls" THEN CertName ELSE Missing
      BY <2>1, CallPathAssumption DEF Arrived
    <2>3. CASE TLSMode(env) = "mtls"
      BY <2>1, <2>2, <2>3, CallPathAssumption DEF Chain!Identity, Chain!MTLSAuthenticate
    <2>4. CASE TLSMode(env) # "mtls"
      <3>. DEFINE key == FirstValue(sent[c].md, "x-api-key", NoKey)
                  pairs == env.callerKeys
                  listed == {i \in DOMAIN pairs : Front(pairs[i]) = key}
                  keys == StaticCallerKeys(env)
      <3>1. Dialed.staticKey # NoKey /\ Replacing(Dialed.interceptors) = {} =>
              key = Dialed.staticKey
        BY <2>1, OwnKeyFirst DEF Dialed
      <3>2. identity[c] = IF Arrived(c).apiKey \in DOMAIN keys THEN keys[Arrived(c).apiKey] ELSE Missing
        BY <2>1, <2>4 DEF Chain!Identity, Chain!StaticKeyAuthenticate
      <3>3. /\ key \in DOMAIN keys <=> listed # {}
            /\ \A i \in listed : (\A j \in listed : j =< i) => keys[key] = Last(pairs[i])
        BY <2>1, KeysAsListed
      <3>4. CASE Positions(sent[c].md, "x-api-key") = {}
        <4>1. key = NoKey /\ Arrived(c).apiKey = Missing
          BY <2>2, <3>4 DEF FirstValue
        <4>2. listed = {}
          BY <2>1, <4>1, EnvironmentAssumption, PairsChecked DEF NoKey, ValidPair, ToSet
        <4>3. identity[c] = Missing
          BY <2>1, <3>2, <4>1, EnvironmentAssumption
        <4>. QED BY <2>4, <3>1, <4>2, <4>3
      <3>5. CASE Positions(sent[c].md, "x-api-key") # {}
        <4>1. Arrived(c).apiKey = key
          BY <2>2, <3>5 DEF FirstValue
        <4>. QED BY <2>4, <3>1, <3>2, <3>3, <4>1
      <3>. QED BY <3>4, <3>5
    <2>. QED BY <2>3, <2>4
  <1>. QED BY <1>1, IdsHold, PTL

-----------------------------------------------------------------------------
(***************************************************************************)
(* What slog makes of a list of keys and values.                           *)
(***************************************************************************)

\* One round of slog's loop, at position i, given the attributes from behind it.
SlogRound(args, from, i) ==
    IF i > Len(args) THEN <<>>
    ELSE IF args[i].kind = "str" /\ i < Len(args)
    THEN <<[key |-> args[i].v, value |-> args[i+1]]>> \o from[i+2]
    ELSE <<[key |-> "!BADKEY", value |-> args[i]]>> \o from[i+1]

LEMMA RoundLooksAhead ==
    ASSUME NEW S, NEW args \in Seq(S), NEW f, NEW g, NEW i \in Nat,
           i =< Len(args) => f[i+1] = g[i+1],
           i < Len(args) => f[i+2] = g[i+2]
    PROVE  SlogRound(args, f, i) = SlogRound(args, g, i)
  <1>1. CASE i > Len(args)
    BY <1>1 DEF SlogRound
  <1>2. CASE i = Len(args)
    BY <1>2 DEF SlogRound
  <1>3. CASE i < Len(args)
    BY <1>3 DEF SlogRound
  <1>. QED BY <1>1, <1>2, <1>3

\* The loop terminates: its recursion has a solution on every list.
LEMMA LoopDefined ==
    ASSUME NEW S, NEW args \in Seq(S)
    PROVE  \E f : f = [i \in 1 .. Len(args) + 2 |-> SlogRound(args, f, i)]
  <1>. DEFINE N == Len(args)
              Solves(f, k) == \A i \in k .. N + 2 : f[i] = SlogRound(args, f, i)
              bad == {n \in 0 .. N + 1 : ~ \E f : Solves(f, N + 2 - n)}
  <1>0. N \in Nat
    OBVIOUS
  <1>. HIDE DEF N
  <1>1. bad = {}
    <2>. SUFFICES ASSUME bad # {} PROVE FALSE
      OBVIOUS
    <2>. DEFINE m == Min(bad)
    <2>0. bad \in SUBSET Nat
      BY <1>0
    <2>1. m \in bad /\ \A n \in bad : m =< n
      <3>. HIDE DEF bad
      <3>. QED BY <2>0, LeastElement
    <2>. HIDE DEF m
    <2>2. m \in 0 .. N + 1 /\ ~ \E f : Solves(f, N + 2 - m)
      BY <2>1
    <2>. DEFINE k == N + 2 - m
    <2>3. CASE m = 0
      <3>. DEFINE g == [i \in {N + 2} |-> <<>>]
      <3>1. \A i \in k .. N + 2 : i = N + 2
        BY <1>0, <2>2, <2>3
      <3>2. SlogRound(args, g, N + 2) = <<>>
        BY <1>0 DEF SlogRound, N
      <3>3. Solves(g, k)
        BY <3>1, <3>2
      <3>. QED BY <2>2, <3>3
    <2>4. CASE m # 0
      <3>1. m - 1 \in 0 .. N + 1 /\ m - 1 \notin bad
        BY <1>0, <2>1, <2>2, <2>4
      <3>2. PICK f : Solves(f, N + 2 - (m - 1))
        BY <3>1
      <3>. DEFINE g == [i \in k .. N + 2 |-> IF i = k THEN SlogRound(args, f, i) ELSE f[i]]
      <3>3. ASSUME NEW i \in k .. N + 2 PROVE g[i] = SlogRound(args, g, i)
        <4>1. i \in Nat /\ k \in Nat /\ i >= k
          BY <1>0, <2>2
        <4>2. g[i] = SlogRound(args, f, i)
          <5>1. CASE i = k
            BY <5>1
          <5>2. CASE i # k
            <6>1. i \in N + 2 - (m - 1) .. N + 2
              BY <1>0, <2>2, <4>1, <5>2
            <6>. QED BY <3>2, <5>2, <6>1
          <5>. QED BY <5>1, <5>2
        <4>3. i =< N => f[i+1] = g[i+1]
          BY <1>0, <2>2, <4>1
        <4>4. i < N => f[i+2] = g[i+2]
          BY <1>0, <2>2, <4>1
        <4>5. SlogRound(args, f, i) = SlogRound(args, g, i)
          BY <4>1, <4>3, <4>4, RoundLooksAhead DEF N
        <4>. QED BY <4>2, <4>5
      <3>. QED BY <2>2, <3>3
    <2>. QED BY <2>3, <2>4
  <1>2. PICK f : Solves(f, 1)
    <2>1. N + 1 \in 0 .. N + 1 /\ N + 2 - (N + 1) = 1
      BY <1>0
    <2>. QED BY <1>1, <2>1
  <1>. DEFINE F == [i \in 1 .. N + 2 |-> f[i]]
  <1>3. ASSUME NEW i \in 1 .. N + 2 PROVE f[i] = SlogRound(args, F, i)
    <2>1. i =< N => f[i+1] = F[i+1]
      BY <1>0
    <2>2. i < N => f[i+2] = F[i+2]
      BY <1>0
    <2>3. SlogRound(args, f, i) = SlogRound(args, F, i)
      BY <1>0, <2>1, <2>2, RoundLooksAhead DEF N
    <2>. QED BY <1>2, <2>3
  <1>4. F = [i \in 1 .. N + 2 |-> SlogRound(args, F, i)]
    BY <1>3
  <1>. QED BY <1>4 DEF N

LEMMA SlogUnfolds ==
    ASSUME NEW S, NEW args \in Seq(S)
    PROVE  \E f : /\ \A i \in 1 .. Len(args) + 2 : f[i] = SlogRound(args, f, i)
                  /\ SlogAttrs(args) = f[1]
  <1>. DEFINE F == CHOOSE f : f = [i \in 1 .. Len(args) + 2 |-> SlogRound(args, f, i)]
  <1>1. F = [i \in 1 .. Len(args) + 2 |-> SlogRound(args, F, i)]
    BY LoopDefined
  <1>2. SlogAttrs(args) = F[1]
    BY Zenon DEF SlogAttrs, SlogRound
  <1>. HIDE DEF F
  <1>3. \A i \in 1 .. Len(args) + 2 : F[i] = SlogRound(args, F, i)
    BY <1>1
  <1>. QED BY <1>2, <1>3

WellPaired(args) ==
    /\ args \in Seq(ToSet(args))
    /\ \A i \in DOMAIN args : i % 2 = 1 => args[i].kind = "str"

\* What a reader expects of a list: its pairs by position, from i on, and a
\* trailing key under "!BADKEY".
AttrsFrom(args, i) ==
    {[key |-> args[j].v, value |-> args[j+1]] : j \in {n \in i .. Len(args) - 1 : n % 2 = 1}}
        \cup {[key |-> "!BADKEY", value |-> args[j]] : j \in {n \in i .. Len(args) : n % 2 = 1 /\ n = Len(args)}}

IsSeq(s) == s \in Seq(ToSet(s))

LEMMA SeqIsSeq == ASSUME NEW S, NEW s \in Seq(S) PROVE IsSeq(s)
  BY DEF IsSeq, ToSet

LEMMA ConcatMembers ==
    ASSUME NEW s, NEW t, IsSeq(s), IsSeq(t)
    PROVE  IsSeq(s \o t) /\ ToSet(s \o t) = ToSet(s) \cup ToSet(t)
  <1>. DEFINE A == ToSet(s) \cup ToSet(t)
  <1>1. s \in Seq(A) /\ t \in Seq(A)
    BY DEF IsSeq, ToSet
  <1>2. s \o t \in Seq(A)
    BY <1>1
  <1>3. IsSeq(s \o t)
    BY <1>2, SeqIsSeq
  <1>4. ASSUME NEW x \in ToSet(s \o t) PROVE x \in ToSet(s) \cup ToSet(t)
    BY <1>2 DEF ToSet
  <1>5. ASSUME NEW x \in ToSet(s) PROVE x \in ToSet(s \o t)
    <2>1. PICK i \in DOMAIN s : s[i] = x
      BY DEF ToSet
    <2>2. i \in DOMAIN (s \o t) /\ (s \o t)[i] = x
      BY <1>1, <2>1
    <2>. QED BY <2>2 DEF ToSet
  <1>6. ASSUME NEW x \in ToSet(t) PROVE x \in ToSet(s \o t)
    <2>1. PICK i \in DOMAIN t : t[i] = x
      BY DEF ToSet
    <2>2. Len(s) + i \in DOMAIN (s \o t) /\ (s \o t)[Len(s) + i] = x
      BY <1>1, <2>1
    <2>. QED BY <2>2 DEF ToSet
  <1>. QED BY <1>3, <1>4, <1>5, <1>6

LEMMA SingleMember == ASSUME NEW x PROVE IsSeq(<<x>>) /\ ToSet(<<x>>) = {x}
  BY DEF IsSeq, ToSet

LEMMA EmptyMembers == IsSeq(<<>>) /\ ToSet(<<>>) = {}
  BY DEF IsSeq, ToSet

\* slog pairs a well-formed list the way it reads, whatever its length: no value
\* is taken for a key, and no pair is lost or invented.
LEMMA SlogReadsPairs ==
    ASSUME NEW args, WellPaired(args)
    PROVE  IsSeq(SlogAttrs(args)) /\ ToSet(SlogAttrs(args)) = AttrsFrom(args, 1)
  <1>. DEFINE N == Len(args)
  <1>0. N \in Nat /\ DOMAIN args = 1 .. N
    BY DEF WellPaired
  <1>1. PICK f : /\ \A i \in 1 .. N + 2 : f[i] = SlogRound(args, f, i)
                 /\ SlogAttrs(args) = f[1]
    BY SlogUnfolds DEF WellPaired
  <1>. DEFINE Right(i) == IsSeq(f[i]) /\ ToSet(f[i]) = AttrsFrom(args, i)
              bad == {n \in 0 .. N + 1 : (N + 2 - n) % 2 = 1 /\ ~Right(N + 2 - n)}
  <1>. HIDE DEF N
  <1>2. bad = {}
    <2>. SUFFICES ASSUME bad # {} PROVE FALSE
      OBVIOUS
    <2>. DEFINE m == Min(bad)
    <2>0. bad \in SUBSET Nat
      BY <1>0
    <2>1. m \in bad /\ \A n \in bad : m =< n
      <3>. HIDE DEF bad
      <3>. QED BY <2>0, LeastElement
    <2>. HIDE DEF m
    <2>. DEFINE i == N + 2 - m
    <2>2. m \in 0 .. N + 1 /\ i % 2 = 1 /\ ~Right(i)
      BY <2>1
    <2>3. i \in 1 .. N + 2 /\ i \in Nat /\ f[i] = SlogRound(args, f, i)
      BY <1>0, <1>1, <2>2
    <2>4. CASE i > N
      <3>1. f[i] = <<>>
        BY <2>3, <2>4 DEF SlogRound, N
      <3>2. AttrsFrom(args, i) = {}
        <4>1. {n \in i .. N - 1 : n % 2 = 1} = {} /\ {n \in i .. N : n % 2 = 1 /\ n = N} = {}
          BY <1>0, <2>3, <2>4
        <4>. QED BY <4>1 DEF AttrsFrom, N
      <3>. QED BY <2>2, <3>1, <3>2, EmptyMembers
    <2>5. CASE i = N
      <3>1. f[N + 1] = <<>>
        <4>1. N + 1 \in 1 .. N + 2 /\ N + 1 > N
          BY <1>0
        <4>2. SlogRound(args, f, N + 1) = <<>>
          BY <4>1 DEF SlogRound, N
        <4>. QED BY <1>1, <4>1, <4>2
      <3>2. f[i] = <<[key |-> "!BADKEY", value |-> args[i]]>> \o f[N + 1]
        BY <1>0, <2>3, <2>5 DEF SlogRound, N
      <3>3. IsSeq(f[i]) /\ ToSet(f[i]) = {[key |-> "!BADKEY", value |-> args[i]]}
        BY <3>1, <3>2, ConcatMembers, SingleMember, EmptyMembers
      <3>4. AttrsFrom(args, i) = {[key |-> "!BADKEY", value |-> args[i]]}
        <4>1. {n \in i .. N - 1 : n % 2 = 1} = {} /\ {n \in i .. N : n % 2 = 1 /\ n = N} = {i}
          BY <1>0, <2>2, <2>3, <2>5
        <4>. QED BY <4>1 DEF AttrsFrom, N
      <3>. QED BY <2>2, <3>3, <3>4
    <2>6. CASE i < N
      <3>. DEFINE pair == [key |-> args[i].v, value |-> args[i+1]]
      <3>1. m - 2 \in 0 .. N + 1 /\ N + 2 - (m - 2) = i + 2 /\ (i + 2) % 2 = 1
        BY <1>0, <2>2, <2>3, <2>6
      <3>2. m - 2 \notin bad
        BY <2>1, <2>2, <3>1
      <3>3. Right(i + 2)
        BY <3>1, <3>2
      <3>4. f[i] = <<pair>> \o f[i+2]
        <4>1. i \in DOMAIN args /\ args[i].kind = "str"
          BY <1>0, <2>2, <2>3, <2>6 DEF WellPaired
        <4>2. ~(i > Len(args)) /\ i < Len(args)
          BY <1>0, <2>3, <2>6 DEF N
        <4>. QED BY <2>3, <4>1, <4>2 DEF SlogRound
      <3>5. IsSeq(f[i]) /\ ToSet(f[i]) = {pair} \cup AttrsFrom(args, i + 2)
        BY <3>3, <3>4, ConcatMembers, SingleMember
      <3>6. AttrsFrom(args, i) = {pair} \cup AttrsFrom(args, i + 2)
        <4>1. {n \in i .. N - 1 : n % 2 = 1} = {i} \cup {n \in i + 2 .. N - 1 : n % 2 = 1}
          BY <1>0, <2>2, <2>3, <2>6
        <4>2. {n \in i .. N : n % 2 = 1 /\ n = N} = {n \in i + 2 .. N : n % 2 = 1 /\ n = N}
          BY <1>0, <2>2, <2>3, <2>6
        <4>. QED BY <4>1, <4>2 DEF AttrsFrom, N
      <3>. QED BY <2>2, <3>5, <3>6
    <2>. QED BY <1>0, <2>3, <2>4, <2>5, <2>6
  <1>3. N + 1 \in 0 .. N + 1 /\ N + 2 - (N + 1) = 1 /\ 1 % 2 = 1
    BY <1>0
  <1>4. Right(1)
    BY <1>2, <1>3
  <1>. QED BY <1>1, <1>4

-----------------------------------------------------------------------------
(***************************************************************************)
(* Lines and spans.                                                        *)
(***************************************************************************)
Clean(a) ==
    /\ a.key \notin {"secret", "correlation_id"}
    /\ a.value.v # "secret" /\ a.value.kind # "ctx"

LEMMA FieldsRedacted ==
    ASSUME NEW fields \in FieldLists
    PROVE  LET shown == RedactKeysAndValues(fields) IN
           /\ WellPaired(shown) /\ Len(shown) = Len(fields)
           /\ \A a \in AttrsFrom(shown, 1) : Clean(a)
           /\ \A p \in PairsOf(fields) : IsRedactedKey(p.key) \/ p \in AttrsFrom(shown, 1)
  <1>. DEFINE shown == RedactKeysAndValues(fields)
              N == Len(fields)
  <1>1. N \in Nat /\ DOMAIN fields = 1 .. N
    BY FieldsAssumption
  <1>2. DOMAIN shown = 1 .. N /\ Len(shown) = N /\ IsSeq(shown)
    <2>1. shown \in [1 .. N -> ToSet(shown)]
      BY <1>1 DEF RedactKeysAndValues, ToSet
    <2>2. shown \in Seq(ToSet(shown))
      BY <1>1, <2>1
    <2>. QED BY <1>1, <2>1, <2>2 DEF IsSeq
  <1>3. ASSUME NEW i \in 1 .. N, i % 2 = 1
        PROVE  /\ shown[i] = fields[i] /\ fields[i].kind = "str"
               /\ fields[i].v \notin {"secret", "correlation_id"}
    BY <1>1, <1>3, FieldsAssumption DEF RedactKeysAndValues
  <1>4. ASSUME NEW i \in 1 .. N, i % 2 = 1, i + 1 \in 1 .. N
        PROVE  /\ IsRedactedKey(fields[i].v) => shown[i+1] = Redacted
               /\ ~IsRedactedKey(fields[i].v) =>
                    /\ shown[i+1] = fields[i+1]
                    /\ fields[i+1].v # "secret" /\ fields[i+1].kind # "ctx"
    <2>1. (i + 1) % 2 = 0 /\ (i + 1) - 1 = i
      BY <1>4
    <2>2. fields[i].kind = "str"
      BY <1>3, <1>4
    <2>3. shown[i+1] = IF IsRedactedKey(fields[i].v) THEN Redacted ELSE fields[i+1]
      BY <1>1, <1>4, <2>1, <2>2 DEF RedactKeysAndValues
    <2>4. /\ fields[i+1].kind # "ctx"
          /\ fields[i+1].v = "secret" => IsRedactedKey(fields[i].v)
      BY <1>1, <1>4, <2>1, FieldsAssumption
    <2>. QED BY <2>3, <2>4
  <1>5. Redacted.v # "secret" /\ Redacted.kind # "ctx"
    BY DEF Redacted, Str
  <1>6. WellPaired(shown)
    BY <1>2, <1>3 DEF WellPaired, IsSeq
  <1>7. ASSUME NEW a \in AttrsFrom(shown, 1) PROVE Clean(a)
    <2>1. CASE \E j \in 1 .. N - 1 : j % 2 = 1 /\ a = [key |-> shown[j].v, value |-> shown[j+1]]
      <3>1. PICK j \in 1 .. N - 1 : j % 2 = 1 /\ a = [key |-> shown[j].v, value |-> shown[j+1]]
        BY <2>1
      <3>2. j \in 1 .. N /\ j + 1 \in 1 .. N
        BY <1>1
      <3>. QED BY <1>3, <1>4, <1>5, <3>1, <3>2 DEF Clean
    <2>2. CASE \E j \in 1 .. N : j % 2 = 1 /\ a = [key |-> "!BADKEY", value |-> shown[j]]
      BY <1>3, <2>2 DEF Clean
    <2>. QED BY <1>2, <2>1, <2>2 DEF AttrsFrom
  <1>8. ASSUME NEW p \in PairsOf(fields)
        PROVE  IsRedactedKey(p.key) \/ p \in AttrsFrom(shown, 1)
    <2>1. PICK n \in 1 .. N \div 2 : p = [key |-> fields[2*n-1].v, value |-> fields[2*n]]
      BY DEF PairsOf
    <2>. DEFINE j == 2*n - 1
    <2>2. j \in 1 .. N - 1 /\ j \in 1 .. N /\ j % 2 = 1 /\ j + 1 = 2*n /\ j + 1 \in 1 .. N
      BY <1>1
    <2>3. p = [key |-> fields[j].v, value |-> fields[j+1]]
      BY <2>1, <2>2
    <2>4. ~IsRedactedKey(fields[j].v) => p = [key |-> shown[j].v, value |-> shown[j+1]]
      BY <1>3, <1>4, <2>2, <2>3
    <2>. QED BY <1>2, <2>2, <2>3, <2>4 DEF AttrsFrom
  <1>. QED BY <1>2, <1>6, <1>7, <1>8

\* The context in front of the fields is found, and nothing else is taken for it.
LEMMA ContextSplit ==
    ASSUME NEW c, NEW fields \in FieldLists, NEW hasCtx \in BOOLEAN
    PROVE  LET split == SplitLeadingContext(KeysAndValues(c, fields, hasCtx)) IN
           split.fields = fields /\ split.ctx.v = IF hasCtx THEN corr[c] ELSE ""
  <1>1. fields \in Seq(ToSet(fields)) /\ (fields # <<>> => Head(fields).kind # "ctx")
    BY FieldsAssumption
  <1>2. CASE hasCtx
    <2>. DEFINE kvs == <<Ctx(corr[c])>> \o fields
    <2>1. kvs # <<>> /\ Head(kvs) = Ctx(corr[c]) /\ Tail(kvs) = fields
      BY <1>1
    <2>. HIDE DEF kvs
    <2>2. KeysAndValues(c, fields, hasCtx) = kvs
      BY <1>2 DEF KeysAndValues, kvs
    <2>3. Ctx(corr[c]).kind = "ctx" /\ Ctx(corr[c]).v = corr[c]
      BY DEF Ctx
    <2>4. SplitLeadingContext(kvs) = [ctx |-> Head(kvs), fields |-> Tail(kvs)]
      BY <2>1, <2>3 DEF SplitLeadingContext
    <2>5. SplitLeadingContext(kvs).fields = fields /\ SplitLeadingContext(kvs).ctx.v = corr[c]
      BY <2>1, <2>3, <2>4
    <2>. QED BY <1>2, <2>2, <2>5, Zenon
  <1>3. CASE ~hasCtx
    BY <1>1, <1>3 DEF KeysAndValues, SplitLeadingContext, Background, Ctx
  <1>. QED BY <1>2, <1>3

\* Putting the id in front of a list puts one attribute in front of its own.
LEMMA IdInFront ==
    ASSUME NEW args, WellPaired(args), NEW id
    PROVE  LET line == <<Str("correlation_id"), Str(id)>> \o args IN
           /\ WellPaired(line)
           /\ AttrsFrom(line, 1) =
                {[key |-> "correlation_id", value |-> Str(id)]} \cup AttrsFrom(args, 1)
  <1>. DEFINE front == <<Str("correlation_id"), Str(id)>>
              line == front \o args
              N == Len(args)
  <1>1. N \in Nat /\ DOMAIN args = 1 .. N /\ IsSeq(args)
    BY DEF WellPaired, IsSeq
  <1>2. IsSeq(line) /\ Len(line) = N + 2 /\ DOMAIN line = 1 .. N + 2
    <2>1. IsSeq(front)
      BY DEF IsSeq, ToSet
    <2>2. IsSeq(line)
      BY <1>1, <2>1, ConcatMembers
    <2>3. PICK S : front \in Seq(S) /\ args \in Seq(S)
      <3>1. front \in Seq(ToSet(front) \cup ToSet(args)) /\ args \in Seq(ToSet(front) \cup ToSet(args))
        BY <1>1, <2>1 DEF IsSeq
      <3>. QED BY <3>1
    <2>4. Len(front) = 2
      OBVIOUS
    <2>. QED BY <1>1, <2>2, <2>3, <2>4
  <1>3. line[1] = Str("correlation_id") /\ line[2] = Str(id)
    BY <1>1 DEF IsSeq
  <1>4. \A i \in 1 .. N : line[i + 2] = args[i]
    BY <1>1 DEF IsSeq
  <1>. HIDE DEF front, line
  <1>5. WellPaired(line)
    <2>. SUFFICES ASSUME NEW i \in 1 .. N + 2, i % 2 = 1 PROVE line[i].kind = "str"
      BY <1>2 DEF WellPaired, IsSeq
    <2>1. CASE i = 1
      BY <1>3, <2>1 DEF Str
    <2>2. CASE i # 1
      <3>1. i - 2 \in 1 .. N /\ (i - 2) % 2 = 1 /\ (i - 2) + 2 = i
        BY <1>1, <2>2
      <3>2. args[i - 2].kind = "str"
        BY <1>1, <3>1 DEF WellPaired
      <3>. QED BY <1>4, <3>1, <3>2
    <2>. QED BY <2>1, <2>2
  <1>. DEFINE first == [key |-> "correlation_id", value |-> Str(id)]
  <1>6. ASSUME NEW a \in AttrsFrom(line, 1) PROVE a \in {first} \cup AttrsFrom(args, 1)
    <2>1. ASSUME NEW j \in 1 .. N + 1, j % 2 = 1, a = [key |-> line[j].v, value |-> line[j+1]]
          PROVE  a \in {first} \cup AttrsFrom(args, 1)
      <3>1. CASE j = 1
        BY <1>3, <2>1, <3>1 DEF Str
      <3>2. CASE j # 1
        <4>1. j - 2 \in 1 .. N - 1 /\ (j - 2) % 2 = 1 /\ j - 2 \in 1 .. N /\ (j - 2) + 1 \in 1 .. N
          BY <1>1, <2>1, <3>2
        <4>2. line[j] = args[j - 2] /\ line[j+1] = args[(j - 2) + 1]
          BY <1>1, <1>4, <4>1
        <4>. QED BY <2>1, <4>1, <4>2 DEF AttrsFrom
      <3>. QED BY <3>1, <3>2
    <2>2. ASSUME NEW j \in 1 .. N + 2, j % 2 = 1, j = N + 2, a = [key |-> "!BADKEY", value |-> line[j]]
          PROVE  a \in AttrsFrom(args, 1)
      <3>1. N \in 1 .. N /\ N % 2 = 1 /\ line[j] = args[N]
        BY <1>1, <1>4, <2>2
      <3>. QED BY <2>2, <3>1 DEF AttrsFrom
    <2>3. \/ \E j \in 1 .. N + 1 : j % 2 = 1 /\ a = [key |-> line[j].v, value |-> line[j+1]]
          \/ \E j \in 1 .. N + 2 : j % 2 = 1 /\ j = N + 2 /\ a = [key |-> "!BADKEY", value |-> line[j]]
      <3>1. Len(line) - 1 = N + 1
        BY <1>1, <1>2
      <3>. QED BY <1>2, <3>1 DEF AttrsFrom
    <2>. QED BY <2>1, <2>2, <2>3
  <1>7. first \in AttrsFrom(line, 1)
    <2>1. 1 \in 1 .. Len(line) - 1 /\ 1 % 2 = 1 /\ 1 + 1 = 2
      BY <1>1, <1>2
    <2>2. first = [key |-> line[1].v, value |-> line[1 + 1]]
      BY <1>3, <2>1 DEF Str
    <2>. QED BY <2>1, <2>2 DEF AttrsFrom
  <1>8. ASSUME NEW a \in AttrsFrom(args, 1) PROVE a \in AttrsFrom(line, 1)
    <2>1. ASSUME NEW j \in 1 .. N - 1, j % 2 = 1, a = [key |-> args[j].v, value |-> args[j+1]]
          PROVE  a \in AttrsFrom(line, 1)
      <3>1. j + 2 \in 1 .. Len(line) - 1 /\ (j + 2) % 2 = 1
        BY <1>1, <1>2, <2>1
      <3>2. line[j + 2] = args[j] /\ line[(j + 2) + 1] = args[j + 1]
        BY <1>1, <1>4, <2>1
      <3>. QED BY <2>1, <3>1, <3>2 DEF AttrsFrom
    <2>2. ASSUME N % 2 = 1, N \in 1 .. N, a = [key |-> "!BADKEY", value |-> args[N]]
          PROVE  a \in AttrsFrom(line, 1)
      <3>1. N + 2 \in 1 .. Len(line) /\ (N + 2) % 2 = 1 /\ N + 2 = Len(line) /\ line[N + 2] = args[N]
        BY <1>1, <1>2, <1>4, <2>2
      <3>. QED BY <2>2, <3>1 DEF AttrsFrom
    <2>. QED BY <2>1, <2>2 DEF AttrsFrom
  <1>. QED BY <1>5, <1>6, <1>7, <1>8 DEF line, front

\* A line holds what its logger is bound to, the id of its context and its fields.
LEMMA LineWritten ==
    ASSUME NEW b, IsSeq(b), NEW kvs, NEW fields \in FieldLists,
           SplitLeadingContext(kvs).fields = fields
    PROVE  ToSet(AdapterLog(b, kvs)) =
             ToSet(b) \cup {[key |-> "correlation_id", value |-> Str(SplitLeadingContext(kvs).ctx.v)]}
                      \cup AttrsFrom(RedactKeysAndValues(fields), 1)
  <1>. DEFINE shown == RedactKeysAndValues(fields)
              id == SplitLeadingContext(kvs).ctx.v
              args == <<Str("correlation_id"), Str(id)>> \o shown
  <1>1. AdapterLog(b, kvs) = b \o SlogAttrs(args)
    BY Zenon DEF AdapterLog, SlogLine
  <1>2. WellPaired(shown)
    BY FieldsRedacted
  <1>. HIDE DEF shown, id
  <1>3. /\ WellPaired(args)
        /\ AttrsFrom(args, 1) = {[key |-> "correlation_id", value |-> Str(id)]} \cup AttrsFrom(shown, 1)
    BY <1>2, IdInFront
  <1>. HIDE DEF args
  <1>4. IsSeq(SlogAttrs(args)) /\ ToSet(SlogAttrs(args)) = AttrsFrom(args, 1)
    BY <1>3, SlogReadsPairs
  <1>5. ToSet(b \o SlogAttrs(args)) = ToSet(b) \cup ToSet(SlogAttrs(args))
    BY <1>4, ConcatMembers
  <1>. QED BY <1>1, <1>3, <1>4, <1>5 DEF shown, id

\* With binds the fields, and nothing of the context.
LEMMA LoggerBound ==
    ASSUME NEW b, IsSeq(b), NEW kvs, NEW fields \in FieldLists,
           SplitLeadingContext(kvs).fields = fields
    PROVE  /\ IsSeq(AdapterWith(b, kvs))
           /\ ToSet(AdapterWith(b, kvs)) = ToSet(b) \cup AttrsFrom(RedactKeysAndValues(fields), 1)
  <1>. DEFINE shown == RedactKeysAndValues(fields)
  <1>1. AdapterWith(b, kvs) = b \o SlogAttrs(shown)
    BY Zenon DEF AdapterWith
  <1>2. WellPaired(shown)
    BY FieldsRedacted
  <1>. HIDE DEF shown
  <1>3. IsSeq(SlogAttrs(shown)) /\ ToSet(SlogAttrs(shown)) = AttrsFrom(shown, 1)
    BY <1>2, SlogReadsPairs
  <1>4. IsSeq(b \o SlogAttrs(shown)) /\ ToSet(b \o SlogAttrs(shown)) = ToSet(b) \cup ToSet(SlogAttrs(shown))
    BY <1>3, ConcatMembers
  <1>. QED BY <1>1, <1>3, <1>4 DEF shown

\* A span holds an attribute of its map and no other.
LEMMA SpanWritten ==
    ASSUME NEW c, NEW map, IsFiniteSet(DOMAIN map)
    PROVE  \A a \in ToSet(SpanWrite(c, map).attrs) :
             \E k \in DOMAIN map : a = [key |-> k, value |-> map[k]]
  <1>. DEFINE S == {[key |-> k, value |-> map[k]] : k \in DOMAIN map}
              Attr == [k \in DOMAIN map |-> [key |-> k, value |-> map[k]]]
  <1>1. IsFiniteSet(S)
    <2>1. Attr \in Surjection(DOMAIN map, S)
      BY DEF Surjection
    <2>. QED BY <2>1, FS_Surjection
  <1>. HIDE DEF S
  <1>2. \E f \in [1 .. Cardinality(S) -> S] : IsInjective(f)
    <2>1. PICK f : f \in Bijection(1 .. Cardinality(S), S)
      BY <1>1, FS_CardinalityType DEF ExistsBijection
    <2>. QED BY <2>1 DEF Bijection, Injection, IsInjective
  <1>3. SetToSeq(S) \in [1 .. Cardinality(S) -> S]
    BY <1>2 DEF SetToSeq
  <1>4. SpanWrite(c, map).attrs = SetToSeq(S)
    BY DEF SpanWrite, S
  <1>5. ToSet(SetToSeq(S)) \subseteq S
    BY <1>3 DEF ToSet
  <1>. QED BY <1>4, <1>5 DEF S

LEMMA FieldMapFinite ==
    ASSUME NEW fields \in FieldLists
    PROVE  IsFiniteSet(DOMAIN SpanAttributes(AttributeMap(fields)))
  <1>. DEFINE n == Len(fields) \div 2
              keys == {p.key : p \in PairsOf(fields)}
              KeyAt == [i \in 1 .. n |-> fields[2*i-1].v]
  <1>1. n \in Nat
    BY FieldsAssumption
  <1>2. KeyAt \in Surjection(1 .. n, keys)
    <2>. DEFINE PairAt(i) == [key |-> fields[2*i-1].v, value |-> fields[2*i]]
    <2>0. PairsOf(fields) = {PairAt(i) : i \in 1 .. n} /\ \A i \in 1 .. n : PairAt(i).key = KeyAt[i]
      BY DEF PairsOf
    <2>1. keys = {KeyAt[i] : i \in 1 .. n}
      <3>. HIDE DEF PairAt, KeyAt
      <3>. QED BY <2>0
    <2>. HIDE DEF keys
    <2>2. KeyAt \in [1 .. n -> keys]
      BY <2>1
    <2>. QED BY <2>1, <2>2 DEF Surjection
  <1>3. IsFiniteSet(1 .. n)
    BY <1>1, FS_Interval
  <1>4. IsFiniteSet(keys)
    BY <1>2, <1>3, FS_Surjection
  <1>5. DOMAIN SpanAttributes(AttributeMap(fields)) = keys
    BY DEF SpanAttributes, AttributeMap
  <1>. QED BY <1>4, <1>5

LEMMA FieldMapClean ==
    ASSUME NEW fields \in FieldLists, NEW k \in DOMAIN SpanAttributes(AttributeMap(fields))
    PROVE  Clean([key |-> k, value |-> SpanAttributes(AttributeMap(fields))[k]])
  <1>. DEFINE map == AttributeMap(fields)
  <1>1. DOMAIN map = {p.key : p \in PairsOf(fields)} /\ k \in DOMAIN map
    BY DEF SpanAttributes, AttributeMap
  <1>2. PICK p \in PairsOf(fields) : p.key = k /\ map[k] = p.value
    BY <1>1 DEF AttributeMap
  <1>3. PICK i \in 1 .. Len(fields) \div 2 : p = [key |-> fields[2*i-1].v, value |-> fields[2*i]]
    BY DEF PairsOf
  <1>4. Len(fields) \in Nat /\ DOMAIN fields = 1 .. Len(fields)
    BY FieldsAssumption
  <1>5. /\ 2*i-1 \in DOMAIN fields /\ 2*i \in DOMAIN fields
        /\ (2*i-1) % 2 = 1 /\ (2*i) % 2 = 0
    BY <1>4
  <1>6. k \notin {"secret", "correlation_id"} /\ (map[k].v = "secret" => IsRedactedKey(k))
    BY <1>2, <1>3, <1>5, FieldsAssumption
  <1>7. SpanAttributes(map)[k] = IF IsRedactedKey(k) THEN Redacted ELSE Str(map[k].v)
    BY <1>1 DEF SpanAttributes
  <1>. QED BY <1>6, <1>7 DEF Clean, Redacted, Str

-----------------------------------------------------------------------------
(***************************************************************************)
(* The log and the spans over time.                                        *)
(***************************************************************************)
LEMMA PathInit == Init => PathInv
  <1>. SUFFICES ASSUME Init PROVE PathInv
    OBVIOUS
  <1>1. CountInv /\ IdsFromMetadata /\ CallersFromMetadata
    BY IdsInit DEF IdInv
  <1>2. bound = <<>> /\ given = <<>> /\ written.sink = "none" /\ ToSet(written.attrs) = {}
    BY EmptyMembers DEF Init, Nothing
  <1>3. BoundClean
    BY <1>2, EmptyMembers DEF BoundClean, IsSeq
  <1>. QED BY <1>1, <1>2, <1>3 DEF PathInv, WrittenFor, NoSecretLogged, NothingElseLost, CorrelationWritten

\* What was written stays right: a call keeps the id it has.
LEMMA WrittenKept ==
    ASSUME PathInv, written' = written, \A c \in Reached : c \in Reached' /\ corr'[c] = corr[c]
    PROVE  WrittenFor' /\ NoSecretLogged' /\ NothingElseLost' /\ CorrelationWritten'
  <1>1. WrittenFor'
    BY DEF PathInv, WrittenFor
  <1>2. NoSecretLogged' /\ NothingElseLost'
    BY DEF PathInv, NoSecretLogged, NothingElseLost
  <1>3. CorrelationWritten'
    BY DEF PathInv, CorrelationWritten, WrittenFor
  <1>. QED BY <1>1, <1>2, <1>3

LEMMA BoundKept ==
    ASSUME PathInv, UNCHANGED <<bound, given>>
    PROVE  BoundClean'
  BY DEF PathInv, BoundClean

\* An id a client brings is neither a fresh one nor a raw token.
LEMMA ClientIds ==
    ASSUME CountInv, IdsFromMetadata, NEW c \in Calls, stage[c] # "idle"
    PROVE  FirstValue(sent[c].md, "x-correlation-id", "") \notin Calls \cup {"secret"}
  <1>. DEFINE ctx == sent[c].ctx
              own == Interceptors(DialConfig(opts))
              md == sent[c].md
              at == Positions(md, "x-correlation-id")
  <1>1. ctx \in Contexts /\ opts \in OptionLists /\ md = Outgoing(DialConfig(opts), ctx)
    BY DEF CountInv, Shapes, IdsFromMetadata, Dialed
  <1>2. \A i \in at : md[i][2] \notin Calls \cup {"secret"}
    BY <1>1, MetadataAssumption
  <1>3. IsSeq(ctx) /\ IsSeq(DialConfig(opts).interceptors)
    BY <1>1, MetadataAssumption DEF IsSeq
  <1>4. IsSeq(own)
    BY <1>3, ConcatMembers, SingleMember, EmptyMembers DEF Interceptors, StaticKeyInterceptor
  <1>. DEFINE pairs == [i \in DOMAIN own |-> own[i].pair]
  <1>5. IsSeq(pairs) /\ Len(pairs) \in Nat
    <2>1. Len(own) \in Nat /\ DOMAIN own = 1 .. Len(own)
      BY <1>4 DEF IsSeq
    <2>. HIDE DEF own
    <2>2. pairs \in Seq({own[i].pair : i \in DOMAIN own})
      BY <2>1
    <2>. QED BY <2>2, SeqIsSeq
  <1>6. at \in SUBSET Nat
    <2>1. CASE Replacing(own) = {}
      <3>1. md = ctx \o pairs
        BY <1>1, <2>1 DEF Outgoing
      <3>2. IsSeq(md)
        BY <1>3, <1>5, <3>1, ConcatMembers
      <3>. QED BY <3>2 DEF Positions, IsSeq
    <2>2. CASE Replacing(own) # {}
      <3>1. md = SubSeq(pairs, Max(Replacing(own)), Len(pairs))
        BY <1>1, <2>2 DEF Outgoing
      <3>. QED BY <3>1 DEF Positions
    <2>. QED BY <2>1, <2>2
  <1>7. at # {} => Min(at) \in at
    BY <1>6, LeastElement
  <1>. QED BY <1>2, <1>7, CallPathAssumption DEF FirstValue

\* The correlation interceptor's span.
LEMMA CorrelateWrites ==
    ASSUME PathInv, NEW c \in Calls, Correlate(c)
    PROVE  WrittenFor' /\ NoSecretLogged' /\ NothingElseLost' /\ CorrelationWritten'
  <1>. DEFINE id == CorrelationId(c)
              map == [correlation_id |-> Str(id)]
  <1>1. written' = SpanWrite(c, map) /\ corr'[c] = id /\ c \in Reached'
    BY CorrelationIdSet DEF Correlate, PathInv, CountInv, Shapes, Reached
  <1>2. id # "secret"
    <2>1. FirstValue(sent[c].md, "x-correlation-id", "") # "secret"
      BY ClientIds DEF PathInv, Correlate
    <2>. QED BY <2>1, MetadataAssumption DEF CorrelationId, FreshId
  <1>3. \A a \in ToSet(written'.attrs) : a = [key |-> "correlation_id", value |-> Str(id)]
    <2>1. DOMAIN map = {"correlation_id"} /\ map["correlation_id"] = Str(id)
      OBVIOUS
    <2>2. IsFiniteSet(DOMAIN map)
      BY <2>1, FS_Singleton
    <2>. QED BY <1>1, <2>1, <2>2, SpanWritten
  <1>4. written'.sink = "span" /\ written'.by = c
    BY <1>1 DEF SpanWrite
  <1>. HIDE DEF id
  <1>5. \A a \in ToSet(written'.attrs) :
          a.key # "secret" /\ a.value.v # "secret" /\ a.value.kind # "ctx" /\ a.value.v = id
    BY <1>2, <1>3 DEF Str
  <1>. QED BY <1>1, <1>4, <1>5 DEF WrittenFor, NoSecretLogged, NothingElseLost, CorrelationWritten

\* A line of the library's.
LEMMA LogWrites ==
    ASSUME PathInv, NEW c \in Calls, LibraryLog(c)
    PROVE  WrittenFor' /\ NoSecretLogged' /\ NothingElseLost' /\ CorrelationWritten'
  <1>1. PICK fields \in FieldLists, hasCtx \in BOOLEAN, derived \in BOOLEAN :
           written' =
            [sink |-> "log", by |-> c, ctx |-> hasCtx,
             attrs |-> AdapterLog(IF derived THEN bound ELSE <<>>,
                                  KeysAndValues(c, fields, hasCtx)),
             fields |-> {fields} \cup IF derived THEN ToSet(given) ELSE {}]
    BY DEF LibraryLog
  <1>. DEFINE b == IF derived THEN bound ELSE <<>>
              g == IF derived THEN ToSet(given) ELSE {}
              id == IF hasCtx THEN corr[c] ELSE ""
              own == [key |-> "correlation_id", value |-> Str(id)]
              shown == AttrsFrom(RedactKeysAndValues(fields), 1)
  <1>2. /\ written'.sink = "log" /\ written'.by = c /\ written'.ctx = hasCtx
        /\ written'.attrs = AdapterLog(b, KeysAndValues(c, fields, hasCtx))
        /\ written'.fields = {fields} \cup g
    BY <1>1
  <1>3. /\ IsSeq(b) /\ \A a \in ToSet(b) : Clean(a)
        /\ \A f \in g : \A p \in PairsOf(f) : IsRedactedKey(p.key) \/ p \in ToSet(b)
    BY EmptyMembers DEF PathInv, BoundClean, IsSeq, Clean
  <1>. HIDE DEF b, g
  <1>4. ToSet(AdapterLog(b, KeysAndValues(c, fields, hasCtx))) = ToSet(b) \cup {own} \cup shown
    <2>. DEFINE kvs == KeysAndValues(c, fields, hasCtx)
    <2>1. SplitLeadingContext(kvs).fields = fields /\ SplitLeadingContext(kvs).ctx.v = id
      BY ContextSplit
    <2>. HIDE DEF kvs, id
    <2>2. ToSet(AdapterLog(b, kvs)) = ToSet(b) \cup {own} \cup shown
      BY <1>3, <2>1, LineWritten
    <2>. QED BY <2>2 DEF kvs
  <1>5. /\ \A a \in shown : Clean(a)
        /\ \A p \in PairsOf(fields) : IsRedactedKey(p.key) \/ p \in shown
    BY FieldsRedacted
  <1>. HIDE DEF shown
  <1>6. stage[c] = "handler" /\ c \in Reached /\ corr' = corr
    BY DEF LibraryLog, PathInv, CountInv, CountsExact, serverVars
  <1>7. corr[c] # "secret"
    <2>1. corr[c] = CorrelationId(c)
      BY <1>6 DEF PathInv, IdsFromMetadata
    <2>2. FirstValue(sent[c].md, "x-correlation-id", "") # "secret"
      BY <1>6, ClientIds DEF PathInv
    <2>. QED BY <2>1, <2>2, MetadataAssumption DEF CorrelationId, FreshId
  <1>8. own.key = "correlation_id" /\ own.value.v = id /\ own.value.kind = "str"
    BY DEF Str
  <1>9. id = (IF hasCtx THEN corr[c] ELSE "") /\ id # "secret"
    BY <1>7
  <1>. HIDE DEF own, id
  <1>. DEFINE attrs == ToSet(written'.attrs)
  <1>10. attrs = ToSet(b) \cup {own} \cup shown
    BY <1>2, <1>4
  <1>. HIDE DEF attrs
  <1>11. \A a \in attrs :
           /\ a.key # "secret" /\ a.value.v # "secret" /\ a.value.kind # "ctx"
           /\ a.key = "correlation_id" => a.value.v = id
    BY <1>3, <1>5, <1>8, <1>9, <1>10 DEF Clean
  <1>12. \A f \in {fields} \cup g : \A p \in PairsOf(f) : IsRedactedKey(p.key) \/ p \in attrs
    BY <1>3, <1>5, <1>10
  <1>13. WrittenFor' /\ NoSecretLogged'
    BY <1>2, <1>6, <1>11 DEF WrittenFor, NoSecretLogged, attrs, Reached
  <1>14. NothingElseLost'
    BY <1>2, <1>11, <1>12 DEF NothingElseLost, attrs
  <1>15. CorrelationWritten'
    <2>1. id = IF written'.ctx THEN corr'[written'.by] ELSE ""
      BY <1>2, <1>6, <1>9
    <2>. QED BY <1>2, <1>11, <2>1 DEF CorrelationWritten, attrs
  <1>. QED BY <1>13, <1>14, <1>15

\* A span of the library's.
LEMMA SpanWrites ==
    ASSUME PathInv, NEW c \in Calls, LibrarySpan(c)
    PROVE  WrittenFor' /\ NoSecretLogged' /\ NothingElseLost' /\ CorrelationWritten'
  <1>1. PICK fields \in FieldLists : written' = SpanWrite(c, SpanAttributes(AttributeMap(fields)))
    BY DEF LibrarySpan
  <1>. DEFINE map == SpanAttributes(AttributeMap(fields))
  <1>2. IsFiniteSet(DOMAIN map) /\ \A k \in DOMAIN map : Clean([key |-> k, value |-> map[k]])
    BY FieldMapFinite, FieldMapClean
  <1>. HIDE DEF map
  <1>3. \A a \in ToSet(written'.attrs) : \E k \in DOMAIN map : a = [key |-> k, value |-> map[k]]
    BY <1>1, <1>2, SpanWritten DEF map
  <1>4. \A a \in ToSet(written'.attrs) : Clean(a)
    BY <1>2, <1>3
  <1>5. written'.sink = "span" /\ written'.by = c
    BY <1>1 DEF SpanWrite
  <1>6. c \in Reached /\ Reached' = Reached
    BY DEF LibrarySpan, PathInv, CountInv, CountsExact, serverVars, Reached
  <1>. QED BY <1>4, <1>5, <1>6
           DEF WrittenFor, NoSecretLogged, NothingElseLost, CorrelationWritten, Clean

LEMMA WithBinds ==
    ASSUME PathInv, NEW c \in Calls, LibraryWith(c)
    PROVE  BoundClean'
  <1>1. PICK fields \in FieldLists, hasCtx \in BOOLEAN :
           /\ bound' = AdapterWith(bound, KeysAndValues(c, fields, hasCtx))
           /\ given' = Append(given, fields)
    BY DEF LibraryWith
  <1>. DEFINE kvs == KeysAndValues(c, fields, hasCtx)
              shown == AttrsFrom(RedactKeysAndValues(fields), 1)
  <1>2. SplitLeadingContext(kvs).fields = fields
    BY ContextSplit
  <1>. HIDE DEF kvs
  <1>3. /\ IsSeq(bound) /\ given \in Seq(FieldLists) /\ \A a \in ToSet(bound) : Clean(a)
        /\ \A f \in ToSet(given) : \A p \in PairsOf(f) : IsRedactedKey(p.key) \/ p \in ToSet(bound)
    BY DEF PathInv, BoundClean, IsSeq, Clean
  <1>4. IsSeq(AdapterWith(bound, kvs)) /\ ToSet(AdapterWith(bound, kvs)) = ToSet(bound) \cup shown
    BY <1>2, <1>3, LoggerBound
  <1>5. bound' = AdapterWith(bound, kvs)
    BY <1>1 DEF kvs
  <1>6. /\ \A a \in shown : Clean(a)
        /\ \A p \in PairsOf(fields) : IsRedactedKey(p.key) \/ p \in shown
    BY FieldsRedacted
  <1>. HIDE DEF shown
  <1>7. given' \in Seq(FieldLists) /\ ToSet(given') = ToSet(given) \cup {fields}
    <2>1. given' \in Seq(FieldLists)
      BY <1>1, <1>3
    <2>2. Len(given) \in Nat /\ DOMAIN given' = 1 .. Len(given) + 1
      BY <1>1, <1>3
    <2>3. \A i \in DOMAIN given' : given'[i] = IF i = Len(given) + 1 THEN fields ELSE given[i]
      BY <1>1, <1>3
    <2>4. DOMAIN given = 1 .. Len(given)
      BY <1>3
    <2>. QED BY <2>1, <2>2, <2>3, <2>4 DEF ToSet
  <1>. QED BY <1>3, <1>4, <1>5, <1>6, <1>7 DEF BoundClean, IsSeq, Clean

LEMMA PathStep == PathInv /\ [Next]_vars => PathInv'
  <1>. SUFFICES ASSUME PathInv, [Next]_vars
                PROVE  BoundClean' /\ WrittenFor' /\ NoSecretLogged' /\ NothingElseLost' /\ CorrelationWritten'
    BY CountsStep, IdsStep, CallersStep DEF PathInv, IdInv
  <1>. CountsExact /\ Shapes
    BY DEF PathInv, CountInv
  <1>. DEFINE Good == WrittenFor' /\ NoSecretLogged' /\ NothingElseLost' /\ CorrelationWritten'
  <1>1. UNCHANGED <<written, corr>> => Good
    <2>. SUFFICES ASSUME UNCHANGED <<written, corr>> PROVE Good
      OBVIOUS
    <2>1. Reached' = Reached
      BY DEF Reached
    <2>. QED BY <2>1, WrittenKept
  <1>2. CASE NewClient \/ Close
    BY <1>1, <1>2, BoundKept DEF NewClient, Close, serverVars, outputVars
  <1>3. ASSUME NEW c \in Calls, Send(c) \/ RunChain(c) \/ Return(c) \/ Count(c) \/ Time(c)
        PROVE  BoundClean' /\ Good
    BY <1>1, <1>3, BoundKept DEF Send, RunChain, Return, Count, Time, serverVars, outputVars
  <1>4. ASSUME NEW c \in Calls, Correlate(c) PROVE BoundClean' /\ Good
    BY <1>4, BoundKept, CorrelateWrites DEF Correlate
  <1>5. ASSUME NEW c \in Calls, LibraryLog(c) PROVE BoundClean' /\ Good
    BY <1>5, BoundKept, LogWrites DEF LibraryLog
  <1>6. ASSUME NEW c \in Calls, LibraryWith(c) PROVE BoundClean' /\ Good
    BY <1>1, <1>6, WithBinds DEF LibraryWith, serverVars
  <1>7. ASSUME NEW c \in Calls, LibrarySpan(c) PROVE BoundClean' /\ Good
    BY <1>7, BoundKept, SpanWrites DEF LibrarySpan
  <1>8. CASE UNCHANGED vars
    BY <1>1, <1>8, BoundKept DEF vars, serverVars, outputVars
  <1>. QED BY <1>2, <1>3, <1>4, <1>5, <1>6, <1>7, <1>8 DEF Next

\* All of it together: counts, ids, callers, and what is bound and written.
THEOREM PathHolds == Spec => []PathInv
  BY PathInit, PathStep, PTL DEF Spec

\* No raw token the library passes reaches a log line or a span, whatever list
\* of fields it is in and whichever derived logger it goes through.
THEOREM SecretsNeverWritten == Spec => []NoSecretLogged
  <1>1. PathInv => NoSecretLogged
    BY DEF PathInv
  <1>. QED BY <1>1, PathHolds, PTL

\* Every other field is in the line it was logged or bound for, however long the
\* list: slog's pairing and the redaction's agree.
THEOREM FieldsNeverLost == Spec => []NothingElseLost
  <1>1. PathInv => NothingElseLost
    BY DEF PathInv
  <1>. QED BY <1>1, PathHolds, PTL

\* Log lines, spans and answers of a call carry its id, and an id the server
\* made belongs to one call.
THEOREM CorrelationKept == Spec => []CorrelationFollows
  <1>1. PathInv => CorrelationFollows
    <2>. SUFFICES ASSUME PathInv, NEW c \in Reached
                  PROVE  /\ reply[c].header \in {"", corr[c]}
                         /\ LET first == FirstValue(sent[c].md, "x-correlation-id", "") IN
                            IF first # "" THEN corr[c] = first
                            ELSE \A d \in Calls \ {c} : corr[d] # corr[c]
      BY DEF CorrelationFollows, PathInv
    <2>1. CountInv /\ CountsExact /\ IdsFromMetadata /\ c \in Calls
      BY DEF PathInv, CountInv, Reached
    <2>. DEFINE First(d) == FirstValue(sent[d].md, "x-correlation-id", "")
    <2>2. corr[c] = IF First(c) = "" THEN c ELSE First(c)
      BY <2>1 DEF IdsFromMetadata, CorrelationId, FreshId
    <2>3. ASSUME NEW d \in Calls, d # c PROVE corr[d] # c
      <3>1. CASE d \notin Reached
        BY <2>1, <3>1, CallPathAssumption DEF Reached
      <3>2. CASE d \in Reached
        <4>1. stage[d] # "idle"
          BY <2>1, <3>2 DEF CountsExact
        <4>2. First(d) \notin Calls
          BY <2>1, <4>1, ClientIds
        <4>3. corr[d] = IF First(d) = "" THEN d ELSE First(d)
          BY <2>1, <3>2 DEF IdsFromMetadata, CorrelationId, FreshId
        <4>. QED BY <2>1, <2>3, <4>2, <4>3
      <3>. QED BY <3>1, <3>2
    <2>4. reply[c].header \in {"", corr[c]}
      BY <2>1 DEF IdsFromMetadata
    <2>. QED BY <2>2, <2>3, <2>4
  <1>. QED BY <1>1, PathHolds, PTL
=============================================================================
