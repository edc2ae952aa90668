------------------------ MODULE TokenHandlerProofs ------------------------
(***************************************************************************)
(* Proofs about TokenHandler, for any requests, inputs and earlier tokens  *)
(* and every combination of failures.                                      *)
(***************************************************************************)
EXTENDS TokenHandler, TLAPS

RPCs == RevokeRPCs \cup {"IssueToken", "RefreshToken"}
AllCalls == {"ping", "get", "issue", "read", "refresh", "validate", "reissue", "introspect",
             "resolve", "revoke", "revokeAll", "record"}

\* Which RPC makes which call, and at which position.
LEMMA CallFacts ==
    ASSUME NEW rpc \in RPCs
    PROVE  /\ Len(Calls(rpc)) \in 4 .. 6
           /\ \A i \in 1 .. Len(Calls(rpc)) :
                LET c == Calls(rpc)[i] IN
                /\ c \in AllCalls
                /\ c = "issue"     <=> rpc = "IssueToken" /\ i = 2
                /\ c = "refresh"   <=> rpc = "RefreshToken" /\ i = 3
                /\ c = "reissue"   <=> rpc = "RefreshToken" /\ i = 5
                /\ c = "resolve"   <=> rpc = "RevokeToken" /\ i = 3
                /\ c = "revoke"    <=> rpc = "RevokeToken" /\ i = 4
                /\ c = "revokeAll" <=> rpc \in RevokeRPCs \ {"RevokeToken"} /\ i = 3
                /\ c = "record"    <=> rpc \in RevokeRPCs /\ i = Len(Calls(rpc))
           /\ rpc \in RevokeRPCs \ {"RevokeToken"} => Len(Calls(rpc)) = 4
           /\ rpc = "RevokeToken" => Len(Calls(rpc)) = 5
           /\ rpc = "RefreshToken" => Len(Calls(rpc)) = 6
           /\ rpc = "IssueToken" => Len(Calls(rpc)) = 4
  <1>. USE DEF AllCalls, RevokeRPCs
  <1>1. CASE rpc = "IssueToken"
    <2>1. Calls(rpc) = <<"get", "issue", "validate", "introspect">>
      BY <1>1 DEF Calls
    <2>. QED BY <1>1, <2>1
  <1>2. CASE rpc = "RefreshToken"
    <2>1. Calls(rpc) = <<"get", "read", "refresh", "validate", "reissue", "introspect">>
      BY <1>2 DEF Calls
    <2>. QED BY <1>2, <2>1
  <1>3. CASE rpc = "RevokeToken"
    <2>1. Calls(rpc) = <<"ping", "get", "resolve", "revoke", "record">>
      BY <1>3 DEF Calls
    <2>2. /\ Len(Calls(rpc)) = 5
          /\ Calls(rpc)[1] = "ping" /\ Calls(rpc)[2] = "get" /\ Calls(rpc)[3] = "resolve"
          /\ Calls(rpc)[4] = "revoke" /\ Calls(rpc)[5] = "record"
      BY <2>1
    <2>3. ASSUME NEW i \in 1 .. Len(Calls(rpc))
          PROVE  LET c == Calls(rpc)[i] IN
                 /\ c \in AllCalls
                 /\ c = "resolve" <=> i = 3
                 /\ c = "revoke" <=> i = 4
                 /\ c = "record" <=> i = Len(Calls(rpc))
                 /\ c \notin {"issue", "refresh", "reissue", "revokeAll"}
      <3>1. i = 1 \/ i = 2 \/ i = 3 \/ i = 4 \/ i = 5
        BY <2>2
      <3>. QED BY <2>2, <3>1
    <2>. QED BY <1>3, <2>2, <2>3
  <1>4. CASE rpc \in RevokeRPCs \ {"RevokeToken"}
    <2>1. Calls(rpc) = <<"ping", "get", "revokeAll", "record">>
      BY <1>4 DEF Calls
    <2>. QED BY <1>4, <2>1
  <1>. QED BY <1>1, <1>2, <1>3, <1>4 DEF RPCs

\* The calls that change tokens, by RPC.
LEMMA CallPositions ==
    /\ Calls("IssueToken")[2] = "issue"
    /\ Calls("RefreshToken")[3] = "refresh" /\ Calls("RefreshToken")[5] = "reissue"
    /\ Calls("RevokeToken")[4] = "revoke"
    /\ \A rpc \in RevokeRPCs \ {"RevokeToken"} : Calls(rpc)[3] = "revokeAll"
  BY DEF Calls, RevokeRPCs

\* The call a request is at.
LEMMA AtFacts ==
    ASSUME TypeOK, NEW r \in Req
    PROVE  /\ input[r] \in Inputs /\ input[r].rpc \in RPCs
           /\ Len(Calls(input[r].rpc)) \in 4 .. 6 /\ pc[r] \in Nat
           /\ At(r, "issue") => input[r].rpc = "IssueToken" /\ pc[r] = 2
           /\ At(r, "refresh") => input[r].rpc = "RefreshToken" /\ pc[r] = 3
           /\ At(r, "reissue") => input[r].rpc = "RefreshToken" /\ pc[r] = 5
           /\ At(r, "resolve") => input[r].rpc = "RevokeToken" /\ pc[r] = 3
           /\ At(r, "revoke") => input[r].rpc = "RevokeToken" /\ pc[r] = 4
           /\ At(r, "revokeAll") => input[r].rpc \in RevokeRPCs \ {"RevokeToken"} /\ pc[r] = 3
           /\ At(r, "record") => input[r].rpc \in RevokeRPCs /\ pc[r] = Len(Calls(input[r].rpc))
           /\ input[r].rpc \in {"RefreshToken", "RevokeToken"} => input[r].token \in Tokens
  <1>1. input[r] \in Inputs /\ input[r].rpc \in RPCs /\ pc[r] \in Nat
        /\ pc[r] <= Len(Calls(input[r].rpc))
    BY HandlerAssumption DEF TypeOK, RPCs
  <1>2. input[r].rpc \in {"RefreshToken", "RevokeToken"} => input[r].token \in Tokens
    BY <1>1, HandlerAssumption DEF Tokens
  <1>3. Len(Calls(input[r].rpc)) \in 4 .. 6
    BY <1>1, CallFacts
  <1>4. pc[r] > 0 => pc[r] \in 1 .. Len(Calls(input[r].rpc))
    BY <1>1, <1>3
  <1>. QED BY <1>1, <1>2, <1>3, <1>4, CallFacts DEF At

\* What a request has behind it, by its RPC and position.
LEMMA PastFacts ==
    ASSUME TypeOK, NEW r \in Req
    PROVE  /\ Past(r, "issue") <=> input[r].rpc = "IssueToken" /\ pc[r] > 2
           /\ Past(r, "refresh") <=> input[r].rpc = "RefreshToken" /\ pc[r] > 3
           /\ Past(r, "reissue") <=> input[r].rpc = "RefreshToken" /\ pc[r] > 5
           /\ Past(r, "revoke") <=> input[r].rpc = "RevokeToken" /\ pc[r] > 4
           /\ Past(r, "revokeAll") <=> input[r].rpc \in RevokeRPCs \ {"RevokeToken"} /\ pc[r] > 3
  <1>1. input[r].rpc \in RPCs /\ pc[r] \in Nat /\ pc[r] <= Len(Calls(input[r].rpc))
    BY AtFacts DEF TypeOK
  <1>3. Len(Calls(input[r].rpc)) \in 4 .. 6
    BY AtFacts
  <1>2. \A i \in 1 .. pc[r] : i \in 1 .. Len(Calls(input[r].rpc))
    BY <1>1, <1>3
  <1>4. \A c : Past(r, c) <=> \E i \in 1 .. Len(Calls(input[r].rpc)) :
                                  i < pc[r] /\ Calls(input[r].rpc)[i] = c
    BY <1>1, <1>2 DEF Past
  <1>5. /\ Past(r, "issue") => input[r].rpc = "IssueToken" /\ pc[r] > 2
        /\ Past(r, "refresh") => input[r].rpc = "RefreshToken" /\ pc[r] > 3
        /\ Past(r, "reissue") => input[r].rpc = "RefreshToken" /\ pc[r] > 5
        /\ Past(r, "revoke") => input[r].rpc = "RevokeToken" /\ pc[r] > 4
        /\ Past(r, "revokeAll") => input[r].rpc \in RevokeRPCs \ {"RevokeToken"} /\ pc[r] > 3
    BY <1>1, <1>4, CallFacts
  <1>6. input[r].rpc = "IssueToken" /\ pc[r] > 2 => Past(r, "issue")
    <2>1. \A n \in 4 .. 6 : 2 \in 1 .. n
      OBVIOUS
    <2>2. 2 \in 1 .. Len(Calls(input[r].rpc))
      BY <1>3, <2>1
    <2>. QED BY <1>1, <1>4, <2>2, CallPositions
  <1>7. /\ input[r].rpc = "RefreshToken" /\ pc[r] > 3 => Past(r, "refresh")
        /\ input[r].rpc \in RevokeRPCs \ {"RevokeToken"} /\ pc[r] > 3 => Past(r, "revokeAll")
    <2>1. 3 \in 1 .. Len(Calls(input[r].rpc))
      BY <1>3
    <2>. QED BY <1>1, <1>4, <2>1, CallPositions
  <1>8. /\ input[r].rpc = "RefreshToken" /\ pc[r] > 5 => Past(r, "reissue")
        /\ input[r].rpc = "RevokeToken" /\ pc[r] > 4 => Past(r, "revoke")
    <2>1. input[r].rpc = "RefreshToken" => 5 \in 1 .. Len(Calls(input[r].rpc))
      <3>1. input[r].rpc = "RefreshToken" => Len(Calls(input[r].rpc)) = 6
        BY <1>1, CallFacts
      <3>2. 5 \in 1 .. 6
        OBVIOUS
      <3>. QED BY <3>1, <3>2
    <2>2. 4 \in 1 .. Len(Calls(input[r].rpc))
      <3>1. \A n \in 4 .. 6 : 4 \in 1 .. n
        OBVIOUS
      <3>. QED BY <1>3, <3>1
    <2>. QED BY <1>1, <1>4, <2>1, <2>2, CallPositions
  <1>. QED BY <1>5, <1>6, <1>7, <1>8

-----------------------------------------------------------------------------
(***************************************************************************)
(* How a step of one request changes the control state.                    *)
(***************************************************************************)
Moves(r) == Proceed(r) \/ \E code \in Codes \cup {"crashed"} : Fail(r, code)

\* A request moves alone, by one call, and answers OK only after its last call.
LEMMA ControlStep ==
    ASSUME TypeOK, NEW r \in Req, input' = input,
           status[r] = "running", pc[r] > 0, Moves(r)
    PROVE  /\ status' \in [Req -> Codes \cup {"running", "crashed"}]
           /\ pc' \in [Req -> Nat]
           /\ \A s \in Req : pc'[s] <= Len(Calls(input'[s].rpc))
           /\ \A s \in Req \ {r} : pc'[s] = pc[s] /\ status'[s] = status[s]
           /\ pc'[r] >= pc[r]
           /\ status'[r] = "OK" => pc[r] = Len(Calls(input[r].rpc)) \/ pc' = pc
  <1>1. status \in [Req -> Codes \cup {"running", "crashed"}] /\ pc \in [Req -> Nat]
        /\ (\A s \in Req : pc[s] <= Len(Calls(input[s].rpc)))
    BY DEF TypeOK
  <1>2. Len(Calls(input[r].rpc)) \in Nat
    BY AtFacts
  <1>3. CASE Proceed(r) /\ pc[r] = Len(Calls(input[r].rpc))
    BY <1>1, <1>3 DEF Proceed, Codes
  <1>4. CASE Proceed(r) /\ pc[r] # Len(Calls(input[r].rpc))
    <2>1. pc' = [pc EXCEPT ![r] = pc[r] + 1] /\ status' = status
      BY <1>4 DEF Proceed
    <2>2. pc[r] + 1 <= Len(Calls(input[r].rpc)) /\ pc[r] + 1 >= pc[r] /\ pc[r] + 1 \in Nat
      BY <1>1, <1>2, <1>4
    <2>. QED BY <1>1, <2>1, <2>2 DEF Codes
  <1>5. CASE \E code \in Codes \cup {"crashed"} : Fail(r, code)
    BY <1>1, <1>5 DEF Fail
  <1>. QED BY <1>3, <1>4, <1>5 DEF Moves

\* What proceeding means for the request itself.
LEMMA ProceedFacts ==
    ASSUME TypeOK, NEW r \in Req, Proceed(r)
    PROVE  /\ pc[r] < Len(Calls(input[r].rpc)) => pc'[r] = pc[r] + 1 /\ status' = status
           /\ pc[r] = Len(Calls(input[r].rpc)) => pc' = pc /\ status'[r] = "OK"
  <1>1. Len(Calls(input[r].rpc)) \in Nat /\ pc[r] \in Nat
    BY AtFacts
  <1>. QED BY <1>1 DEF Proceed, TypeOK

\* The steps that touch neither the refresh store nor the audit log; none of
\* them is the answer of a successful revocation.
Quiet(r) == Ping(r) \/ GetTenant(r) \/ Read(r) \/ Validate(r) \/ Introspect(r) \/ Resolve(r) \/ Crash(r)

LEMMA QuietFacts ==
    ASSUME TypeOK, NEW r \in Req, Quiet(r)
    PROVE  /\ status[r] = "running" /\ pc[r] > 0 /\ Moves(r)
           /\ UNCHANGED <<input, tok, audit, scope, revoker, root, late>>
           /\ status'[r] = "OK" => input[r].rpc \notin RevokeRPCs
  <1>. USE DEF history
  <1>1. input[r].rpc \in RPCs /\ pc[r] \in Nat /\ pc[r] <= Len(Calls(input[r].rpc))
        /\ Len(Calls(input[r].rpc)) \in 4 .. 6
    BY AtFacts DEF TypeOK
  <1>2. status[r] = "running" /\ pc[r] > 0 /\ Moves(r)
        /\ UNCHANGED <<input, tok, audit, scope, revoker, root, late>>
    BY DEF Quiet, Ping, GetTenant, Read, Validate, Introspect, Resolve, Crash, At, Moves, Codes
  <1>3. ASSUME NEW call \in {"ping", "get", "read", "validate", "introspect", "resolve"}, At(r, call),
               Proceed(r), status'[r] = "OK", input[r].rpc \in RevokeRPCs
        PROVE  FALSE
    <2>1. pc[r] = Len(Calls(input[r].rpc))
      BY <1>1, <1>2, <1>3, ProceedFacts
    <2>2. pc[r] \in 1 .. Len(Calls(input[r].rpc))
      BY <1>1, <1>2
    <2>3. Calls(input[r].rpc)[pc[r]] = "record"
      BY <1>1, <1>3, <2>1, <2>2, CallFacts
    <2>. QED BY <1>3, <2>3 DEF At
  <1>4. ASSUME NEW code \in {"Unavailable", "NotFound", "Internal", "LibraryError", "crashed"},
               Fail(r, code)
        PROVE  status'[r] # "OK"
    BY <1>4 DEF Fail, TypeOK
  <1>. QED BY <1>2, <1>3, <1>4
         DEF Quiet, Ping, GetTenant, Read, Validate, Introspect, Resolve, Crash

\* Every step of the specification, grouped by its effect.
LEMMA StepCases ==
    ASSUME Next
    PROVE  \/ \E r \in Req : \/ Arrive(r) \/ Quiet(r) \/ Issue(r) \/ Refresh(r) \/ Reissue(r)
                             \/ Revoke(r) \/ RevokeAll(r) \/ Record(r)
           \/ UNCHANGED vars
  BY DEF Next, Quiet

-----------------------------------------------------------------------------
(***************************************************************************)
(* Type correctness.                                                       *)
(***************************************************************************)
TokenRecords == [state : {"none", "live", "revoked"}, user : Users, auds : AudSets]

LEMMA TypeInit == Init => TypeOK
  <1>. SUFFICES ASSUME Init PROVE TypeOK
    OBVIOUS
  <1>1. input \in [Req -> Inputs] /\ pc \in [Req -> Nat]
        /\ status \in [Req -> Codes \cup {"running", "crashed"}]
    BY DEF Init
  <1>2. \A r \in Req : pc[r] <= Len(Calls(input[r].rpc))
    <2>. TAKE r \in Req
    <2>1. input[r].rpc \in RPCs
      BY <1>1, HandlerAssumption DEF RPCs
    <2>2. Len(Calls(input[r].rpc)) \in 4 .. 6
      BY <2>1, CallFacts
    <2>3. pc[r] = 0
      BY DEF Init
    <2>. QED BY <2>2, <2>3
  <1>3. tok \in [Tokens -> TokenRecords]
    <2>1. ASSUME NEW t \in Req
          PROVE  [state |-> "none", user |-> input[t].user, auds |-> input[t].auds] \in TokenRecords
      BY <1>1 DEF TokenRecords, Users, AudSets
    <2>2. ASSUME NEW t \in DOMAIN OldTokens
          PROVE  [state |-> "live", user |-> OldTokens[t].user, auds |-> OldTokens[t].auds]
                     \in TokenRecords
      BY DEF TokenRecords, Users, AudSets
    <2>. QED BY <2>1, <2>2 DEF Init, Tokens
  <1>4. /\ audit \subseteq {r \in Req : input[r].rpc \in RevokeRPCs}
        /\ scope \in [Req -> SUBSET Tokens]
        /\ revoker \in [Tokens -> Req \cup {NoReq}]
        /\ root \in [Tokens -> Tokens] /\ late \subseteq Req
        /\ \A t \in Tokens : root[t] = t /\ revoker[t] = NoReq
    BY DEF Init
  <1>. QED BY <1>1, <1>2, <1>3, <1>4 DEF TypeOK, TokenRecords

\* Revoking a set of live tokens keeps the refresh store and its history typed.
LEMMA RevokeSetType ==
    ASSUME TypeOK, NEW r \in Req, NEW S \in SUBSET {t \in Tokens : Live(t)}, RevokeSet(r, S)
    PROVE  /\ tok' \in [Tokens -> TokenRecords]
           /\ revoker' \in [Tokens -> Req \cup {NoReq}]
           /\ \A t \in Tokens : tok'[t].state = "none" => tok[t].state = "none" /\ t \notin S
           /\ \A t \in Tokens \ S : tok'[t] = tok[t] /\ revoker'[t] = revoker[t]
           /\ \A t \in S : tok'[t].state = "revoked"
           /\ \A t \in Tokens : tok'[t].user = tok[t].user /\ tok'[t].auds = tok[t].auds
  <1>1. tok \in [Tokens -> TokenRecords] /\ revoker \in [Tokens -> Req \cup {NoReq}]
    BY DEF TypeOK, TokenRecords
  <1>2. ASSUME NEW t \in Tokens
        PROVE  /\ [tok[t] EXCEPT !.state = "revoked"] \in TokenRecords
               /\ [tok[t] EXCEPT !.state = "revoked"].state = "revoked"
               /\ [tok[t] EXCEPT !.state = "revoked"].user = tok[t].user
               /\ [tok[t] EXCEPT !.state = "revoked"].auds = tok[t].auds
    BY <1>1 DEF TokenRecords
  <1>3. tok' \in [Tokens -> TokenRecords] /\ revoker' \in [Tokens -> Req \cup {NoReq}]
    BY <1>1, <1>2 DEF RevokeSet
  <1>4. /\ \A t \in Tokens \ S : tok'[t] = tok[t] /\ revoker'[t] = revoker[t]
        /\ \A t \in S : tok'[t] = [tok[t] EXCEPT !.state = "revoked"]
    BY DEF RevokeSet
  <1>. QED BY <1>2, <1>3, <1>4

\* The refresh store f with token t in state v.
WithState(f, t, v) == [f EXCEPT ![t].state = v]

LEMMA OneTokenChanged ==
    ASSUME NEW f \in [Tokens -> TokenRecords], NEW t \in Tokens, NEW v \in {"live", "revoked"}
    PROVE  /\ WithState(f, t, v) \in [Tokens -> TokenRecords]
           /\ WithState(f, t, v)[t].state = v
           /\ WithState(f, t, v)[t].user = f[t].user
           /\ WithState(f, t, v)[t].auds = f[t].auds
           /\ \A u \in Tokens \ {t} : WithState(f, t, v)[u] = f[u]
  <1>. DEFINE g == WithState(f, t, v)
  <1>1. f[t] \in [state : {"none", "live", "revoked"}, user : Users, auds : AudSets]
    BY DEF TokenRecords
  <1>2. /\ [f[t] EXCEPT !.state = v] \in TokenRecords
        /\ [f[t] EXCEPT !.state = v].state = v
        /\ [f[t] EXCEPT !.state = v].user = f[t].user
        /\ [f[t] EXCEPT !.state = v].auds = f[t].auds
    BY <1>1 DEF TokenRecords
  <1>3. g[t] = [f[t] EXCEPT !.state = v] /\ (\A u \in Tokens \ {t} : g[u] = f[u])
    BY DEF WithState
  <1>4. g \in [Tokens -> TokenRecords]
    BY <1>2 DEF WithState
  <1>. QED BY <1>2, <1>3, <1>4

LEMMA TypeStep == TypeOK /\ [Next]_vars => TypeOK'
  <1>. SUFFICES ASSUME TypeOK, [Next]_vars PROVE TypeOK'
    OBVIOUS
  <1>0. /\ input \in [Req -> Inputs] /\ tok \in [Tokens -> TokenRecords]
        /\ audit \subseteq {r \in Req : input[r].rpc \in RevokeRPCs}
        /\ scope \in [Req -> SUBSET Tokens]
        /\ revoker \in [Tokens -> Req \cup {NoReq}] /\ root \in [Tokens -> Tokens]
        /\ late \subseteq Req
        /\ \A t \in Tokens : tok[t].state = "none" => root[t] = t /\ revoker[t] = NoReq
        /\ Req \subseteq Tokens
    BY DEF TypeOK, Tokens, TokenRecords
  \* the control state of every action but Arrive
  <1>1. ASSUME NEW r \in Req, status[r] = "running", pc[r] > 0, Moves(r), input' = input,
               scope' = scope,
               tok' \in [Tokens -> TokenRecords],
               audit' \subseteq {s \in Req : input[s].rpc \in RevokeRPCs},
               revoker' \in [Tokens -> Req \cup {NoReq}], root' \in [Tokens -> Tokens],
               late' \subseteq late \cup {r},
               \A t \in Tokens : tok'[t].state = "none" =>
                   tok[t].state = "none" /\ root'[t] = root[t] /\ revoker'[t] = revoker[t]
        PROVE  TypeOK'
    <2>1. /\ status' \in [Req -> Codes \cup {"running", "crashed"}]
          /\ pc' \in [Req -> Nat]
          /\ \A s \in Req : pc'[s] <= Len(Calls(input'[s].rpc))
      BY <1>1, ControlStep
    <2>2. \A t \in Tokens : tok'[t].state = "none" => root'[t] = t /\ revoker'[t] = NoReq
      BY <1>0, <1>1
    <2>. QED BY <1>0, <1>1, <2>1, <2>2 DEF TypeOK, TokenRecords
  <1>2. ASSUME NEW r \in Req, Arrive(r)
        PROVE  TypeOK'
    <2>1. /\ pc \in [Req -> Nat] /\ status \in [Req -> Codes \cup {"running", "crashed"}]
          /\ \A s \in Req : pc[s] <= Len(Calls(input[s].rpc))
      BY DEF TypeOK
    <2>2. 1 <= Len(Calls(input[r].rpc))
      <3>1. \A n \in 4 .. 6 : 1 <= n
        OBVIOUS
      <3>. QED BY <3>1, AtFacts
    <2>3. pc' \in [Req -> Nat] /\ \A s \in Req : pc'[s] <= Len(Calls(input'[s].rpc))
      BY <1>2, <2>1, <2>2 DEF Arrive
    <2>4. scope' \in [Req -> SUBSET Tokens]
      BY <1>0, <1>2 DEF Arrive
    <2>. QED BY <1>0, <1>2, <2>1, <2>3, <2>4 DEF TypeOK, Arrive, TokenRecords
  <1>3. ASSUME NEW r \in Req, Quiet(r)
        PROVE  TypeOK'
    <2>1. /\ status[r] = "running" /\ pc[r] > 0 /\ Moves(r)
          /\ UNCHANGED <<input, tok, audit, scope, revoker, root, late>>
      BY <1>3, QuietFacts
    <2>. QED BY <1>0, <1>1, <2>1
  <1>4. ASSUME NEW r \in Req, Issue(r)
        PROVE  TypeOK'
    <2>1. /\ status[r] = "running" /\ pc[r] > 0 /\ Moves(r)
          /\ UNCHANGED <<input, audit, scope, revoker, root, late>>
          /\ tok' = tok \/ tok' = WithState(tok, r, "live")
      BY <1>4 DEF Issue, At, Moves, Codes, history, WithState
    <2>2. tok' \in [Tokens -> TokenRecords]
          /\ \A t \in Tokens : tok'[t].state = "none" => tok[t].state = "none"
      <3>1. CASE tok' = tok
        BY <1>0, <3>1
      <3>2. CASE tok' = WithState(tok, r, "live")
        <4>1. /\ tok' \in [Tokens -> TokenRecords] /\ tok'[r].state = "live"
              /\ \A u \in Tokens \ {r} : tok'[u] = tok[u]
          BY <1>0, <3>2, OneTokenChanged
        <4>. QED BY <4>1
      <3>. QED BY <2>1, <3>1, <3>2
    <2>. QED BY <1>0, <1>1, <2>1, <2>2
  <1>5. ASSUME NEW r \in Req, Refresh(r)
        PROVE  TypeOK'
    <2>1. input[r].token \in Tokens
      BY <1>5, AtFacts DEF Refresh
    <2>2. /\ status[r] = "running" /\ pc[r] > 0 /\ Moves(r)
          /\ UNCHANGED <<input, audit, scope, root>>
      BY <1>5 DEF Refresh, At, Moves, Codes
    <2>5. late' \subseteq late \cup {r}
      BY <1>5 DEF Refresh
    <2>3. \/ /\ Live(input[r].token)
             /\ tok' = WithState(tok, input[r].token, "revoked")
             /\ revoker' = [revoker EXCEPT ![input[r].token] = r]
          \/ tok' = tok /\ revoker' = revoker
      BY <1>5 DEF Refresh, WithState
    <2>4. /\ tok' \in [Tokens -> TokenRecords]
          /\ revoker' \in [Tokens -> Req \cup {NoReq}]
          /\ \A t \in Tokens : tok'[t].state = "none" =>
                 tok[t].state = "none" /\ revoker'[t] = revoker[t]
      <3>1. CASE tok' = tok /\ revoker' = revoker
        BY <1>0, <3>1
      <3>2. CASE /\ tok' = WithState(tok, input[r].token, "revoked")
                 /\ revoker' = [revoker EXCEPT ![input[r].token] = r]
        <4>1. /\ tok' \in [Tokens -> TokenRecords] /\ tok'[input[r].token].state = "revoked"
              /\ \A u \in Tokens \ {input[r].token} : tok'[u] = tok[u]
          BY <1>0, <2>1, <3>2, OneTokenChanged
        <4>. QED BY <1>0, <2>1, <3>2, <4>1
      <3>. QED BY <2>3, <3>1, <3>2
    <2>. QED BY <1>0, <1>1, <2>2, <2>4, <2>5
  <1>6. ASSUME NEW r \in Req, Reissue(r)
        PROVE  TypeOK'
    <2>1. input[r].token \in Tokens
      BY <1>6, AtFacts DEF Reissue
    <2>2. /\ status[r] = "running" /\ pc[r] > 0 /\ Moves(r)
          /\ UNCHANGED <<input, audit, scope, revoker, late>>
      BY <1>6 DEF Reissue, At, Moves, Codes
    <2>3. \/ /\ tok' = [tok EXCEPT ![r] = [state |-> "live", user |-> tok[input[r].token].user,
                                           auds |-> tok[input[r].token].auds]]
             /\ root' = [root EXCEPT ![r] = root[input[r].token]]
          \/ tok' = tok /\ root' = root
      BY <1>6 DEF Reissue
    <2>4. [state |-> "live", user |-> tok[input[r].token].user,
           auds |-> tok[input[r].token].auds] \in TokenRecords
      BY <1>0, <2>1 DEF TokenRecords
    <2>5. /\ tok' \in [Tokens -> TokenRecords] /\ root' \in [Tokens -> Tokens]
          /\ \A t \in Tokens : tok'[t].state = "none" =>
                 tok[t].state = "none" /\ root'[t] = root[t]
      BY <1>0, <2>1, <2>3, <2>4
    <2>. QED BY <1>0, <1>1, <2>2, <2>5
  <1>7. ASSUME NEW r \in Req, Revoke(r) \/ RevokeAll(r)
        PROVE  TypeOK'
    <2>1. /\ status[r] = "running" /\ pc[r] > 0 /\ Moves(r)
          /\ UNCHANGED <<input, audit, scope, root, late>>
      BY <1>7 DEF Revoke, RevokeAll, At, Moves, Codes
    <2>2. \/ UNCHANGED <<tok, revoker>>
          \/ \E S \in SUBSET {t \in Tokens : Live(t)} : RevokeSet(r, S)
      BY <1>7 DEF Revoke, RevokeAll
    <2>3. /\ tok' \in [Tokens -> TokenRecords]
          /\ revoker' \in [Tokens -> Req \cup {NoReq}]
          /\ \A t \in Tokens : tok'[t].state = "none" =>
                 tok[t].state = "none" /\ revoker'[t] = revoker[t]
      BY <1>0, <2>2, RevokeSetType
    <2>. QED BY <1>0, <1>1, <2>1, <2>3
  <1>8. ASSUME NEW r \in Req, Record(r)
        PROVE  TypeOK'
    <2>1. /\ status[r] = "running" /\ pc[r] > 0 /\ Moves(r)
          /\ UNCHANGED <<input, tok, scope, revoker, root, late>>
          /\ audit' = audit \/ audit' = audit \cup {r}
      BY <1>8 DEF Record, At, Moves, Codes, history
    <2>2. input[r].rpc \in RevokeRPCs
      BY <1>8, AtFacts DEF Record
    <2>. QED BY <1>0, <1>1, <2>1, <2>2
  <1>9. CASE UNCHANGED vars
    BY <1>9 DEF TypeOK, vars
  <1>. QED BY <1>2, <1>3, <1>4, <1>5, <1>6, <1>7, <1>8, <1>9, StepCases

\* The handlers are type correct, whatever fails and however requests interleave.
THEOREM HandlerTypeCorrect == Spec => []TypeOK
  BY TypeInit, TypeStep, PTL DEF Spec

-----------------------------------------------------------------------------
(***************************************************************************)
(* The effect of each action on what requests have behind them, on the     *)
(* refresh store and on the audit log.                                     *)
(***************************************************************************)

\* A step puts at most the call being made behind its request.
LEMMA PastStep ==
    ASSUME TypeOK, NEW r \in Req, input' = input, status[r] = "running", pc[r] > 0, Moves(r)
    PROVE  /\ \A s \in Req \ {r} : \A c : Past(s, c)' <=> Past(s, c)
           /\ pc'[r] = pc[r] => \A c : Past(r, c)' <=> Past(r, c)
           /\ pc'[r] # pc[r] => \A c : Past(r, c)' <=> Past(r, c) \/ At(r, c)
           /\ pc'[r] # pc[r] => pc'[r] = pc[r] + 1 /\ status' = status
  <1>1. /\ pc \in [Req -> Nat]
        /\ \A s \in Req \ {r} : pc'[s] = pc[s]
    BY ControlStep DEF TypeOK
  <1>2. pc'[r] # pc[r] => pc'[r] = pc[r] + 1 /\ status' = status
    BY <1>1 DEF Moves, Proceed, Fail
  <1>3. ASSUME NEW s \in Req, pc'[s] = pc[s], NEW c
        PROVE  Past(s, c)' <=> Past(s, c)
    BY <1>3 DEF Past
  <1>4. ASSUME pc'[r] = pc[r] + 1, NEW c
        PROVE  Past(r, c)' <=> Past(r, c) \/ At(r, c)
    <2>1. Past(r, c)' <=> \E i \in 1 .. (pc[r] + 1) :
                              i < pc[r] + 1 /\ Calls(input[r].rpc)[i] = c
      BY <1>4 DEF Past
    <2>2. \A i : i \in 1 .. (pc[r] + 1) /\ i < pc[r] + 1 <=>
                     (i \in 1 .. pc[r] /\ i < pc[r]) \/ i = pc[r]
      BY <1>1
    <2>. QED BY <2>1, <2>2 DEF Past, At
  <1>. QED BY <1>1, <1>2, <1>3, <1>4

\* Issue mints the request's own token, which did not exist.
LEMMA IssueEffect ==
    ASSUME TypeOK, MintedOnce, NEW r \in Req, Issue(r)
    PROVE  /\ status[r] = "running" /\ pc[r] > 0 /\ Moves(r) /\ At(r, "issue")
           /\ UNCHANGED <<input, audit, scope, revoker, root, late>>
           /\ status'[r] # "OK" /\ tok[r].state = "none"
           /\ \/ tok' = tok /\ pc'[r] = pc[r]
              \/ /\ pc'[r] # pc[r] /\ tok'[r].state = "live"
                 /\ \A u \in Tokens \ {r} : tok'[u] = tok[u]
  <1>1. /\ status[r] = "running" /\ pc[r] > 0 /\ Moves(r) /\ At(r, "issue")
        /\ UNCHANGED <<input, audit, scope, revoker, root, late>>
    BY DEF Issue, At, Moves, Codes, history
  <1>2. pc[r] = 2 /\ input[r].rpc = "IssueToken" /\ Len(Calls(input[r].rpc)) \in 4 .. 6
        /\ tok \in [Tokens -> TokenRecords] /\ r \in Tokens /\ status \in [Req -> Codes \cup {"running", "crashed"}]
    BY <1>1, AtFacts DEF TypeOK, Tokens, TokenRecords
  <1>3. tok[r].state = "none"
    BY <1>2, PastFacts DEF MintedOnce
  <1>4. CASE Proceed(r) /\ tok' = [tok EXCEPT ![r].state = "live"]
    <2>1. 2 < Len(Calls(input[r].rpc))
      <3>1. \A n \in 4 .. 6 : 2 < n
        OBVIOUS
      <3>. QED BY <1>2, <3>1
    <2>2. pc'[r] = pc[r] + 1 /\ status' = status
      BY <1>2, <1>4, <2>1, ProceedFacts
    <2>3. tok' = WithState(tok, r, "live")
      BY <1>4 DEF WithState
    <2>4. tok'[r].state = "live" /\ \A u \in Tokens \ {r} : tok'[u] = tok[u]
      BY <1>2, <2>3, OneTokenChanged
    <2>. QED BY <1>1, <1>2, <1>3, <2>2, <2>4
  <1>5. CASE Fail(r, "LibraryError") /\ tok' = tok
    BY <1>1, <1>2, <1>3, <1>5 DEF Fail
  <1>. QED BY <1>4, <1>5 DEF Issue

\* Refresh consumes the presented token, or finds it revoked since it was read and
\* is late.
LEMMA RefreshEffect ==
    ASSUME TypeOK, NEW r \in Req, Refresh(r)
    PROVE  /\ status[r] = "running" /\ pc[r] > 0 /\ Moves(r) /\ At(r, "refresh")
           /\ UNCHANGED <<input, audit, scope, root>>
           /\ status'[r] # "OK" /\ input[r].token \in Tokens /\ input[r].rpc = "RefreshToken"
           /\ \/ tok' = tok /\ pc'[r] = pc[r] /\ late' = late
              \/ /\ tok' = tok /\ pc'[r] # pc[r] /\ late' = late \cup {r}
                 /\ tok[input[r].token].state = "revoked" /\ ~AtomicRefresh
              \/ /\ pc'[r] # pc[r] /\ Live(input[r].token) /\ late' = late
                 /\ tok'[input[r].token].state = "revoked"
                 /\ tok'[input[r].token].user = tok[input[r].token].user
                 /\ tok'[input[r].token].auds = tok[input[r].token].auds
                 /\ \A u \in Tokens \ {input[r].token} : tok'[u] = tok[u]
  <1>1. /\ status[r] = "running" /\ pc[r] > 0 /\ Moves(r) /\ At(r, "refresh")
        /\ UNCHANGED <<input, audit, scope, root>>
    BY DEF Refresh, At, Moves, Codes
  <1>2. pc[r] = 3 /\ input[r].rpc = "RefreshToken"
        /\ tok \in [Tokens -> TokenRecords] /\ status \in [Req -> Codes \cup {"running", "crashed"}]
        /\ input[r].token \in Tokens
    BY <1>1, AtFacts DEF TypeOK, TokenRecords
  <1>3. ASSUME Proceed(r)
        PROVE  pc'[r] = pc[r] + 1 /\ pc'[r] # pc[r] /\ status'[r] # "OK"
    <2>1. pc[r] < Len(Calls(input[r].rpc))
      <3>1. Len(Calls(input[r].rpc)) = 6 /\ pc[r] = 3
        BY <1>2, AtFacts, CallFacts
      <3>. QED BY <3>1
    <2>2. pc'[r] = pc[r] + 1 /\ status' = status
      BY <1>3, <2>1, ProceedFacts
    <2>. QED BY <1>1, <1>2, <2>2
  <1>4. CASE Live(input[r].token) /\ Proceed(r) /\ late' = late
             /\ tok' = [tok EXCEPT ![input[r].token].state = "revoked"]
    <2>1. tok' = WithState(tok, input[r].token, "revoked")
      BY <1>4 DEF WithState
    <2>2. /\ tok'[input[r].token].state = "revoked"
          /\ tok'[input[r].token].user = tok[input[r].token].user
          /\ tok'[input[r].token].auds = tok[input[r].token].auds
          /\ \A u \in Tokens \ {input[r].token} : tok'[u] = tok[u]
      BY <1>2, <2>1, OneTokenChanged
    <2>. QED BY <1>1, <1>2, <1>3, <1>4, <2>2
  <1>5. CASE /\ "refresh_race" \in Faults /\ tok[input[r].token].state = "revoked" /\ Proceed(r)
             /\ late' = late \cup {r} /\ tok' = tok
    BY <1>1, <1>2, <1>3, <1>5 DEF AtomicRefresh
  <1>6. CASE Fail(r, "LibraryError") /\ tok' = tok /\ late' = late
    BY <1>1, <1>2, <1>6 DEF Fail
  <1>. QED BY <1>4, <1>5, <1>6 DEF Refresh

\* Reissue mints the request's own token, which did not exist, in the session of
\* the token it presented.
LEMMA ReissueEffect ==
    ASSUME TypeOK, MintedOnce, NEW r \in Req, Reissue(r)
    PROVE  /\ status[r] = "running" /\ pc[r] > 0 /\ Moves(r) /\ At(r, "reissue")
           /\ UNCHANGED <<input, audit, scope, revoker, late>>
           /\ status'[r] # "OK" /\ input[r].token \in Tokens
           /\ tok[r].state = "none" /\ Past(r, "refresh") /\ ~Past(r, "reissue")
           /\ \/ tok' = tok /\ root' = root /\ pc'[r] = pc[r]
              \/ /\ pc'[r] # pc[r] /\ tok'[r].state = "live" /\ root'[r] = root[input[r].token]
                 /\ \A u \in Tokens \ {r} : tok'[u] = tok[u] /\ root'[u] = root[u]
  <1>1. /\ status[r] = "running" /\ pc[r] > 0 /\ Moves(r) /\ At(r, "reissue")
        /\ UNCHANGED <<input, audit, scope, revoker, late>>
    BY DEF Reissue, At, Moves, Codes
  <1>2. pc[r] = 5 /\ input[r].rpc = "RefreshToken"
        /\ tok \in [Tokens -> TokenRecords] /\ r \in Tokens /\ root \in [Tokens -> Tokens]
        /\ status \in [Req -> Codes \cup {"running", "crashed"}] /\ input[r].token \in Tokens
    BY <1>1, AtFacts DEF TypeOK, Tokens, TokenRecords
  <1>3. tok[r].state = "none" /\ Past(r, "refresh") /\ ~Past(r, "reissue")
    BY <1>2, PastFacts DEF MintedOnce
  <1>4. CASE /\ Proceed(r)
             /\ tok' = [tok EXCEPT ![r] = [state |-> "live", user |-> tok[input[r].token].user,
                                           auds |-> tok[input[r].token].auds]]
             /\ root' = [root EXCEPT ![r] = root[input[r].token]]
    <2>1. pc[r] < Len(Calls(input[r].rpc))
      <3>1. Len(Calls(input[r].rpc)) = 6
        BY <1>2, AtFacts, CallFacts
      <3>2. pc[r] = 5
        BY <1>2
      <3>. QED BY <3>1, <3>2
    <2>2. pc'[r] = pc[r] + 1 /\ status' = status
      BY <1>2, <1>4, <2>1, ProceedFacts
    <2>3. /\ tok'[r].state = "live" /\ root'[r] = root[input[r].token]
          /\ \A u \in Tokens \ {r} : tok'[u] = tok[u] /\ root'[u] = root[u]
      BY <1>2, <1>4
    <2>. QED BY <1>1, <1>2, <1>3, <2>2, <2>3
  <1>5. CASE Fail(r, "LibraryError") /\ tok' = tok /\ root' = root
    BY <1>1, <1>2, <1>3, <1>5 DEF Fail
  <1>. QED BY <1>4, <1>5 DEF Reissue

\* The revoking calls revoke valid tokens, and on success all that they cover.
LEMMA RevokeEffect ==
    ASSUME TypeOK, NEW r \in Req, Revoke(r) \/ RevokeAll(r)
    PROVE  /\ status[r] = "running" /\ pc[r] > 0 /\ Moves(r)
           /\ At(r, "revoke") \/ At(r, "revokeAll")
           /\ UNCHANGED <<input, audit, scope, root, late>>
           /\ status'[r] # "OK"
           /\ \E S \in SUBSET {t \in Tokens : Live(t)} :
                /\ \A t \in S : tok'[t].state = "revoked"
                /\ \A t \in Tokens \ S : tok'[t] = tok[t]
                /\ \A t \in Tokens : tok'[t].user = tok[t].user /\ tok'[t].auds = tok[t].auds
                /\ pc'[r] # pc[r] => \A t \in Tokens : Live(t) /\ Covers(input[r], t) => t \in S
  <1>1. /\ status[r] = "running" /\ pc[r] > 0 /\ Moves(r)
        /\ At(r, "revoke") \/ At(r, "revokeAll")
        /\ UNCHANGED <<input, audit, scope, root, late>>
    BY DEF Revoke, RevokeAll, At, Moves, Codes
  <1>2. status \in [Req -> Codes \cup {"running", "crashed"}]
    BY DEF TypeOK
  <1>3. ASSUME Proceed(r)
        PROVE  status'[r] # "OK"
    <2>1. /\ input[r].rpc = "RevokeToken" => Len(Calls(input[r].rpc)) = 5
          /\ input[r].rpc \in RevokeRPCs \ {"RevokeToken"} => Len(Calls(input[r].rpc)) = 4
      BY AtFacts, CallFacts
    <2>2. pc[r] < Len(Calls(input[r].rpc))
      <3>1. CASE At(r, "revoke")
        <4>1. pc[r] = 4 /\ Len(Calls(input[r].rpc)) = 5
          BY <2>1, <3>1, AtFacts
        <4>. QED BY <4>1
      <3>2. CASE At(r, "revokeAll")
        <4>1. pc[r] = 3 /\ Len(Calls(input[r].rpc)) = 4
          BY <2>1, <3>2, AtFacts
        <4>. QED BY <4>1
      <3>. QED BY <1>1, <3>1, <3>2
    <2>. QED BY <1>1, <1>3, <2>2, ProceedFacts
  <1>4. ASSUME Fail(r, "LibraryError")
        PROVE  status'[r] # "OK" /\ pc'[r] = pc[r]
    BY <1>2, <1>4 DEF Fail
  <1>5. ASSUME NEW S \in SUBSET {t \in Tokens : Live(t)}, RevokeSet(r, S), status'[r] # "OK",
               pc'[r] # pc[r] => \A t \in Tokens : Live(t) /\ Covers(input[r], t) => t \in S
        PROVE  \E T \in SUBSET {t \in Tokens : Live(t)} :
                 /\ \A t \in T : tok'[t].state = "revoked"
                 /\ \A t \in Tokens \ T : tok'[t] = tok[t]
                 /\ \A t \in Tokens : tok'[t].user = tok[t].user /\ tok'[t].auds = tok[t].auds
                 /\ pc'[r] # pc[r] => \A t \in Tokens : Live(t) /\ Covers(input[r], t) => t \in T
    BY <1>5, RevokeSetType
  <1>6. CASE Revoke(r)
    <2>1. input[r].rpc = "RevokeToken"
      BY <1>6, AtFacts DEF Revoke
    <2>2. CASE Proceed(r) /\ RevokeSet(r, {input[r].token} \cap {u \in Tokens : Live(u)})
      <3>1. \A t \in Tokens : Live(t) /\ Covers(input[r], t) =>
                t \in {input[r].token} \cap {u \in Tokens : Live(u)}
        BY <2>1 DEF Covers
      <3>. QED BY <1>1, <1>3, <1>5, <2>2, <3>1
    <2>3. CASE Fail(r, "LibraryError") /\ tok' = tok
      <3>1. status'[r] # "OK" /\ pc'[r] = pc[r]
        BY <1>4, <2>3
      <3>2. {} \in SUBSET {t \in Tokens : Live(t)}
        OBVIOUS
      <3>. QED BY <1>1, <2>3, <3>1, <3>2
    <2>. QED BY <1>6, <2>2, <2>3 DEF Revoke
  <1>7. CASE RevokeAll(r)
    <2>1. CASE Proceed(r) /\ RevokeSet(r, {t \in Tokens : Live(t) /\ Covers(input[r], t)})
      BY <1>1, <1>3, <1>5, <2>1
    <2>2. CASE Fail(r, "LibraryError") /\ \E P \in SUBSET {t \in Tokens : Live(t)} : RevokeSet(r, P)
      BY <1>1, <1>4, <1>5, <2>2
    <2>. QED BY <1>7, <2>1, <2>2 DEF RevokeAll
  <1>. QED BY <1>6, <1>7

\* Record comes after the revoking call and last: it either logs the event and
\* answers OK, or answers an error.
LEMMA RecordEffect ==
    ASSUME TypeOK, NEW r \in Req, Record(r)
    PROVE  /\ status[r] = "running" /\ pc[r] > 0 /\ Moves(r) /\ At(r, "record")
           /\ UNCHANGED <<input, tok, scope, revoker, root, late>>
           /\ Past(r, "revoke") \/ Past(r, "revokeAll")
           /\ \/ audit' = audit \cup {r}
              \/ audit' = audit /\ status'[r] # "OK"
  <1>1. /\ status[r] = "running" /\ pc[r] > 0 /\ Moves(r) /\ At(r, "record")
        /\ UNCHANGED <<input, tok, scope, revoker, root, late>>
    BY DEF Record, At, Moves, Codes, history
  <1>2. input[r].rpc \in RevokeRPCs /\ pc[r] = Len(Calls(input[r].rpc)) /\ input[r].rpc \in RPCs
    BY <1>1, AtFacts
  <1>3. /\ input[r].rpc = "RevokeToken" => pc[r] = 5
        /\ input[r].rpc \in RevokeRPCs \ {"RevokeToken"} => pc[r] = 4
    BY <1>2, CallFacts
  <1>4. Past(r, "revoke") \/ Past(r, "revokeAll")
    <2>1. CASE input[r].rpc = "RevokeToken"
      <3>1. pc[r] > 4
        <4>1. pc[r] = 5
          BY <1>3, <2>1
        <4>. QED BY <4>1
      <3>. QED BY <2>1, <3>1, PastFacts
    <2>2. CASE input[r].rpc # "RevokeToken"
      <3>1. pc[r] > 3
        <4>1. pc[r] = 4
          BY <1>2, <1>3, <2>2
        <4>. QED BY <4>1
      <3>. QED BY <1>2, <2>2, <3>1, PastFacts
    <2>. QED BY <2>1, <2>2
  <1>. QED BY <1>1, <1>4 DEF Record, Fail, TypeOK

\* Arriving puts no call behind a request.
LEMMA ArriveEffect ==
    ASSUME TypeOK, NEW r \in Req, Arrive(r)
    PROVE  /\ \A s \in Req : \A c : Past(s, c)' <=> Past(s, c)
           /\ \A c : ~Past(r, c)
           /\ UNCHANGED <<input, status, tok, audit, revoker, root, late>>
           /\ \A s \in Req \ {r} : scope'[s] = scope[s]
           /\ scope'[r] = {t \in Tokens : Live(t) /\ Covers(input[r], t)}
  <1>1. pc \in [Req -> Nat] /\ scope \in [Req -> SUBSET Tokens] /\ pc[r] = 0
    BY DEF TypeOK, Arrive
  <1>2. pc'[r] = 1 /\ (\A s \in Req \ {r} : pc'[s] = pc[s]) /\ input' = input
    BY <1>1 DEF Arrive
  <1>3. ASSUME NEW c
        PROVE  ~Past(r, c) /\ ~(Past(r, c)')
    BY <1>1, <1>2 DEF Past
  <1>4. ASSUME NEW s \in Req \ {r}, NEW c
        PROVE  Past(s, c)' <=> Past(s, c)
    BY <1>2 DEF Past
  <1>. QED BY <1>1, <1>3, <1>4 DEF Arrive

\* The quiet steps put no call behind a request that touches tokens.
LEMMA QuietPast ==
    ASSUME TypeOK, NEW r \in Req, Quiet(r),
           NEW c \in {"issue", "refresh", "reissue", "revoke", "revokeAll"}
    PROVE  /\ \A s \in Req : Past(s, c)' <=> Past(s, c)
           /\ pc'[r] # pc[r] => ~At(r, c)
  <1>1. /\ status[r] = "running" /\ pc[r] > 0 /\ Moves(r) /\ input' = input
    BY QuietFacts
  <1>2. pc'[r] # pc[r] => ~At(r, c)
    BY DEF Quiet, Ping, GetTenant, Read, Validate, Introspect, Resolve, Crash, At, Fail
  <1>3. /\ \A s \in Req \ {r} : Past(s, c)' <=> Past(s, c)
        /\ pc'[r] = pc[r] => (Past(r, c)' <=> Past(r, c))
        /\ pc'[r] # pc[r] => (Past(r, c)' <=> Past(r, c) \/ At(r, c))
    BY <1>1, PastStep
  <1>. QED BY <1>2, <1>3

-----------------------------------------------------------------------------
(***************************************************************************)
(* Revocation and its audit.                                               *)
(***************************************************************************)

LEMMA RevocationInit == Init => RevocationInv
  <1>. SUFFICES ASSUME Init PROVE RevocationInv
    OBVIOUS
  <1>1. TypeOK
    BY TypeInit
  <1>2. \A r \in Req : tok[r].state = "none" /\ scope[r] = {} /\ status[r] = "running"
                       /\ pc[r] = 0
    BY DEF Init, Tokens
  <1>3. \A r \in Req : \A c : ~Past(r, c)
    BY <1>2 DEF Past
  <1>4. audit = {}
    BY DEF Init
  <1>. QED BY <1>1, <1>2, <1>3, <1>4
         DEF RevocationInv, MintedOnce, ScopeFixed, RevokedBehind, AuditOrder

\* What every step of a request must do to the tokens and the log, and why that
\* is enough.
LEMMA RevocationFrame ==
    ASSUME RevocationInv, TypeOK', NEW r \in Req, status[r] = "running", pc[r] > 0, Moves(r),
           input' = input, scope' = scope,
           \A t \in Tokens : tok[t].state # "none" =>
               /\ tok'[t].state # "none"
               /\ tok'[t].user = tok[t].user /\ tok'[t].auds = tok[t].auds
               /\ tok[t].state = "revoked" => tok'[t].state = "revoked",
           \A s \in Req : tok'[s].state # "none" /\ tok[s].state = "none" =>
               s = r /\ pc'[r] # pc[r] /\ (At(r, "issue") \/ At(r, "reissue")),
           pc'[r] # pc[r] /\ (At(r, "revoke") \/ At(r, "revokeAll")) =>
               \A t \in scope[r] : tok'[t].state = "revoked",
           audit' = audit \/ (audit' = audit \cup {r} /\ (Past(r, "revoke") \/ Past(r, "revokeAll"))),
           status'[r] = "OK" /\ input[r].rpc \in RevokeRPCs => r \in audit'
    PROVE  RevocationInv'
  <1>1. /\ TypeOK /\ scope \in [Req -> SUBSET Tokens] /\ audit \subseteq Req /\ Req \subseteq Tokens
        /\ \A s \in Req \ {r} : status'[s] = status[s]
    BY ControlStep DEF RevocationInv, TypeOK, Tokens
  <1>2. /\ \A s \in Req \ {r} : \A c : Past(s, c)' <=> Past(s, c)
        /\ pc'[r] = pc[r] => \A c : Past(r, c)' <=> Past(r, c)
        /\ pc'[r] # pc[r] => \A c : Past(r, c)' <=> Past(r, c) \/ At(r, c)
    BY <1>1, PastStep
  <1>3. \A s \in Req : \A c : Past(s, c) => Past(s, c)'
    BY <1>2
  <1>4. MintedOnce'
    <2>. SUFFICES ASSUME NEW s \in Req, tok'[s].state # "none"
                  PROVE  Past(s, "issue")' \/ Past(s, "reissue")'
      BY DEF MintedOnce
    <2>1. CASE tok[s].state # "none"
      BY <1>3, <2>1 DEF RevocationInv, MintedOnce
    <2>2. CASE tok[s].state = "none"
      BY <1>2, <2>2
    <2>. QED BY <2>1, <2>2
  <1>5. ScopeFixed'
    <2>. SUFFICES ASSUME NEW s \in Req, NEW t \in scope[s]
                  PROVE  tok'[t].state # "none" /\ Covers(input[s], t)'
      BY DEF ScopeFixed
    <2>1. t \in Tokens /\ tok[t].state # "none" /\ Covers(input[s], t)
      BY <1>1 DEF RevocationInv, ScopeFixed
    <2>2. tok'[t].state # "none" /\ tok'[t].user = tok[t].user /\ tok'[t].auds = tok[t].auds
      BY <2>1
    <2>. QED BY <2>1, <2>2 DEF Covers
  <1>6. RevokedBehind'
    <2>. SUFFICES ASSUME NEW s \in Req, Past(s, "revoke")' \/ Past(s, "revokeAll")',
                         NEW t \in scope[s]
                  PROVE  tok'[t].state = "revoked"
      BY DEF RevokedBehind
    <2>1. CASE Past(s, "revoke") \/ Past(s, "revokeAll")
      <3>1. tok[t].state = "revoked" /\ t \in Tokens
        BY <1>1, <2>1 DEF RevocationInv, RevokedBehind
      <3>. QED BY <3>1
    <2>2. CASE ~Past(s, "revoke") /\ ~Past(s, "revokeAll")
      <3>1. s = r /\ pc'[r] # pc[r] /\ (At(r, "revoke") \/ At(r, "revokeAll"))
        BY <1>2, <2>2
      <3>. QED BY <3>1
    <2>. QED BY <2>1, <2>2
  <1>7. AuditOrder'
    <2>1. \A s \in audit' : Past(s, "revoke")' \/ Past(s, "revokeAll")'
      BY <1>1, <1>3 DEF RevocationInv, AuditOrder
    <2>2. \A s \in Req : status'[s] = "OK" /\ input'[s].rpc \in RevokeRPCs => s \in audit'
      BY <1>1 DEF RevocationInv, AuditOrder
    <2>. QED BY <2>1, <2>2 DEF AuditOrder
  <1>. QED BY <1>4, <1>5, <1>6, <1>7 DEF RevocationInv

LEMMA RevocationStep == RevocationInv /\ [Next]_vars => RevocationInv'
  <1>. SUFFICES ASSUME RevocationInv, [Next]_vars PROVE RevocationInv'
    OBVIOUS
  <1>0. TypeOK /\ TypeOK' /\ MintedOnce /\ Req \subseteq Tokens
    BY TypeStep DEF RevocationInv, Tokens
  <1>1. ASSUME NEW r \in Req, Arrive(r)
        PROVE  RevocationInv'
    <2>1. /\ \A s \in Req : \A c : Past(s, c)' <=> Past(s, c)
          /\ \A c : ~Past(r, c)
          /\ UNCHANGED <<input, status, tok, audit, revoker, root, late>>
          /\ \A s \in Req \ {r} : scope'[s] = scope[s]
          /\ scope'[r] = {t \in Tokens : Live(t) /\ Covers(input[r], t)}
      BY <1>0, <1>1, ArriveEffect
    <2>2. audit \subseteq Req
      BY <1>0 DEF TypeOK
    <2>3. MintedOnce'
      BY <1>0, <2>1 DEF MintedOnce
    <2>4. ScopeFixed'
      <3>. SUFFICES ASSUME NEW s \in Req, NEW t \in scope'[s]
                    PROVE  tok[t].state # "none" /\ Covers(input[s], t)
        BY <2>1 DEF ScopeFixed, Covers
      <3>. QED BY <2>1 DEF RevocationInv, ScopeFixed, Live
    <2>5. RevokedBehind'
      <3>. SUFFICES ASSUME NEW s \in Req, Past(s, "revoke") \/ Past(s, "revokeAll"),
                           NEW t \in scope'[s]
                    PROVE  tok[t].state = "revoked"
        BY <2>1 DEF RevokedBehind
      <3>. QED BY <2>1 DEF RevocationInv, RevokedBehind
    <2>6. AuditOrder'
      BY <2>1, <2>2 DEF RevocationInv, AuditOrder
    <2>. QED BY <1>0, <2>3, <2>4, <2>5, <2>6 DEF RevocationInv
  <1>2. ASSUME NEW r \in Req, Quiet(r)
        PROVE  RevocationInv'
    <2>1. /\ status[r] = "running" /\ pc[r] > 0 /\ Moves(r)
          /\ UNCHANGED <<input, tok, audit, scope, revoker, root, late>>
          /\ status'[r] = "OK" => input[r].rpc \notin RevokeRPCs
      BY <1>0, <1>2, QuietFacts
    <2>2. pc'[r] # pc[r] => ~At(r, "revoke") /\ ~At(r, "revokeAll")
      BY <1>0, <1>2, QuietPast
    <2>. QED BY <1>0, <2>1, <2>2, RevocationFrame
  <1>3. ASSUME NEW r \in Req, Issue(r)
        PROVE  RevocationInv'
    <2>1. /\ status[r] = "running" /\ pc[r] > 0 /\ Moves(r) /\ At(r, "issue")
          /\ UNCHANGED <<input, audit, scope, revoker, root, late>>
          /\ status'[r] # "OK" /\ tok[r].state = "none"
          /\ \/ tok' = tok /\ pc'[r] = pc[r]
             \/ /\ pc'[r] # pc[r] /\ tok'[r].state = "live"
                /\ \A u \in Tokens \ {r} : tok'[u] = tok[u]
      BY <1>0, <1>3, IssueEffect
    <2>2. ~At(r, "revoke") /\ ~At(r, "revokeAll")
      BY <2>1 DEF At
    <2>. QED BY <1>0, <2>1, <2>2, RevocationFrame
  <1>4. ASSUME NEW r \in Req, Refresh(r)
        PROVE  RevocationInv'
    <2>1. /\ status[r] = "running" /\ pc[r] > 0 /\ Moves(r) /\ At(r, "refresh")
          /\ UNCHANGED <<input, audit, scope, root>>
          /\ status'[r] # "OK" /\ input[r].token \in Tokens
          /\ \/ tok' = tok
             \/ /\ pc'[r] # pc[r] /\ Live(input[r].token)
                /\ tok'[input[r].token].state = "revoked"
                /\ tok'[input[r].token].user = tok[input[r].token].user
                /\ tok'[input[r].token].auds = tok[input[r].token].auds
                /\ \A u \in Tokens \ {input[r].token} : tok'[u] = tok[u]
      BY <1>0, <1>4, RefreshEffect
    <2>2. ~At(r, "revoke") /\ ~At(r, "revokeAll")
      BY <2>1 DEF At
    <2>3. /\ \A t \in Tokens : tok[t].state # "none" =>
               /\ tok'[t].state # "none"
               /\ tok'[t].user = tok[t].user /\ tok'[t].auds = tok[t].auds
               /\ tok[t].state = "revoked" => tok'[t].state = "revoked"
          /\ \A s \in Req : tok[s].state = "none" => tok'[s].state = "none"
      BY <1>0, <2>1 DEF Live
    <2>. QED BY <1>0, <2>1, <2>2, <2>3, RevocationFrame
  <1>5. ASSUME NEW r \in Req, Reissue(r)
        PROVE  RevocationInv'
    <2>1. /\ status[r] = "running" /\ pc[r] > 0 /\ Moves(r) /\ At(r, "reissue")
          /\ UNCHANGED <<input, audit, scope, revoker, late>>
          /\ status'[r] # "OK" /\ tok[r].state = "none"
          /\ \/ tok' = tok /\ pc'[r] = pc[r]
             \/ /\ pc'[r] # pc[r] /\ tok'[r].state = "live"
                /\ \A u \in Tokens \ {r} : tok'[u] = tok[u]
      BY <1>0, <1>5, ReissueEffect
    <2>2. ~At(r, "revoke") /\ ~At(r, "revokeAll")
      BY <2>1 DEF At
    <2>. QED BY <1>0, <2>1, <2>2, RevocationFrame
  <1>6. ASSUME NEW r \in Req, Revoke(r) \/ RevokeAll(r)
        PROVE  RevocationInv'
    <2>1. /\ status[r] = "running" /\ pc[r] > 0 /\ Moves(r)
          /\ UNCHANGED <<input, audit, scope, root, late>>
          /\ status'[r] # "OK"
      BY <1>0, <1>6, RevokeEffect
    <2>2. PICK S \in SUBSET {t \in Tokens : Live(t)} :
            /\ \A t \in S : tok'[t].state = "revoked"
            /\ \A t \in Tokens \ S : tok'[t] = tok[t]
            /\ \A t \in Tokens : tok'[t].user = tok[t].user /\ tok'[t].auds = tok[t].auds
            /\ pc'[r] # pc[r] => \A t \in Tokens : Live(t) /\ Covers(input[r], t) => t \in S
      BY <1>0, <1>6, RevokeEffect
    <2>3. /\ \A t \in Tokens : tok[t].state # "none" =>
               /\ tok'[t].state # "none"
               /\ tok'[t].user = tok[t].user /\ tok'[t].auds = tok[t].auds
               /\ tok[t].state = "revoked" => tok'[t].state = "revoked"
          /\ \A s \in Req : tok[s].state = "none" => tok'[s].state = "none"
      BY <1>0, <2>2 DEF Live
    <2>4. pc'[r] # pc[r] => \A t \in scope[r] : tok'[t].state = "revoked"
      <3>. SUFFICES ASSUME pc'[r] # pc[r], NEW t \in scope[r] PROVE tok'[t].state = "revoked"
        OBVIOUS
      <3>1. t \in Tokens /\ tok[t].state \in {"none", "live", "revoked"}
        BY <1>0 DEF TypeOK
      <3>2. tok[t].state # "none" /\ Covers(input[r], t)
        BY DEF RevocationInv, ScopeFixed
      <3>. QED BY <2>2, <3>1, <3>2 DEF Live
    <2>. QED BY <1>0, <2>1, <2>3, <2>4, RevocationFrame
  <1>7. ASSUME NEW r \in Req, Record(r)
        PROVE  RevocationInv'
    <2>1. /\ status[r] = "running" /\ pc[r] > 0 /\ Moves(r) /\ At(r, "record")
          /\ UNCHANGED <<input, tok, scope, revoker, root, late>>
          /\ Past(r, "revoke") \/ Past(r, "revokeAll")
          /\ \/ audit' = audit \cup {r}
             \/ audit' = audit /\ status'[r] # "OK"
      BY <1>0, <1>7, RecordEffect
    <2>2. ~At(r, "revoke") /\ ~At(r, "revokeAll")
      BY <2>1 DEF At
    <2>. QED BY <1>0, <2>1, <2>2, RevocationFrame
  <1>8. CASE UNCHANGED vars
    BY <1>0, <1>8 DEF vars, RevocationInv, MintedOnce, ScopeFixed, RevokedBehind, AuditOrder,
                      Past, Covers
  <1>. QED BY <1>1, <1>2, <1>3, <1>4, <1>5, <1>6, <1>7, <1>8, StepCases

\* Whatever calls fail and however the requests interleave, RevocationInv holds.
THEOREM RevocationHolds == Spec => []RevocationInv
  BY RevocationInit, RevocationStep, PTL DEF Spec

\* An acknowledged revocation is complete and audited: no failure of the library
\* or of the audit store and no concurrent issue, refresh or revocation leaves a
\* token valid that it covered when it arrived.
THEOREM RevocationComplete == Spec => []AckedRevocation
  <1>1. RevocationInv => AckedRevocation
    BY DEF RevocationInv, RevokedBehind, AuditOrder, AckedRevocation
  <1>. QED BY <1>1, RevocationHolds, PTL

\* The audit log never claims a revocation that has not taken effect.
THEOREM AuditTruthful == Spec => []AuditSound
  <1>1. RevocationInv => AuditSound
    BY DEF RevocationInv, TypeOK, RevokedBehind, AuditOrder, AuditSound
  <1>. QED BY <1>1, RevocationHolds, PTL

-----------------------------------------------------------------------------
(***************************************************************************)
(* Refresh rotation.                                                       *)
(***************************************************************************)
LEMMA SessionInit == Init => SessionInv
  <1>. SUFFICES ASSUME Init PROVE SessionInv
    OBVIOUS
  <1>1. TypeOK /\ MintedOnce
    BY RevocationInit DEF RevocationInv
  <1>2. (\A t \in Tokens : root[t] = t) /\ late = {}
    BY DEF Init
  <1>3. \A r \in Req : ~Continues(r)
    <2>1. \A r \in Req : pc[r] = 0
      BY DEF Init
    <2>2. \A r \in Req : \A c : ~Past(r, c)
      BY <2>1 DEF Past
    <2>. QED BY <2>2 DEF Continues
  <1>4. LateKnown /\ RootsExist /\ OneLivePerSession
    BY <1>2 DEF LateKnown, RootsExist, OneLivePerSession
  <1>5. OneContinuation
    BY <1>3 DEF OneContinuation
  <1>. QED BY <1>1, <1>4, <1>5 DEF SessionInv

\* A request that continues a session, and one that was late, presented a token of
\* the store.
LEMMA ContinuesToken ==
    ASSUME TypeOK, NEW r \in Req, Continues(r)
    PROVE  input[r].token \in Tokens
  BY PastFacts, AtFacts DEF Continues

LEMMA LateToken ==
    ASSUME TypeOK, LateKnown, NEW r \in late
    PROVE  input[r].token \in Tokens /\ tok[input[r].token].state = "revoked" /\ r \in Req
  <1>1. r \in Req /\ input[r].rpc = "RefreshToken"
    BY DEF TypeOK, LateKnown
  <1>. QED BY <1>1, AtFacts DEF LateKnown

\* What SessionInv says of one request that continues a session.
LEMMA ContinuationFacts ==
    ASSUME SessionInv, NEW r \in Req, Continues(r)
    PROVE  /\ input[r].token \in Tokens
           /\ tok[input[r].token].state = "revoked"
           /\ ~Forked(root[input[r].token]) =>
                /\ \A t \in Tokens : tok[t].state = "live" => root[t] # root[input[r].token]
                /\ \A s \in Req : Continues(s) /\ root[input[s].token] = root[input[r].token] => s = r
  <1>1. input[r].token \in Tokens
    BY ContinuesToken DEF SessionInv
  <1>2. OneContinuation
    BY DEF SessionInv
  <1>. QED BY <1>1, <1>2 DEF OneContinuation, Live

\* Steps that mint nothing, revive nothing and consume nothing for a refresh.
LEMMA SessionFrame ==
    ASSUME SessionInv, TypeOK', MintedOnce', input' = input, root' = root, late' = late,
           \A s \in Req : Continues(s)' <=> Continues(s),
           \A t \in Tokens : /\ tok'[t].state = "live" => tok[t].state = "live"
                             /\ tok'[t].state = "none" <=> tok[t].state = "none"
                             /\ tok[t].state = "revoked" => tok'[t].state = "revoked"
    PROVE  SessionInv'
  <1>1. TypeOK /\ root \in [Tokens -> Tokens] /\ LateKnown
    BY DEF SessionInv, TypeOK
  <1>2. RootsExist'
    <2>. SUFFICES ASSUME NEW t \in Tokens, tok'[t].state # "none"
                  PROVE  tok'[root[t]].state # "none"
      BY DEF RootsExist
    <2>1. tok[t].state # "none" /\ root[t] \in Tokens
      BY <1>1
    <2>2. tok[root[t]].state # "none"
      BY <2>1 DEF SessionInv, RootsExist
    <2>. QED BY <2>1, <2>2
  <1>3. \A k : Forked(k)' <=> Forked(k)
    BY DEF Forked
  <1>4. OneLivePerSession'
    <2>1. OneLivePerSession
      BY DEF SessionInv
    <2>. QED BY <1>3, <2>1 DEF OneLivePerSession, Live
  <1>5. LateKnown'
    <2>1. \A r \in late : input[r].token \in Tokens /\ tok[input[r].token].state = "revoked"
      BY <1>1, LateToken
    <2>. QED BY <1>1, <2>1 DEF LateKnown
  <1>6. OneContinuation'
    <2>. SUFFICES ASSUME NEW r \in Req, Continues(r)
                  PROVE  /\ tok'[input[r].token].state = "revoked"
                         /\ \/ Forked(root[input[r].token])
                            \/ /\ \A t \in Tokens : tok'[t].state = "live" =>
                                     root[t] # root[input[r].token]
                               /\ \A s \in Req :
                                     Continues(s) /\ root[input[s].token] = root[input[r].token]
                                         => s = r
      BY <1>3 DEF OneContinuation, Live
    <2>. QED BY ContinuationFacts
  <1>. QED BY <1>2, <1>4, <1>5, <1>6 DEF SessionInv

\* A new token starts a session of its own.
LEMMA SessionIssue ==
    ASSUME SessionInv, TypeOK', MintedOnce', NEW r \in Req, Issue(r)
    PROVE  SessionInv'
  <1>0. TypeOK /\ MintedOnce /\ LateKnown /\ Req \subseteq Tokens /\ root \in [Tokens -> Tokens]
    BY DEF SessionInv, TypeOK, Tokens
  <1>1. /\ status[r] = "running" /\ pc[r] > 0 /\ Moves(r) /\ At(r, "issue")
        /\ UNCHANGED <<input, audit, scope, revoker, root, late>>
        /\ tok[r].state = "none"
        /\ \/ tok' = tok /\ pc'[r] = pc[r]
           \/ /\ pc'[r] # pc[r] /\ tok'[r].state = "live"
              /\ \A u \in Tokens \ {r} : tok'[u] = tok[u]
    BY <1>0, IssueEffect
  <1>2. \A s \in Req : Continues(s)' <=> Continues(s)
    <2>1. ~At(r, "refresh") /\ ~At(r, "reissue")
      BY <1>1 DEF At
    <2>. QED BY <1>0, <1>1, <2>1, PastStep DEF Continues
  <1>3. CASE tok' = tok
    BY <1>1, <1>2, <1>3, SessionFrame
  <1>4. CASE /\ tok'[r].state = "live"
             /\ \A u \in Tokens \ {r} : tok'[u] = tok[u]
    <2>1. root[r] = r
      BY <1>0, <1>1 DEF TypeOK
    <2>2. \A t \in Tokens : tok[t].state # "none" => root[t] # r
      BY <1>1 DEF SessionInv, RootsExist
    <2>3. RootsExist'
      BY <1>0, <1>1, <1>4, <2>1 DEF SessionInv, RootsExist
    <2>4. \A k : Forked(k)' <=> Forked(k)
      BY <1>1 DEF Forked
    <2>5. LateKnown'
      <3>1. \A q \in late : input[q].token \in Tokens /\ tok[input[q].token].state = "revoked"
        BY <1>0, LateToken
      <3>. QED BY <1>0, <1>1, <1>4, <3>1 DEF LateKnown
    <2>6. OneLivePerSession'
      <3>. SUFFICES ASSUME NEW s \in Tokens, NEW t \in Tokens,
                           tok'[s].state = "live", tok'[t].state = "live", root[s] = root[t]
                    PROVE  s = t \/ Forked(root[s])
        BY <1>1, <2>4 DEF OneLivePerSession, Live
      <3>1. CASE s # r /\ t # r
        <4>1. OneLivePerSession
          BY DEF SessionInv
        <4>. QED BY <1>4, <3>1, <4>1 DEF OneLivePerSession, Live
      <3>2. CASE s = r /\ t # r
        BY <1>4, <2>1, <2>2, <3>2
      <3>3. CASE s # r /\ t = r
        BY <1>4, <2>1, <2>2, <3>3
      <3>. QED BY <3>1, <3>2, <3>3
    <2>7. OneContinuation'
      <3>. SUFFICES ASSUME NEW q \in Req, Continues(q)
                    PROVE  /\ tok'[input[q].token].state = "revoked"
                           /\ \/ Forked(root[input[q].token])
                              \/ /\ \A t \in Tokens : tok'[t].state = "live" =>
                                       root[t] # root[input[q].token]
                                 /\ \A s \in Req :
                                       Continues(s) /\ root[input[s].token] = root[input[q].token]
                                           => s = q
        BY <1>1, <1>2, <2>4 DEF OneContinuation, Live
      <3>1. /\ input[q].token \in Tokens
            /\ tok[input[q].token].state = "revoked"
            /\ ~Forked(root[input[q].token]) =>
                 /\ \A t \in Tokens : tok[t].state = "live" => root[t] # root[input[q].token]
                 /\ \A s \in Req :
                       Continues(s) /\ root[input[s].token] = root[input[q].token] => s = q
        BY ContinuationFacts
      <3>2. root[input[q].token] # r
        BY <2>2, <3>1
      <3>. QED BY <1>1, <1>4, <2>1, <3>1, <3>2
    <2>. QED BY <2>3, <2>5, <2>6, <2>7 DEF SessionInv
  <1>. QED BY <1>1, <1>3, <1>4

\* Consuming the token of a session makes the request its one continuation; a late
\* refresh forks the session and no other.
LEMMA SessionRefresh ==
    ASSUME SessionInv, TypeOK', MintedOnce', NEW r \in Req, Refresh(r)
    PROVE  SessionInv'
  <1>0. TypeOK /\ LateKnown /\ root \in [Tokens -> Tokens]
    BY DEF SessionInv, TypeOK
  <1>1. /\ status[r] = "running" /\ pc[r] > 0 /\ Moves(r) /\ At(r, "refresh")
        /\ UNCHANGED <<input, audit, scope, root>>
        /\ input[r].token \in Tokens /\ input[r].rpc = "RefreshToken"
        /\ \/ tok' = tok /\ pc'[r] = pc[r] /\ late' = late
           \/ /\ tok' = tok /\ pc'[r] # pc[r] /\ late' = late \cup {r}
              /\ tok[input[r].token].state = "revoked"
           \/ /\ pc'[r] # pc[r] /\ Live(input[r].token) /\ late' = late
              /\ tok'[input[r].token].state = "revoked"
              /\ \A u \in Tokens \ {input[r].token} : tok'[u] = tok[u]
    BY <1>0, RefreshEffect
  <1>2. \A s \in Req : Continues(s)' => Continues(s) \/ s = r
    BY <1>0, <1>1, PastStep DEF Continues
  <1>3. CASE tok' = tok /\ pc'[r] = pc[r] /\ late' = late
    <2>1. \A s \in Req : Continues(s)' <=> Continues(s)
      BY <1>0, <1>1, <1>3, PastStep DEF Continues
    <2>. QED BY <1>1, <1>3, <2>1, SessionFrame
  <1>4. CASE /\ tok' = tok /\ late' = late \cup {r}
             /\ tok[input[r].token].state = "revoked"
    <2>1. \A k : Forked(k)' <=> Forked(k) \/ k = root[input[r].token]
      BY <1>1, <1>4 DEF Forked
    <2>2. RootsExist' /\ LateKnown'
      BY <1>1, <1>4 DEF SessionInv, RootsExist, LateKnown
    <2>3. OneLivePerSession'
      <3>1. OneLivePerSession
        BY DEF SessionInv
      <3>. QED BY <1>1, <1>4, <2>1, <3>1 DEF OneLivePerSession, Live
    <2>4. OneContinuation'
      <3>. SUFFICES ASSUME NEW q \in Req, Continues(q) \/ q = r
                    PROVE  /\ tok[input[q].token].state = "revoked"
                           /\ \/ Forked(root[input[q].token])
                              \/ root[input[q].token] = root[input[r].token]
                              \/ /\ \A t \in Tokens : tok[t].state = "live" =>
                                       root[t] # root[input[q].token]
                                 /\ \A s \in Req :
                                       /\ Continues(s) \/ s = r
                                       /\ root[input[s].token] = root[input[q].token]
                                       => s = q
        BY <1>1, <1>2, <1>4, <2>1 DEF OneContinuation, Live
      <3>1. CASE q = r
        BY <1>4, <3>1
      <3>2. CASE Continues(q)
        BY <3>2, ContinuationFacts
      <3>. QED BY <3>1, <3>2
    <2>. QED BY <2>2, <2>3, <2>4 DEF SessionInv
  <1>5. CASE /\ pc'[r] # pc[r] /\ Live(input[r].token) /\ late' = late
             /\ tok'[input[r].token].state = "revoked"
             /\ \A u \in Tokens \ {input[r].token} : tok'[u] = tok[u]
    <2>1. \A k : Forked(k)' <=> Forked(k)
      BY <1>1, <1>5 DEF Forked
    <2>2. \A s \in Req : Continues(s) =>
              Forked(root[input[s].token]) \/ root[input[s].token] # root[input[r].token]
      BY <1>1, <1>5, ContinuationFacts DEF Live
    <2>3. \A t \in Tokens : /\ tok'[t].state = "live" => tok[t].state = "live" /\ t # input[r].token
                            /\ tok'[t].state = "none" <=> tok[t].state = "none"
                            /\ tok[t].state = "revoked" => tok'[t].state = "revoked"
      BY <1>5 DEF Live
    <2>4. \A t \in Tokens : tok'[t].state = "live" =>
              Forked(root[input[r].token]) \/ root[t] # root[input[r].token]
      <3>1. OneLivePerSession
        BY DEF SessionInv
      <3>. QED BY <1>1, <1>5, <2>3, <3>1 DEF OneLivePerSession, Live
    <2>5. RootsExist'
      <3>. SUFFICES ASSUME NEW t \in Tokens, tok'[t].state # "none"
                    PROVE  tok'[root[t]].state # "none"
        BY <1>1 DEF RootsExist
      <3>1. root[t] \in Tokens /\ tok[root[t]].state # "none"
        BY <1>0, <2>3 DEF SessionInv, RootsExist
      <3>. QED BY <2>3, <3>1
    <2>6. OneLivePerSession'
      <3>1. OneLivePerSession
        BY DEF SessionInv
      <3>. QED BY <1>1, <2>1, <2>3, <3>1 DEF OneLivePerSession, Live
    <2>7. LateKnown'
      <3>1. \A q \in late : input[q].token \in Tokens /\ tok[input[q].token].state = "revoked"
        BY <1>0, LateToken
      <3>. QED BY <1>0, <1>1, <1>5, <2>3, <3>1 DEF LateKnown
    <2>8. OneContinuation'
      <3>. SUFFICES ASSUME NEW q \in Req, Continues(q) \/ q = r
                    PROVE  /\ tok'[input[q].token].state = "revoked"
                           /\ \/ Forked(root[input[q].token])
                              \/ /\ \A t \in Tokens : tok'[t].state = "live" =>
                                       root[t] # root[input[q].token]
                                 /\ \A s \in Req :
                                       /\ Continues(s) \/ s = r
                                       /\ root[input[s].token] = root[input[q].token]
                                       => s = q
        BY <1>1, <1>2, <2>1 DEF OneContinuation, Live
      <3>1. CASE q = r
        BY <1>5, <2>2, <2>4, <3>1
      <3>2. CASE Continues(q)
        <4>1. /\ input[q].token \in Tokens
              /\ tok[input[q].token].state = "revoked"
              /\ ~Forked(root[input[q].token]) =>
                   /\ \A t \in Tokens : tok[t].state = "live" => root[t] # root[input[q].token]
                   /\ \A s \in Req :
                         Continues(s) /\ root[input[s].token] = root[input[q].token] => s = q
          BY <3>2, ContinuationFacts
        <4>. QED BY <2>2, <2>3, <3>2, <4>1
      <3>. QED BY <3>1, <3>2
    <2>. QED BY <2>5, <2>6, <2>7, <2>8 DEF SessionInv
  <1>. QED BY <1>1, <1>3, <1>4, <1>5

\* Minting the successor hands the session on to the new token.
LEMMA SessionReissue ==
    ASSUME SessionInv, TypeOK', MintedOnce', NEW r \in Req, Reissue(r)
    PROVE  SessionInv'
  <1>0. TypeOK /\ MintedOnce /\ LateKnown /\ Req \subseteq Tokens /\ root \in [Tokens -> Tokens]
    BY DEF SessionInv, TypeOK, Tokens
  <1>1. /\ status[r] = "running" /\ pc[r] > 0 /\ Moves(r) /\ At(r, "reissue")
        /\ UNCHANGED <<input, audit, scope, revoker, late>>
        /\ input[r].token \in Tokens
        /\ tok[r].state = "none" /\ Continues(r)
        /\ \/ tok' = tok /\ root' = root /\ pc'[r] = pc[r]
           \/ /\ pc'[r] # pc[r] /\ tok'[r].state = "live" /\ root'[r] = root[input[r].token]
              /\ \A u \in Tokens \ {r} : tok'[u] = tok[u] /\ root'[u] = root[u]
    BY <1>0, ReissueEffect DEF Continues
  <1>2. CASE tok' = tok /\ root' = root /\ pc'[r] = pc[r]
    <2>1. \A s \in Req : Continues(s)' <=> Continues(s)
      BY <1>0, <1>1, <1>2, PastStep DEF Continues
    <2>. QED BY <1>1, <1>2, <2>1, SessionFrame
  <1>3. CASE /\ pc'[r] # pc[r] /\ tok'[r].state = "live" /\ root'[r] = root[input[r].token]
             /\ \A u \in Tokens \ {r} : tok'[u] = tok[u] /\ root'[u] = root[u]
    <2>1. \A s \in Req : Continues(s)' => Continues(s) /\ s # r
      <3>1. ~At(r, "refresh")
        BY <1>1 DEF At
      <3>. QED BY <1>0, <1>1, <1>3, <3>1, PastStep DEF Continues
    <2>2. /\ tok[input[r].token].state = "revoked"
          /\ ~Forked(root[input[r].token]) =>
               /\ \A t \in Tokens : tok[t].state = "live" => root[t] # root[input[r].token]
               /\ \A s \in Req : Continues(s) /\ root[input[s].token] = root[input[r].token] => s = r
      BY <1>1, ContinuationFacts
    <2>3. \A t \in Tokens : tok[t].state # "none" =>
              t # r /\ root[t] \in Tokens /\ root[t] # r /\ tok[root[t]].state # "none"
      BY <1>0, <1>1 DEF SessionInv, RootsExist
    <2>4. \A q \in late : /\ input[q].token \in Tokens \ {r}
                          /\ tok[input[q].token].state = "revoked"
                          /\ root'[input[q].token] = root[input[q].token]
      <3>. TAKE q \in late
      <3>1. input[q].token \in Tokens /\ tok[input[q].token].state = "revoked"
        BY <1>0, LateToken
      <3>. QED BY <1>1, <1>3, <3>1
    <2>5. \A k : Forked(k)' <=> Forked(k)
      BY <1>1, <2>4 DEF Forked
    <2>6. LateKnown'
      BY <1>0, <1>1, <1>3, <2>4 DEF LateKnown
    <2>7. RootsExist'
      <3>. SUFFICES ASSUME NEW t \in Tokens, tok'[t].state # "none"
                    PROVE  tok'[root'[t]].state # "none"
        BY DEF RootsExist
      <3>1. CASE t = r
        BY <1>1, <1>3, <2>2, <2>3, <3>1
      <3>2. CASE t # r
        BY <1>3, <2>3, <3>2
      <3>. QED BY <3>1, <3>2
    <2>8. OneLivePerSession'
      <3>. SUFFICES ASSUME NEW s \in Tokens, NEW t \in Tokens,
                           tok'[s].state = "live", tok'[t].state = "live", root'[s] = root'[t]
                    PROVE  s = t \/ Forked(root'[s])
        BY <2>5 DEF OneLivePerSession, Live
      <3>1. CASE s # r /\ t # r
        <4>1. OneLivePerSession
          BY DEF SessionInv
        <4>. QED BY <1>3, <3>1, <4>1 DEF OneLivePerSession, Live
      <3>2. CASE s = r /\ t # r
        BY <1>3, <2>2, <3>2
      <3>3. CASE s # r /\ t = r
        BY <1>3, <2>2, <3>3
      <3>. QED BY <3>1, <3>2, <3>3
    <2>9. OneContinuation'
      <3>. SUFFICES ASSUME NEW q \in Req, Continues(q), q # r
                    PROVE  /\ tok'[input[q].token].state = "revoked"
                           /\ \/ Forked(root'[input[q].token])
                              \/ /\ \A t \in Tokens : tok'[t].state = "live" =>
                                       root'[t] # root'[input[q].token]
                                 /\ \A s \in Req :
                                       /\ Continues(s) /\ s # r
                                       /\ root'[input[s].token] = root'[input[q].token]
                                       => s = q
        BY <1>1, <2>1, <2>5 DEF OneContinuation, Live
      <3>1. ASSUME NEW s \in Req, Continues(s)
            PROVE  /\ input[s].token \in Tokens \ {r} /\ tok[input[s].token].state = "revoked"
                   /\ root'[input[s].token] = root[input[s].token]
        <4>1. input[s].token \in Tokens /\ tok[input[s].token].state = "revoked"
          BY <3>1, ContinuationFacts
        <4>. QED BY <1>1, <1>3, <4>1
      <3>2. ~Forked(root[input[q].token]) =>
              /\ \A t \in Tokens : tok[t].state = "live" => root[t] # root[input[q].token]
              /\ \A s \in Req :
                    Continues(s) /\ root[input[s].token] = root[input[q].token] => s = q
        BY ContinuationFacts
      <3>3. ~Forked(root[input[q].token]) =>
              \A t \in Tokens : tok'[t].state = "live" => root'[t] # root[input[q].token]
        BY <1>1, <1>3, <2>2, <3>2
      <3>. QED BY <1>3, <3>1, <3>2, <3>3
    <2>. QED BY <2>6, <2>7, <2>8, <2>9 DEF SessionInv
  <1>. QED BY <1>1, <1>2, <1>3

LEMMA SessionStep == SessionInv /\ RevocationInv /\ [Next]_vars => SessionInv'
  <1>. SUFFICES ASSUME SessionInv, RevocationInv, [Next]_vars PROVE SessionInv'
    OBVIOUS
  <1>0. TypeOK /\ TypeOK' /\ MintedOnce'
    BY RevocationStep DEF RevocationInv
  <1>1. ASSUME NEW r \in Req, Arrive(r)
        PROVE  SessionInv'
    <2>1. /\ \A s \in Req : \A c : Past(s, c)' <=> Past(s, c)
          /\ UNCHANGED <<input, tok, root, late>>
      BY <1>0, <1>1, ArriveEffect
    <2>2. \A s \in Req : Continues(s)' <=> Continues(s)
      BY <2>1 DEF Continues
    <2>. QED BY <1>0, <2>1, <2>2, SessionFrame
  <1>2. ASSUME NEW r \in Req, Quiet(r)
        PROVE  SessionInv'
    <2>1. UNCHANGED <<input, tok, root, late>>
      BY <1>0, <1>2, QuietFacts
    <2>2. \A s \in Req : Continues(s)' <=> Continues(s)
      BY <1>0, <1>2, QuietPast DEF Continues
    <2>. QED BY <1>0, <2>1, <2>2, SessionFrame
  <1>3. ASSUME NEW r \in Req, Revoke(r) \/ RevokeAll(r)
        PROVE  SessionInv'
    <2>1. /\ status[r] = "running" /\ pc[r] > 0 /\ Moves(r)
          /\ At(r, "revoke") \/ At(r, "revokeAll")
          /\ UNCHANGED <<input, root, late>>
      BY <1>0, <1>3, RevokeEffect
    <2>2. ~At(r, "refresh") /\ ~At(r, "reissue")
      BY <2>1 DEF At
    <2>3. \A s \in Req : Continues(s)' <=> Continues(s)
      BY <1>0, <2>1, <2>2, PastStep DEF Continues
    <2>4. \A t \in Tokens : /\ tok'[t].state = "live" => tok[t].state = "live"
                            /\ tok'[t].state = "none" <=> tok[t].state = "none"
                            /\ tok[t].state = "revoked" => tok'[t].state = "revoked"
      BY <1>0, <1>3, RevokeEffect DEF Live
    <2>. QED BY <1>0, <2>1, <2>3, <2>4, SessionFrame
  <1>4. ASSUME NEW r \in Req, Record(r)
        PROVE  SessionInv'
    <2>1. /\ status[r] = "running" /\ pc[r] > 0 /\ Moves(r) /\ At(r, "record")
          /\ UNCHANGED <<input, tok, root, late>>
      BY <1>0, <1>4, RecordEffect
    <2>2. ~At(r, "refresh") /\ ~At(r, "reissue")
      BY <2>1 DEF At
    <2>3. \A s \in Req : Continues(s)' <=> Continues(s)
      BY <1>0, <2>1, <2>2, PastStep DEF Continues
    <2>. QED BY <1>0, <2>1, <2>3, SessionFrame
  <1>5. CASE UNCHANGED vars
    <2>1. \A s \in Req : Continues(s)' <=> Continues(s)
      BY <1>5 DEF vars, Continues, Past
    <2>. QED BY <1>0, <1>5, <2>1, SessionFrame DEF vars
  <1>. QED BY <1>0, <1>1, <1>2, <1>3, <1>4, <1>5, StepCases,
              SessionIssue, SessionRefresh, SessionReissue

LEMMA SessionHolds == Spec => []SessionInv
  BY SessionInit, SessionStep, RevocationHolds, PTL DEF Spec

\* Whatever the library does with racing refreshes and whatever fails between
\* consuming a token and minting the next, a session forks only at a refresh of its
\* own that went through after its token had been revoked.
THEOREM ForksOnlyByLateRefresh == Spec => []OneLivePerSession
  <1>1. SessionInv => OneLivePerSession
    BY DEF SessionInv
  <1>. QED BY <1>1, SessionHolds, PTL

\* Without that race no refresh is late ...
LEMMA NoneLate ==
    ASSUME AtomicRefresh
    PROVE  Spec => [](late = {})
  <1>1. Init => late = {}
    BY DEF Init
  <1>2. TypeOK /\ late = {} /\ [Next]_vars => (late = {})'
    <2>. SUFFICES ASSUME TypeOK, late = {}, [Next]_vars PROVE late' = {}
      OBVIOUS
    <2>1. ASSUME NEW r \in Req, Refresh(r)
          PROVE  late' = late
      BY <2>1 DEF Refresh, AtomicRefresh
    <2>2. ASSUME NEW r \in Req, \/ Arrive(r) \/ Quiet(r) \/ Issue(r) \/ Reissue(r)
                                \/ Revoke(r) \/ RevokeAll(r) \/ Record(r)
          PROVE  late' = late
      BY <2>2, QuietFacts DEF Arrive, Issue, Reissue, Revoke, RevokeAll, Record, history
    <2>3. CASE UNCHANGED vars
      BY <2>3 DEF vars
    <2>4. CASE Next
      <3>1. CASE \E r \in Req : Refresh(r)
        BY <2>1, <3>1
      <3>2. CASE \E r \in Req : \/ Arrive(r) \/ Quiet(r) \/ Issue(r) \/ Reissue(r)
                               \/ Revoke(r) \/ RevokeAll(r) \/ Record(r)
        BY <2>2, <3>2
      <3>. QED BY <2>3, <2>4, <3>1, <3>2, StepCases
    <2>. QED BY <2>3, <2>4
  <1>. QED BY <1>1, <1>2, HandlerTypeCorrect, PTL DEF Spec

\* ... and a session never forks, for any number of racing refreshes and
\* revocations: one valid token, or one request about to mint it, or none.
THEOREM SessionNeverForks ==
    ASSUME AtomicRefresh
    PROVE  Spec => []NeverForks
  <1>1. SessionInv /\ late = {} => NeverForks
    BY DEF SessionInv, OneLivePerSession, Forked, NeverForks
  <1>. QED BY <1>1, NoneLate, SessionHolds, PTL
=============================================================================
