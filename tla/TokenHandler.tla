---------------------------- MODULE TokenHandler ----------------------------
(***************************************************************************)
(* The six RPCs of internal/handler/token.go, for one tenant.  Each RPC is *)
(* a fixed sequence of calls on the tenant registry, the jwtauth manager   *)
(* and the audit store; every call is an action, so calls of concurrent    *)
(* requests interleave.  The jwtauth library and the audit backend are not *)
(* part of the repository and are modelled from their use in the handlers. *)
(*                                                                         *)
(* A refresh token is named after the request that minted it.  Access      *)
(* tokens are not stored anywhere and do not appear.                       *)
(*                                                                         *)
(* Faults that may happen:                                                 *)
(*   audit_down  the audit store does not answer Ping                      *)
(*   record_err  the audit event is not written                            *)
(*   no_tenant   the tenant is not registered, or draining                 *)
(*   lib_err     a library call fails; a scoped revocation may have        *)
(*               revoked some of its tokens by then                        *)
(*   refresh_race  the library rotates a token it has read as valid        *)
(*               although it was revoked since                             *)
(*   crash       the replica dies                                          *)
(***************************************************************************)
EXTENDS Naturals, Sequences

CONSTANTS
    Req,        \* requests that clients may send
    Inputs,     \* what a request may carry: [rpc, token, user, auds]
    OldTokens,  \* refresh tokens issued earlier: token -> [user, auds]
    NoReq,      \* nobody
    Faults

RevokeRPCs == {"RevokeToken", "RevokeAllUserTokens", "RevokeAllForAudience",
               "RevokeAllForUserAndAudience"}

ASSUME HandlerAssumption ==
    /\ NoReq \notin Req \cup DOMAIN OldTokens
    /\ Req \cap DOMAIN OldTokens = {}
    /\ \A q \in Inputs : q.rpc \in RevokeRPCs \cup {"IssueToken", "RefreshToken"}
    /\ \A q \in Inputs : q.rpc \in {"RefreshToken", "RevokeToken"} =>
                             q.token \in Req \cup DOMAIN OldTokens

Tokens == Req \cup DOMAIN OldTokens

VARIABLES
    input,     \* what each request carries
    pc,        \* position in Calls(rpc); 0 before arrival
    status,    \* "running", "crashed" or the status code answered
    tok,       \* the refresh store: token -> [state, user, auds]
    audit,     \* requests whose revocation event has been recorded
    scope,     \* history: live tokens a revocation covered when it arrived
    revoker,   \* history: token -> the request that revoked it
    root,      \* history: token -> the token its session started with
    late       \* history: refreshes whose token was revoked after they read it

vars == <<input, pc, status, tok, audit, scope, revoker, root, late>>
history == <<scope, revoker, root, late>>

\* Mutant: issuance writes audit events too.
CallsAuditIssuance(rpc) ==
    CASE rpc = "IssueToken"   -> <<"get", "issue", "validate", "introspect", "record">>
      [] rpc = "RefreshToken" -> <<"get", "read", "refresh", "validate", "reissue", "introspect">>
      [] rpc = "RevokeToken"  -> <<"ping", "get", "resolve", "revoke", "record">>
      [] rpc \in RevokeRPCs \ {"RevokeToken"} -> <<"ping", "get", "revokeAll", "record">>

\* The calls of each handler, in order.
Calls(rpc) ==
    CASE rpc = "IssueToken"   -> <<"get", "issue", "validate", "introspect">>
      [] rpc = "RefreshToken" -> <<"get", "read", "refresh", "validate", "reissue", "introspect">>
      [] rpc = "RevokeToken"  -> <<"ping", "get", "resolve", "revoke", "record">>
      [] rpc \in RevokeRPCs \ {"RevokeToken"} -> <<"ping", "get", "revokeAll", "record">>

At(r, call) ==
    /\ status[r] = "running" /\ pc[r] > 0
    /\ Calls(input[r].rpc)[pc[r]] = call

\* A call succeeded: go on to the next one, or answer OK after the last.
Proceed(r) ==
    IF pc[r] = Len(Calls(input[r].rpc))
    THEN status' = [status EXCEPT ![r] = "OK"] /\ UNCHANGED pc
    ELSE pc' = [pc EXCEPT ![r] = pc[r] + 1] /\ UNCHANGED status

Fail(r, code) == status' = [status EXCEPT ![r] = code] /\ UNCHANGED pc

Live(t) == tok[t].state = "live"

\* Does the revocation request q cover a token with this user and audiences?
Covers(q, t) ==
    CASE q.rpc = "RevokeToken" -> t = q.token
      [] q.rpc = "RevokeAllUserTokens" -> tok[t].user = q.user
      [] q.rpc = "RevokeAllForAudience" -> q.auds \subseteq tok[t].auds
      [] q.rpc = "RevokeAllForUserAndAudience" ->
             tok[t].user = q.user /\ q.auds \subseteq tok[t].auds
      [] OTHER -> FALSE

Codes == {"OK", "Unavailable", "NotFound", "Internal", "LibraryError"}

Users     == {OldTokens[t].user : t \in DOMAIN OldTokens} \cup {q.user : q \in Inputs}
AudSets   == {OldTokens[t].auds : t \in DOMAIN OldTokens} \cup {q.auds : q \in Inputs}

\* The type invariant.
TypeOK ==
    /\ input \in [Req -> Inputs]
    /\ status \in [Req -> Codes \cup {"running", "crashed"}]
    /\ pc \in [Req -> Nat]
    /\ \A r \in Req : pc[r] <= Len(Calls(input[r].rpc))
    /\ tok \in [Tokens -> [state : {"none", "live", "revoked"},
                           user : Users, auds : AudSets]]
    /\ audit \subseteq {r \in Req : input[r].rpc \in RevokeRPCs}
    /\ scope \in [Req -> SUBSET Tokens]
    /\ revoker \in [Tokens -> Req \cup {NoReq}]
    /\ root \in [Tokens -> Tokens]
    /\ late \subseteq Req
    \* a token nobody minted yet is nobody's session but its own
    /\ \A t \in Tokens : tok[t].state = "none" => root[t] = t /\ revoker[t] = NoReq

-----------------------------------------------------------------------------
Init ==
    /\ input \in [Req -> Inputs]
    /\ pc = [r \in Req |-> 0]
    /\ status = [r \in Req |-> "running"]
    /\ tok = [t \in Tokens |->
                IF t \in Req
                THEN [state |-> "none", user |-> input[t].user, auds |-> input[t].auds]
                ELSE [state |-> "live", user |-> OldTokens[t].user, auds |-> OldTokens[t].auds]]
    /\ audit = {}
    /\ scope = [r \in Req |-> {}]
    /\ revoker = [t \in Tokens |-> NoReq]
    /\ root = [t \in Tokens |-> t]
    /\ late = {}

Arrive(r) ==
    /\ pc[r] = 0 /\ status[r] = "running"
    /\ pc' = [pc EXCEPT ![r] = 1]
    /\ scope' = [scope EXCEPT ![r] = {t \in Tokens : Live(t) /\ Covers(input[r], t)}]
    /\ UNCHANGED <<input, status, tok, audit, revoker, root, late>>

\* The audit gate of the revocation RPCs.
Ping(r) ==
    /\ At(r, "ping")
    /\ \/ Proceed(r)
       \/ "audit_down" \in Faults /\ Fail(r, "Unavailable")
    /\ UNCHANGED <<input, tok, audit, history>>

\* registry.Get
GetTenant(r) ==
    /\ At(r, "get")
    /\ \/ Proceed(r)
       \/ "no_tenant" \in Faults /\ Fail(r, "NotFound")
    /\ UNCHANGED <<input, tok, audit, history>>

\* IssueTokenPairWithClaims stores the new refresh token.
Issue(r) ==
    /\ At(r, "issue")
    /\ \/ /\ Proceed(r)
          /\ tok' = [tok EXCEPT ![r].state = "live"]
       \/ "lib_err" \in Faults /\ Fail(r, "LibraryError") /\ UNCHANGED tok
    /\ UNCHANGED <<input, audit, history>>

\* RefreshAccessTokenWithClaims, first half: only a valid token is accepted.
Read(r) ==
    LET t == input[r].token IN
    /\ At(r, "read")
    /\ \/ Live(t) /\ Proceed(r)
       \/ /\ ~Live(t) \/ "lib_err" \in Faults
          /\ Fail(r, "LibraryError")
    /\ UNCHANGED <<input, tok, audit, history>>

\* Mutant: the presented token stays valid.
RefreshWithoutRevoking(r) ==
    /\ At(r, "refresh")
    /\ \/ Live(input[r].token) /\ Proceed(r)
       \/ ~Live(input[r].token) /\ Fail(r, "LibraryError")
    /\ UNCHANGED <<input, tok, audit, history>>

\* Second half: the token is revoked and the access token signed.  If somebody
\* revoked it since it was read, the call fails, which is what token.go means by
\* "atomically"; operator-guide.md, section 9, has both calls rotate instead.
Refresh(r) ==
    LET t == input[r].token IN
    /\ At(r, "refresh")
    /\ \/ /\ Live(t) /\ Proceed(r)
          /\ tok' = [tok EXCEPT ![t].state = "revoked"]
          /\ revoker' = [revoker EXCEPT ![t] = r]
          /\ UNCHANGED late
       \/ /\ "refresh_race" \in Faults
          /\ tok[t].state = "revoked" /\ Proceed(r)
          /\ late' = late \cup {r}
          /\ UNCHANGED <<tok, revoker>>
       \/ /\ ~Live(t) \/ "lib_err" \in Faults
          /\ Fail(r, "LibraryError")
          /\ UNCHANGED <<tok, revoker, late>>
    /\ UNCHANGED <<input, audit, scope, root>>

\* ValidateAccessToken of the token just signed.
Validate(r) ==
    /\ At(r, "validate")
    /\ \/ Proceed(r)
       \/ "lib_err" \in Faults /\ Fail(r, "Internal")
    /\ UNCHANGED <<input, tok, audit, history>>

\* IssueRefreshTokenWithClaims for the subject and audience of the presented
\* token, which the new access token carries.
Reissue(r) ==
    LET t == input[r].token IN
    /\ At(r, "reissue")
    /\ \/ /\ Proceed(r)
          /\ tok' = [tok EXCEPT ![r] = [state |-> "live", user |-> tok[t].user, auds |-> tok[t].auds]]
          /\ root' = [root EXCEPT ![r] = root[t]]
       \/ "lib_err" \in Faults /\ Fail(r, "LibraryError") /\ UNCHANGED <<tok, root>>
    /\ UNCHANGED <<input, audit, scope, revoker, late>>

\* IntrospectToken, for the expiry of the token just stored.
Introspect(r) ==
    /\ At(r, "introspect")
    /\ \/ Proceed(r)
       \/ "lib_err" \in Faults /\ Fail(r, "LibraryError")
    /\ UNCHANGED <<input, tok, audit, history>>

\* IntrospectToken, for the id of the token to revoke: an unknown token is an
\* error; for a revoked one the handlers do not tell which way it goes.
Resolve(r) ==
    LET t == input[r].token IN
    /\ At(r, "resolve")
    /\ \/ tok[t].state # "none" /\ Proceed(r)
       \/ /\ ~Live(t) \/ "lib_err" \in Faults
          /\ Fail(r, "LibraryError")
    /\ UNCHANGED <<input, tok, audit, history>>

RevokeSet(r, S) ==
    /\ tok' = [t \in Tokens |-> IF t \in S THEN [tok[t] EXCEPT !.state = "revoked"] ELSE tok[t]]
    /\ revoker' = [t \in Tokens |-> IF t \in S THEN r ELSE revoker[t]]

\* RevokeRefreshToken; revoking a revoked token may succeed or fail.
Revoke(r) ==
    LET t == input[r].token IN
    /\ At(r, "revoke")
    /\ \/ Proceed(r) /\ RevokeSet(r, {t} \cap {u \in Tokens : Live(u)})
       \/ /\ ~Live(t) \/ "lib_err" \in Faults
          /\ Fail(r, "LibraryError")
          /\ UNCHANGED <<tok, revoker>>
    /\ UNCHANGED <<input, audit, scope, root, late>>

\* Mutant: a scoped revocation that failed half way is recorded all the same.
RevokeAllIgnoringError(r) ==
    /\ At(r, "revokeAll")
    /\ Proceed(r)
    /\ \E P \in SUBSET {t \in Tokens : Live(t) /\ Covers(input[r], t)} : RevokeSet(r, P)
    /\ UNCHANGED <<input, audit, scope, root, late>>

\* RevokeAllUserTokens, RevokeAllForAudience, RevokeAllForUserAndAudience.
RevokeAll(r) ==
    LET S == {t \in Tokens : Live(t) /\ Covers(input[r], t)} IN
    /\ At(r, "revokeAll")
    /\ \/ Proceed(r) /\ RevokeSet(r, S)
       \/ /\ "lib_err" \in Faults
          /\ Fail(r, "LibraryError")
          /\ \E P \in SUBSET S : RevokeSet(r, P)
    /\ UNCHANGED <<input, audit, scope, root, late>>

\* Mutant: an audit failure is only logged.
RecordBestEffort(r) ==
    /\ At(r, "record")
    /\ Proceed(r)
    /\ \/ audit' = audit \cup {r}
       \/ "record_err" \in Faults /\ UNCHANGED audit
    /\ UNCHANGED <<input, tok, history>>

\* RecordRevocation
Record(r) ==
    /\ At(r, "record")
    /\ \/ Proceed(r) /\ audit' = audit \cup {r}
       \/ "record_err" \in Faults /\ Fail(r, "Internal") /\ UNCHANGED audit
    /\ UNCHANGED <<input, tok, history>>

Crash(r) ==
    /\ "crash" \in Faults
    /\ status[r] = "running" /\ pc[r] > 0
    /\ Fail(r, "crashed")
    /\ UNCHANGED <<input, tok, audit, history>>

Done == \A r \in Req : status[r] # "running"

Next ==
    \/ \E r \in Req :
         \/ Arrive(r) \/ Ping(r) \/ GetTenant(r)
         \/ Issue(r) \/ Read(r) \/ Refresh(r) \/ Validate(r) \/ Reissue(r) \/ Introspect(r)
         \/ Resolve(r) \/ Revoke(r) \/ RevokeAll(r) \/ Record(r)
         \/ Crash(r)
    \/ Done /\ UNCHANGED vars

Spec == Init /\ [][Next]_vars

-----------------------------------------------------------------------------
\* An acknowledged revocation is complete: it has been audited, and no token it
\* covered when it arrived is valid any more, whatever was issued, refreshed
\* or revoked by others in between.
AckedRevocation ==
    \A r \in Req : status[r] = "OK" /\ input[r].rpc \in RevokeRPCs =>
        r \in audit /\ \A t \in scope[r] : tok[t].state = "revoked"

\* What the handlers have logged has happened: a revocation whose calls failed, on
\* all or part of its scope, leaves no event, whatever it was interleaved with.
\* (With the order that comment D2 asks for, an event would come first and could
\* only announce a revocation; see NoAuditGap for what the code's order costs.)
AuditSound == \A r \in audit : \A t \in scope[r] : tok[t].state = "revoked"

\* A late refresh of this session got through.
Forked(session) == \E r \in late : root[input[r].token] = session

\* Refresh rotation forks a session in one way only.  Of the tokens that descend
\* from one issued token by refreshing, at most one is valid, also when refreshes
\* of the same token race each other and revocations, unless the library let a
\* refresh of that very session through whose token was revoked after it had been
\* read: the race of operator-guide.md:82, which token.go:146 rules out.
OneLivePerSession ==
    \A s, t \in Tokens : Live(s) /\ Live(t) /\ root[s] = root[t] =>
        s = t \/ Forked(root[s])

\* Comment D2 in token.go: "Revocation handlers must call store.RecordRevocation
\* before revoking, and abort if RecordRevocation returns an error": whoever has
\* been answered by a revocation that revoked something finds it in the log.
NoAuditGap ==
    \A t \in Tokens : \A r \in Req :
        revoker[t] = r /\ input[r].rpc \in RevokeRPCs /\ status[r] \in Codes => r \in audit

-----------------------------------------------------------------------------
(***************************************************************************)
(* The inductive invariants behind these properties.                       *)
(***************************************************************************)

\* Request r has made this call, successfully, and gone on.
Past(r, call) == \E i \in 1 .. pc[r] : i < pc[r] /\ Calls(input[r].rpc)[i] = call

\* A token that exists was issued earlier or minted by its request; no request
\* mints twice.
MintedOnce ==
    \A r \in Req : tok[r].state # "none" => Past(r, "issue") \/ Past(r, "reissue")

\* What a revocation covered when it arrived, it still covers: a token never
\* changes its user or its audiences.
ScopeFixed ==
    \A r \in Req : \A t \in scope[r] : tok[t].state # "none" /\ Covers(input[r], t)

\* Behind the revoking call, everything in scope is revoked.
RevokedBehind ==
    \A r \in Req : Past(r, "revoke") \/ Past(r, "revokeAll") =>
        \A t \in scope[r] : tok[t].state = "revoked"

\* Recorded is what was revoked, and acknowledged what was recorded.
AuditOrder ==
    /\ \A r \in audit : Past(r, "revoke") \/ Past(r, "revokeAll")
    /\ \A r \in Req : status[r] = "OK" /\ input[r].rpc \in RevokeRPCs => r \in audit

RevocationInv == TypeOK /\ MintedOnce /\ ScopeFixed /\ RevokedBehind /\ AuditOrder

\* Request r has consumed its token and not minted the successor: it alone may
\* continue the session.
Continues(r) == Past(r, "refresh") /\ ~Past(r, "reissue")

\* A session that no late refresh forked has one continuation: a valid token, or
\* one request about to mint it.
OneContinuation ==
    \A r \in Req : Continues(r) =>
        /\ tok[input[r].token].state = "revoked"
        /\ \/ Forked(root[input[r].token])
           \/ /\ \A t \in Tokens : Live(t) => root[t] # root[input[r].token]
              /\ \A s \in Req : Continues(s) /\ root[input[s].token] = root[input[r].token] => s = r

\* Sessions start with tokens that exist.
RootsExist == \A t \in Tokens : tok[t].state # "none" => tok[root[t]].state # "none"

\* A late refresh presented a token that was revoked, for good.
LateKnown ==
    \A r \in late : input[r].rpc = "RefreshToken" /\ tok[input[r].token].state = "revoked"

SessionInv ==
    TypeOK /\ MintedOnce /\ RootsExist /\ LateKnown /\ OneContinuation /\ OneLivePerSession

(***************************************************************************)
(* What token.go:146, README.md:141 and MIGRATION.md:238 say of the        *)
(* library: a refresh token is accepted once.                              *)
(***************************************************************************)
AtomicRefresh == "refresh_race" \notin Faults

\* Then a session never forks.
NeverForks == \A s, t \in Tokens : Live(s) /\ Live(t) /\ root[s] = root[t] => s = t
=============================================================================
