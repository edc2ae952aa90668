-------------------------- MODULE InterceptorChain --------------------------
(***************************************************************************)
(* The decisions a unary RPC passes through before it reaches the token    *)
(* handler, in the order cmd/token-engine/main.go chains the interceptors: *)
(* authentication, caller authorization, request validation, and the       *)
(* admission part of the idempotency interceptor (which key, if any, does  *)
(* the request claim?).  Every decision is a pure function of the request  *)
(* and of configuration that is read-only once the server runs, so the     *)
(* whole prefix is one operator, Route.                                    *)
(*                                                                         *)
(* Strings the code concatenates with ":" (tenant ids and idempotency      *)
(* keys) are sequences of segments; the empty sequence is Go's "".         *)
(* A request is a record:                                                  *)
(*   method   the RPC                                                      *)
(*   apiKey   the x-api-key metadata value, or Missing                     *)
(*   cn       the verified peer certificate's Common Name: Missing when    *)
(*            the context has no peer, no TLS info or no certificate,      *)
(*            "" when the leaf has an empty Common Name                    *)
(*   tenant   tenant_id (<<>> for the health RPC, which has no such field) *)
(*   id, aud  the identifiers the RPC needs: sub, refresh_token or user_id *)
(*            in id; audience in aud; "" when empty                        *)
(*   claims   the claims map, as a set of <<key, value>> pairs             *)
(*   auds     the audiences list of IssueToken                             *)
(*   header   the x-idempotency-key metadata value                         *)
(*   field    the deprecated idempotency_key request field                 *)
(***************************************************************************)
EXTENDS Naturals, Sequences, SequencesExt

CONSTANTS
    AuthMode,        \* "mtls" or "static": the Authenticator main.go chose
    KeyIdentity,     \* StaticKeyAuthenticator.keys: API key -> identity
    Permitted,       \* StaticCallerRegistry.allowed: identity -> tenants
    Missing          \* a metadata value or certificate that is not there

ASSUME ChainConfigAssumption ==
    /\ AuthMode \in {"mtls", "static"}
    /\ Missing \notin DOMAIN KeyIdentity

IdempotentMethods == {"IssueToken", "RefreshToken"}

Methods == IdempotentMethods \cup
    {"RevokeToken", "RevokeAllUserTokens", "RevokeAllForAudience",
     "RevokeAllForUserAndAudience", "Health"}

\* Everything but the gRPC health protocol carries a tenant_id.
TenantAware(q) == q.method # "Health"

ReservedClaimKeys == {"sub", "iss", "aud", "exp", "iat", "nbf", "jti"}

-----------------------------------------------------------------------------
(***************************************************************************)
(* Authentication.  The identity a caller is given; Missing stands for the *)
(* Unauthenticated error.                                                  *)
(***************************************************************************)

\* MTLSAuthenticator.Authenticate
MTLSAuthenticate(q) == IF q.cn \in {Missing, ""} THEN Missing ELSE q.cn

\* StaticKeyAuthenticator.Authenticate
StaticKeyAuthenticate(q) ==
    IF q.apiKey \in DOMAIN KeyIdentity THEN KeyIdentity[q.apiKey] ELSE Missing

Identity(q) ==
    IF AuthMode = "mtls" THEN MTLSAuthenticate(q) ELSE StaticKeyAuthenticate(q)

AuthVerdict(q) == IF Identity(q) = Missing THEN "Unauthenticated" ELSE "pass"

(***************************************************************************)
(* Caller authorization.                                                   *)
(***************************************************************************)

\* StaticCallerRegistry.IsPermitted: an empty tenant is let through, for the
\* validation interceptor to reject.
IsPermitted(identity, tenant) ==
    \/ tenant = <<>>
    \/ identity \in DOMAIN Permitted /\ tenant \in Permitted[identity]

CallerVerdict(q) ==
    IF q.method = "Health" THEN "pass"
    ELSE IF Identity(q) = "" THEN "Internal"
    ELSE IF IsPermitted(Identity(q), q.tenant) THEN "pass"
    ELSE "PermissionDenied"

(***************************************************************************)
(* Validation.                                                             *)
(***************************************************************************)

HasReservedClaim(q) == \E c \in q.claims : c[1] \in ReservedClaimKeys

\* The primary identifier(s) each request type must carry.
MissingIdentifier(q) ==
    \/ /\ q.method \in {"IssueToken", "RefreshToken", "RevokeToken",
                        "RevokeAllUserTokens", "RevokeAllForUserAndAudience"}
       /\ q.id = ""
    \/ /\ q.method \in {"RevokeAllForAudience", "RevokeAllForUserAndAudience"}
       /\ q.aud = ""

ValidationVerdict(q) ==
    IF \/ TenantAware(q) /\ q.tenant = <<>>
       \/ MissingIdentifier(q)
       \/ q.method \in IdempotentMethods /\ HasReservedClaim(q)
    THEN "InvalidArgument" ELSE "pass"

(***************************************************************************)
(* Idempotency admission.                                                  *)
(***************************************************************************)

\* resolveIdempotencyKey, for the pairs it accepts
KeysConflict(q)   == q.header # <<>> /\ q.field # <<>> /\ q.header # q.field
ResolvedKey(q)    == IF q.header = <<>> THEN q.field ELSE q.header

\* idempotency:{tenant}:{method}:{clientKey}
RedisKey(q) == <<"idempotency">> \o q.tenant \o <<q.method>> \o ResolvedKey(q)

\* computeIssueFingerprint and computeRefreshFingerprint.  The SHA-256 digest
\* is taken to be injective; audiences are sorted first, so the digest sees
\* the list as a bag.  RefreshToken has no audiences field.
Fingerprint(q) ==
    IF q.method = "IssueToken"
    THEN <<q.id, q.tenant, q.claims, ToBag(q.auds)>>
    ELSE <<q.id, q.tenant, q.claims>>

\* "claim": claim RedisKey(q) before the handler; "plain": call the handler
\* without the store; otherwise the status code of the rejection.
IdempotencyVerdict(q) ==
    IF q.method \notin IdempotentMethods THEN "plain"
    ELSE IF q.tenant = <<>> THEN "Internal"
    ELSE IF KeysConflict(q) THEN "InvalidArgument"
    ELSE IF ResolvedKey(q) = <<>> THEN "plain"
    ELSE "claim"

-----------------------------------------------------------------------------
(***************************************************************************)
(* The chain: the first interceptor that rejects decides.                  *)
(***************************************************************************)
\* Mutant: idempotency ahead of validation, the order before ADR-016.
RouteIdempotencyFirst(q) ==
    IF AuthVerdict(q) # "pass" THEN AuthVerdict(q)
    ELSE IF CallerVerdict(q) # "pass" THEN CallerVerdict(q)
    ELSE IdempotencyVerdict(q)

Route(q) ==
    IF AuthVerdict(q) # "pass" THEN AuthVerdict(q)
    ELSE IF CallerVerdict(q) # "pass" THEN CallerVerdict(q)
    ELSE IF ValidationVerdict(q) # "pass" THEN ValidationVerdict(q)
    ELSE IdempotencyVerdict(q)

RejectCodes ==
    {"Unauthenticated", "PermissionDenied", "InvalidArgument", "Internal"}
=============================================================================
