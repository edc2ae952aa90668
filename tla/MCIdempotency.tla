--------------------------- MODULE MCIdempotency ---------------------------
(***************************************************************************)
(* Idempotency on a few requests.  The inputs share one tenant and client  *)
(* key wherever they can, so that requests collide; the others are one     *)
(* request per way out of the interceptor chain.                           *)
(***************************************************************************)
EXTENDS Idempotency, TLC

MCKeyIdentity == [k \in {"key-app", "key-anon"} |-> IF k = "key-app" THEN "app" ELSE ""]
MCPermitted   == [i \in {"app"} |-> {<<"acme">>}]

Base == [method |-> "IssueToken", apiKey |-> "key-app", cn |-> "app",
         tenant |-> <<"acme">>, id |-> "alice", aud |-> "",
         claims |-> {<<"role", "reader">>}, auds |-> <<"web", "api">>,
         header |-> <<"k1">>, field |-> <<>>]

\* The same operation again: key in the deprecated field, audiences reordered.
Retry  == [Base EXCEPT !.header = <<>>, !.field = <<"k1">>, !.auds = <<"api", "web">>]
\* The key reused for something else.
Reused == [Base EXCEPT !.field = <<"k1">>, !.id = "bob"]
\* The same client key on the other idempotent RPC.
Refresh == [Base EXCEPT !.method = "RefreshToken", !.id = "rt1", !.auds = <<>>]

\* Requests that never claim.
Bystanders == {
    [Base EXCEPT !.header = <<>>],
    [Base EXCEPT !.method = "Health", !.tenant = <<>>],
    [Base EXCEPT !.field = <<"k2">>],
    [Base EXCEPT !.tenant = <<>>],
    [Base EXCEPT !.tenant = <<"umbrella">>],
    [Base EXCEPT !.claims = {<<"iss", "me">>}],
    [Base EXCEPT !.apiKey = "key-unknown", !.cn = ""],
    [Base EXCEPT !.apiKey = "key-anon", !.cn = Missing]}

SameKey   == {Base, Retry, Reused}
SomeMixed == SameKey \cup {Refresh} \cup Bystanders

LegacyRecord     == [state |-> "completed", resp |-> LegacyResp, fp |-> NoFp, ttl |-> 2]
UnreadableRecord == [state |-> "unreadable", resp |-> NoReq, fp |-> NoFp, ttl |-> 2]
OldRecords == {LegacyRecord, UnreadableRecord}

Symmetry == Permutations(Req)
=============================================================================
