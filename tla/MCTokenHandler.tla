--------------------------- MODULE MCTokenHandler ---------------------------
(* TokenHandler on a few requests against two earlier tokens. *)
EXTENDS TokenHandler, TLC

MCOldTokens == [t \in {"t1", "t2"} |->
    IF t = "t1" THEN [user |-> "alice", auds |-> {"web"}]
    ELSE [user |-> "bob", auds |-> {"web", "api"}]]

Call(rpc, token, user, auds) == [rpc |-> rpc, token |-> token, user |-> user, auds |-> auds]

MCInputs == {
    Call("IssueToken", NoReq, "alice", {"web"}),
    Call("RefreshToken", "t1", "alice", {}),
    Call("RevokeToken", "t1", "alice", {}),
    Call("RevokeAllUserTokens", NoReq, "alice", {}),
    Call("RevokeAllForAudience", NoReq, "alice", {"web"}),
    Call("RevokeAllForUserAndAudience", NoReq, "bob", {"api"})}

\* A session that is issued or refreshed while others refresh and revoke it.
SessionInputs == MCInputs \cup {Call("RefreshToken", r, "alice", {}) : r \in Req}

Symmetry == Permutations(Req)
=============================================================================
