----------------------------- MODULE MCCallPath -----------------------------
(***************************************************************************)
(* CallPath for clients of every kind against a server of each TLS mode.   *)
(***************************************************************************)
EXTENDS CallPath

Symmetry == Permutations(Calls)

Disabled ==
    [issuer |-> "acme", audience |-> "web", tlsMode |-> "disabled",
     callerKeys |-> << <<"k", "", "app">>, <<"k2", "old">>, <<"k2", "ops">> >>,
     certFile |-> "", keyFile |-> "", caFile |-> "", callerRegistry |-> "callers.yaml",
     grpcAddr |-> "", httpAddr |-> "", otlp |-> "", redisAddr |-> "",
     redisPassword |-> "", redisDB |-> Unset, backfill |-> Unset,
     durations |-> [d \in DOMAIN DurationDefaults |-> Unset]]

MCEnvironments ==
    {Disabled,
     [Disabled EXCEPT !.tlsMode = "mtls", !.callerKeys = <<>>, !.certFile = "c.pem",
        !.keyFile = "k.pem", !.caFile = "ca.pem"]}

Opt(o, a)   == [opt |-> o, arg |-> a]
MTLS(files) == Opt("WithMTLS", [certFile |-> "me.pem", files |-> files])
Plaintext   == Opt("WithPlaintext", "")
Key(k)      == Opt("WithStaticKey", k)
Adds(n, v)  == Opt("WithUnaryInterceptor", [replaces |-> FALSE, pair |-> <<n, v>>])
Sets(n, v)  == Opt("WithUnaryInterceptor", [replaces |-> TRUE, pair |-> <<n, v>>])

MCOptionLists ==
    {<<>>, <<MTLS("no_cert")>>, <<MTLS("no_ca")>>, <<MTLS("bad_ca")>>,
     <<MTLS("ok"), Opt("WithConnectTimeout", 3), Key(<<"k", "">>)>>,
     <<MTLS("ok"), Plaintext, Adds("x-api-key", <<"k2">>)>>,
     <<Adds("x-api-key", <<"k2">>), Plaintext, Key(<<"k", "">>),
       Adds("x-correlation-id", "late")>>,
     <<Plaintext, Key(<<"k", "">>), Sets("x-correlation-id", "mine"), Adds("x-api-key", <<"k2">>)>>}

MCContexts ==
    {<<>>, << <<"x-correlation-id", "req-7">>, <<"x-correlation-id", "req-8">> >>,
     << <<"x-correlation-id", "">>, <<"x-api-key", <<"k">> >> >>}

Request(t, i) == [method |-> "RevokeToken", tenant |-> t, id |-> i, aud |-> "",
                  claims |-> {}, auds |-> <<>>, header |-> <<>>, field |-> <<>>,
                  apiKey |-> Missing, cn |-> Missing]

MCRequests == {Request(<<"acme">>, "r"), Request(<<"beta">>, "r"), Request(<<"acme">>, "")}

MCGrants == [i \in {"app", "ops", "cn"} |-> {<<"acme">>}]

MCFieldLists ==
    {<<Str("token"), Str("secret"), Str("user"), Val("u")>>,
     <<Str("user"), Str("token"), Str("jti"), Val("j")>>,
     <<Str("count"), Val("3"), Str("cursor")>>,
     <<Str("next_cursor"), Val("secret"), Str("key"), Str("secret")>>}
=============================================================================
