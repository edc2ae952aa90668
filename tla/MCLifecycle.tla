---------------------------- MODULE MCLifecycle ----------------------------
(***************************************************************************)
(* Lifecycle on hosts that differ in one thing each from two hosts that    *)
(* run, one per TLS mode.                                                  *)
(***************************************************************************)
EXTENDS Lifecycle

AllUnset == [d \in DOMAIN DurationDefaults |-> Unset]

Disabled ==
    [issuer |-> "acme", audience |-> "web", tlsMode |-> "disabled",
     callerKeys |-> << <<"k", "", "app">>, <<"k2", "ops">> >>,
     certFile |-> "", keyFile |-> "", caFile |-> "", callerRegistry |-> "",
     grpcAddr |-> "", httpAddr |-> "", otlp |-> "", redisAddr |-> "",
     redisPassword |-> "", redisDB |-> Unset, durations |-> AllUnset,
     backfill |-> Unset]

MTLS == [Disabled EXCEPT !.tlsMode = "", !.callerKeys = <<>>,
            !.certFile = "c.pem", !.keyFile = "k.pem", !.caFile = "ca.pem",
            !.callerRegistry = "callers.yaml", !.otlp = "otel:4317",
            !.backfill = <<TRUE>>, !.durations["RotationWindowGuard"] = Unparsable]

Entry(i, ts) == [identity |-> i, tenants |-> ts]
File(entries) == [decodes |-> TRUE, version |-> 1, entries |-> entries]
Callers == File(<<Entry("app", <<"acme", "beta">>), Entry("ops", <<"acme">>)>>)
NoFile  == [Callers EXCEPT !.decodes = FALSE]

OnDisk(e, t, f) == [env |-> e, tls |-> t, callers |-> f]

BadEnvironments ==
    {[Disabled EXCEPT !.issuer = ""], [Disabled EXCEPT !.audience = ""],
     [Disabled EXCEPT !.tlsMode = "tls"], [Disabled EXCEPT !.callerKeys = <<>>],
     [Disabled EXCEPT !.callerKeys = << <<"k", "">> >>],
     [Disabled EXCEPT !.callerKeys = << <<"", "app">> >>],
     [Disabled EXCEPT !.callerKeys = << <<"k", "app">>, <<"">> >>],
     [MTLS EXCEPT !.certFile = ""], [MTLS EXCEPT !.keyFile = ""],
     [MTLS EXCEPT !.caFile = ""], [MTLS EXCEPT !.callerRegistry = ""]}

BadFiles ==
    {NoFile, [Callers EXCEPT !.version = 2],
     File(<<Entry("", <<"acme">>)>>), File(<<Entry("app", <<>>)>>),
     File(<<Entry("app", <<"acme">>), Entry("app", <<"beta">>)>>)}

MCHosts ==
    {OnDisk(Disabled, "no_cert", NoFile), OnDisk(MTLS, "ok", Callers),
     OnDisk([Disabled EXCEPT !.durations["RotationWindowGuard"] = <<0>>], "ok", NoFile),
     OnDisk([Disabled EXCEPT !.durations["ReconciliationInterval"] = <<-60>>,
                             !.callerRegistry = "callers.yaml"], "ok", Callers)}
    \cup {OnDisk([Disabled EXCEPT !.durations["MaxConnectionAge"] = <<age>>], "ok", NoFile) :
             age \in {0, 9, -60}}
    \cup {OnDisk([Disabled EXCEPT !.durations["MaxConnectionAgeGrace"] = <<0>>], "ok", NoFile)}
    \cup {OnDisk(e, "ok", Callers) : e \in BadEnvironments}
    \cup {OnDisk(MTLS, t, Callers) : t \in {"no_cert", "no_ca", "bad_ca"}}
    \cup {OnDisk(MTLS, "ok", f) : f \in BadFiles}
=============================================================================
