----------------------------- MODULE Lifecycle -----------------------------
(***************************************************************************)
(* The life of one token-engine process: main (cmd/token-engine/main.go),  *)
(* from config.Load to the end of the graceful shutdown, with the          *)
(* goroutines main starts, the RPCs in flight and the HTTP endpoints       *)
(* (internal/health/health.go, internal/handler/jwks.go).                  *)
(*                                                                         *)
(* phase is where the main goroutine is; the two background goroutines,    *)
(* the two servers and every RPC take steps of their own.  clock counts    *)
(* ticks: of RedisStartupRetryInterval while Redis is awaited, and since   *)
(* shutdownCtx was created during the shutdown.                            *)
(*                                                                         *)
(* Faults is the set of failures that may happen:                          *)
(*   otel_err, tenant_err, backfill_err, listen_err                        *)
(*                 a step of the startup fails                             *)
(*   serve_err     a server's accept loop ends with an error               *)
(*   shutdown_err  a key manager fails to stop                             *)
(* Redis is up or down at any time, a request may never return, and a      *)
(* connection may be as old as the keepalive parameters allow.             *)
(***************************************************************************)
EXTENDS Config

CONSTANTS
    Hosts,         \* environments, TLS files and caller files of the hosts
    Rpc,           \* calls that clients may make
    RetryMaxWait,  \* RedisStartupRetryMaxWait, in retry intervals
    DrainLimit,    \* the drain's sub-deadline, in ticks
    Budget,        \* the deadline of shutdownCtx, in ticks
    Faults

AllFaults == {"otel_err", "tenant_err", "backfill_err", "listen_err",
              "serve_err", "shutdown_err"}

ASSUME LifecycleAssumption ==
    /\ RetryMaxWait \in Nat /\ DrainLimit \in Nat /\ Budget \in Nat
    /\ DrainLimit < Budget
    /\ Faults \subseteq AllFaults
    /\ \A h \in Hosts :
         /\ h.env.callerKeys \in Seq(Seq(STRING))
         /\ h.callers.entries \in Seq([identity : STRING, tenants : Seq(STRING)])

VARIABLES
    host,      \* what the process was started with; never changes
    phase,     \* where main is
    exit,      \* how the process ended; "no" while it lives
    clock,     \* ticks, see above
    redisUp,   \* does Redis answer?
    km,        \* the tenant's key manager
    backfill,  \* outcome of the expiry-index backfill
    callers,   \* the caller registry
    creds,     \* does the gRPC server demand verified client certificates?
    bg,        \* the background goroutines
    grpc, http,\* the servers
    rpc,       \* every call, as its client sees it
    forced     \* history: the drain timed out

serverVars == <<grpc, http, rpc, forced>>
setupVars  == <<km, backfill, callers, creds, bg>>
vars == <<host, phase, exit, clock, redisUp, setupVars, serverVars>>

Cfg == Config(host.env)

Goroutines == {"rotation", "reconciliation"}
Startup    == {"load", "otel", "redis", "sleep", "tenant", "backfill", "tls",
               "callers", "background", "listen", "serve", "notify"}
Shutdown   == {"drain", "flush", "stopkeys", "stophttp"}
NoCallers  == [kind |-> "none", allowed |-> <<>>]

\* The type invariant: every variable in its set, and main's progress agrees
\* with what it has built.
TypeOK ==
    /\ host \in Hosts /\ redisUp \in BOOLEAN /\ creds \in BOOLEAN /\ forced \in BOOLEAN
    /\ phase \in Startup \cup Shutdown \cup {"wait"}
    /\ exit \in {"no", "failed", "killed", "panicked", "clean"}
    /\ clock \in 0 .. IF phase \in Shutdown THEN Budget ELSE RetryMaxWait
    /\ km \in {"none", "running", "keyless", "stopped"}
    /\ backfill \in {"none", "ok", "error"}
    /\ callers.kind \in {"none", "static", "noop"}
    /\ bg \in [Goroutines -> {"off", "spawned", "ticking", "returned"}]
    /\ grpc \in {"off", "bound", "serving", "failed", "draining", "stopped"}
    /\ http \in {"off", "spawned", "serving", "failed", "closed"}
    /\ rpc \in [Rpc -> {"idle", "running", "answered", "unavailable", "cut", "aged"}]
    /\ \A g \in Goroutines : bg[g] # "off" => km # "none" /\ callers.kind # "none"
    /\ http # "off" => grpc # "off" /\ \A g \in Goroutines : bg[g] # "off"

Init ==
    /\ host \in Hosts
    /\ phase = "load" /\ exit = "no" /\ clock = 0
    /\ redisUp \in BOOLEAN
    /\ km = "none" /\ backfill = "none" /\ callers = NoCallers /\ creds = FALSE
    /\ bg = [g \in Goroutines |-> "off"]
    /\ grpc = "off" /\ http = "off" /\ forced = FALSE
    /\ rpc = [r \in Rpc |-> "idle"]

\* The process is gone, and with it every connection.
CutOff == [r \in Rpc |-> IF rpc[r] = "running" THEN "cut" ELSE rpc[r]]

End(code) ==
    /\ exit' = code
    /\ rpc' = CutOff
    /\ UNCHANGED <<host, phase, clock, redisUp, setupVars, grpc, http, forced>>

\* Main is alive and at p.
At(p) == exit = "no" /\ phase = p
Goto(p) == phase' = p /\ UNCHANGED <<host, exit, redisUp>>

-----------------------------------------------------------------------------
(***************************************************************************)
(* Startup.  A failing step ends the process with status 1.                *)
(***************************************************************************)
LoadConfig ==
    /\ At("load")
    /\ \/ LoadError(host.env) # "" /\ End("failed")
       \/ /\ LoadError(host.env) = ""
          /\ Goto("otel")
          /\ UNCHANGED <<clock, setupVars, serverVars>>

SetupOTel ==
    /\ At("otel")
    /\ \/ Cfg.OTLPEndpoint # "" /\ "otel_err" \in Faults /\ End("failed")
       \/ /\ Goto("redis")
          /\ clock' = 0
          /\ UNCHANGED <<setupVars, serverVars>>

\* Mutant: retry for as long as it takes.
PingRedisForever ==
    /\ At("redis")
    /\ Goto(IF redisUp THEN "tenant" ELSE "sleep")
    /\ UNCHANGED <<clock, setupVars, serverVars>>

\* The retry loop: the window is only looked at after a failed ping.
PingRedis ==
    /\ At("redis")
    /\ \/ ~redisUp /\ clock >= RetryMaxWait /\ End("failed")
       \/ /\ redisUp \/ clock < RetryMaxWait
          /\ Goto(IF redisUp THEN "tenant" ELSE "sleep")
          /\ UNCHANGED <<clock, setupVars, serverVars>>

\* MultiTenantRegistry.Add for the one tenant, named after the issuer.
AddTenant ==
    /\ At("tenant")
    /\ \/ "tenant_err" \in Faults /\ End("failed")
       \/ /\ Goto("backfill")
          /\ km' = "running"
          /\ UNCHANGED <<clock, backfill, callers, creds, bg, serverVars>>

\* Mutant: the backfill is left to run beside the startup.
BackfillLater ==
    /\ At("backfill")
    /\ Goto("tls")
    /\ UNCHANGED <<clock, setupVars, serverVars>>

\* RunExpiryIndexBackfill; a failure is logged and startup goes on.
Backfill ==
    /\ At("backfill")
    /\ Goto("tls")
    /\ \/ ~Cfg.BackfillExpiryIndex /\ UNCHANGED backfill
       \/ Cfg.BackfillExpiryIndex /\ backfill' = "ok"
       \/ Cfg.BackfillExpiryIndex /\ "backfill_err" \in Faults /\ backfill' = "error"
    /\ UNCHANGED <<clock, km, callers, creds, bg, serverVars>>

\* host.tls tells which of the files, if any, cannot be used.
LoadTLS ==
    /\ At("tls")
    /\ \/ Cfg.TLSMode = "mtls" /\ host.tls # "ok" /\ End("failed")
       \/ /\ Cfg.TLSMode = "mtls" => host.tls = "ok"
          /\ Goto("callers")
          /\ creds' = (Cfg.TLSMode = "mtls")
          /\ UNCHANGED <<clock, km, backfill, callers, bg, serverVars>>

\* Mutant: duplicate identities are not looked for.
CallerFileAcceptedWithDuplicates(file) ==
    /\ file.decodes /\ file.version = 1
    /\ \A e \in ToSet(file.entries) : e.identity # "" /\ e.tenants # <<>>

\* LoadCallerRegistryConfig and the validation that follows it in main
CallerFileAccepted(file) ==
    /\ file.decodes /\ file.version = 1
    /\ \A e \in ToSet(file.entries) : e.identity # "" /\ e.tenants # <<>>
    /\ \A i, j \in DOMAIN file.entries :
         file.entries[i].identity = file.entries[j].identity => i = j

\* The map the loop builds: an identity listed again takes its last entry.
NewStaticCallerRegistry(entries) ==
    [kind |-> "static",
     allowed |-> [i \in {e.identity : e \in ToSet(entries)} |->
        ToSet(entries[Max({n \in DOMAIN entries : entries[n].identity = i})].tenants)]]

\* Mutant: without a path there is no registry at all.
LoadCallersNil ==
    /\ At("callers")
    /\ Cfg.CallerRegistryPath # "" => CallerFileAccepted(host.callers)
    /\ Goto("background")
    /\ callers' = IF Cfg.CallerRegistryPath = "" THEN callers
                  ELSE NewStaticCallerRegistry(host.callers.entries)
    /\ UNCHANGED <<clock, km, backfill, creds, bg, serverVars>>

LoadCallers ==
    /\ At("callers")
    /\ \/ /\ Cfg.CallerRegistryPath # "" /\ ~CallerFileAccepted(host.callers)
          /\ End("failed")
       \/ /\ Cfg.CallerRegistryPath # "" => CallerFileAccepted(host.callers)
          /\ Goto("background")
          /\ callers' = IF Cfg.CallerRegistryPath = "" THEN [NoCallers EXCEPT !.kind = "noop"]
                        ELSE NewStaticCallerRegistry(host.callers.entries)
          /\ UNCHANGED <<clock, km, backfill, creds, bg, serverVars>>

\* go func() of the rotation guard and of the reconciler: both run from here on.
SpawnBackground ==
    /\ At("background")
    /\ Goto("listen")
    /\ bg' = [g \in Goroutines |-> "spawned"]
    /\ UNCHANGED <<clock, km, backfill, callers, creds, serverVars>>

Listen ==
    /\ At("listen")
    /\ \/ "listen_err" \in Faults /\ End("failed")
       \/ /\ Goto("serve")
          /\ grpc' = "bound"
          /\ UNCHANGED <<clock, setupVars, http, rpc, forced>>

\* The two go statements that serve.
StartServers ==
    /\ At("serve")
    /\ Goto("notify")
    /\ http' = "spawned"
    /\ UNCHANGED <<clock, setupVars, grpc, rpc, forced>>

Notify ==
    /\ At("notify")
    /\ Goto("wait")
    /\ UNCHANGED <<clock, setupVars, serverVars>>

-----------------------------------------------------------------------------
(***************************************************************************)
(* The goroutines.                                                         *)
(***************************************************************************)
Interval(g) == IF g = "rotation" THEN Cfg.Durations.RotationWindowGuard
               ELSE Cfg.Durations.ReconciliationInterval

\* time.NewTicker panics unless its interval is positive, and a panic in any
\* goroutine ends the process.
NewTicker(g) ==
    /\ exit = "no" /\ bg[g] = "spawned"
    /\ \/ Interval(g) <= 0 /\ End("panicked")
       \/ /\ Interval(g) > 0
          /\ bg' = [bg EXCEPT ![g] = "ticking"]
          /\ UNCHANGED <<host, phase, exit, clock, redisUp, km, backfill, callers, creds, serverVars>>

\* ctx.Done()
ReturnOnCancel(g) ==
    /\ exit = "no" /\ phase \in Shutdown /\ bg[g] = "ticking"
    /\ bg' = [bg EXCEPT ![g] = "returned"]
    /\ UNCHANGED <<host, phase, exit, clock, redisUp, km, backfill, callers, creds, serverVars>>

\* Serve and ListenAndServe: an error is logged, and the process goes on.  A
\* server that was stopped before its goroutine ran never serves.
ServeGRPC ==
    /\ exit = "no"
    /\ \/ /\ grpc = "bound" /\ phase \notin Startup \ {"notify"}
          /\ grpc' = "serving"
       \/ "serve_err" \in Faults /\ grpc = "serving" /\ grpc' = "failed"
    /\ UNCHANGED <<host, phase, exit, clock, redisUp, setupVars, http, rpc, forced>>

ServeHTTP ==
    /\ exit = "no"
    /\ \/ http = "spawned" /\ http' = "serving"
       \/ "serve_err" \in Faults /\ http \in {"spawned", "serving"} /\ http' = "failed"
    /\ UNCHANGED <<host, phase, exit, clock, redisUp, setupVars, grpc, rpc, forced>>

(***************************************************************************)
(* Calls, each on a connection of its own.  A handler that asks a stopped  *)
(* manager is answered Unavailable.                                        *)
(*                                                                         *)
(* main hands MaxConnectionAge and MaxConnectionAgeGrace to the server as  *)
(* they are, and 0 stands for no limit there.  For every connection it     *)
(* accepts, grpc draws a jitter of up to a tenth of the age, which is only *)
(* possible when that tenth is at least a nanosecond: rand.Int63n panics   *)
(* in the connection's goroutine otherwise.  When the age is reached the   *)
(* client is told to go away, and when the grace is over too the           *)
(* connection is closed under the calls that still run.                    *)
(***************************************************************************)
JitterPanics(age) == age # 0 /\ age < 10

Call(r) ==
    /\ exit = "no" /\ grpc = "serving" /\ rpc[r] = "idle"
    /\ \/ JitterPanics(Cfg.Durations.MaxConnectionAge) /\ End("panicked")
       \/ /\ ~JitterPanics(Cfg.Durations.MaxConnectionAge)
          /\ rpc' = [rpc EXCEPT ![r] = "running"]
          /\ UNCHANGED <<host, phase, exit, clock, redisUp, setupVars, grpc, http, forced>>

\* Mutant: a grace of 0 is no grace.
AgeOutWithoutGrace(r) ==
    /\ exit = "no" /\ rpc[r] = "running"
    /\ Cfg.Durations.MaxConnectionAge # 0
    /\ rpc' = [rpc EXCEPT ![r] = "aged"]
    /\ UNCHANGED <<host, phase, exit, clock, redisUp, setupVars, grpc, http, forced>>

\* The connection is older than MaxConnectionAge and MaxConnectionAgeGrace allow.
AgeOut(r) ==
    /\ exit = "no" /\ rpc[r] = "running"
    /\ Cfg.Durations.MaxConnectionAge # 0 /\ Cfg.Durations.MaxConnectionAgeGrace # 0
    /\ rpc' = [rpc EXCEPT ![r] = "aged"]
    /\ UNCHANGED <<host, phase, exit, clock, redisUp, setupVars, grpc, http, forced>>

Answer(r) ==
    /\ exit = "no" /\ rpc[r] = "running"
    /\ rpc' = [rpc EXCEPT ![r] = IF km = "stopped" THEN "unavailable" ELSE "answered"]
    /\ UNCHANGED <<host, phase, exit, clock, redisUp, setupVars, grpc, http, forced>>

-----------------------------------------------------------------------------
(***************************************************************************)
(* Shutdown.                                                               *)
(***************************************************************************)

\* SIGINT or SIGTERM: before signal.Notify it kills the process; afterwards
\* main wakes up, cancels the context and spawns GracefulStop.  A second
\* signal stays in the channel.
Signal ==
    /\ exit = "no"
    /\ \/ phase \in Startup /\ End("killed")
       \/ /\ phase = "wait"
          /\ Goto("drain")
          /\ clock' = 0
          /\ UNCHANGED <<setupVars, serverVars>>

GracefulStop ==
    /\ At("drain") /\ grpc \in {"bound", "serving", "failed"}
    /\ grpc' = "draining"
    /\ UNCHANGED <<host, phase, exit, clock, redisUp, setupVars, http, rpc, forced>>

\* Mutant: the drain is not waited for.
DrainedAtOnce ==
    /\ At("drain") /\ grpc = "draining"
    /\ Goto("flush")
    /\ grpc' = "stopped"
    /\ UNCHANGED <<clock, setupVars, http, rpc, forced>>

\* case <-grpcDone
Drained ==
    /\ At("drain") /\ grpc = "draining"
    /\ \A r \in Rpc : rpc[r] # "running"
    /\ Goto("flush")
    /\ grpc' = "stopped"
    /\ UNCHANGED <<clock, setupVars, http, rpc, forced>>

\* Mutant: GracefulStop without a deadline.
DrainNeverTimesOut == FALSE /\ UNCHANGED vars

\* case <-time.After: Stop closes every connection.  Handlers that still run
\* have lost their client; nobody sees what they do.
DrainTimeout ==
    /\ At("drain") /\ clock >= DrainLimit
    /\ Goto("flush")
    /\ grpc' = "stopped" /\ rpc' = CutOff /\ forced' = TRUE
    /\ UNCHANGED <<clock, setupVars, http>>

\* otelShutdown: returns when the spans are out or shutdownCtx expires.
FlushOTel ==
    /\ At("flush")
    /\ Goto("stopkeys")
    /\ UNCHANGED <<clock, setupVars, serverVars>>

StopKeys ==
    /\ At("stopkeys")
    /\ Goto("stophttp")
    /\ \/ km' = "stopped"
       \/ "shutdown_err" \in Faults /\ UNCHANGED km
    /\ UNCHANGED <<clock, backfill, callers, creds, bg, serverVars>>

\* Mutant: both servers are stopped when the signal comes.
StopHTTPAtSignal ==
    \/ /\ At("drain") /\ http # "closed"
       /\ http' = "closed"
       /\ UNCHANGED <<host, phase, exit, clock, redisUp, setupVars, grpc, rpc, forced>>
    \/ /\ At("stophttp")
       /\ http' = "closed" /\ exit' = "clean"
       /\ UNCHANGED <<host, phase, clock, redisUp, setupVars, grpc, rpc, forced>>

\* httpServer.Shutdown, after which main returns.
StopHTTP ==
    /\ At("stophttp")
    /\ http' = "closed" /\ exit' = "clean"
    /\ UNCHANGED <<host, phase, clock, redisUp, setupVars, grpc, rpc, forced>>

-----------------------------------------------------------------------------
(***************************************************************************)
(* The HTTP endpoints, as functions of the state a request finds.          *)
(***************************************************************************)

\* The checkers in the order main registers them, with their verdicts.  fresh
\* is the reconciler's, which Reconciliation models; the slog audit store's
\* Ping never fails; a key manager with no key, or stopped, is unavailable.
Checkers(fresh) ==
    << <<"redis", redisUp>>, <<"audit", TRUE>>, <<"reconciler", fresh>>,
       <<"key_availability", km = "running">> >>

\* The first failing checker's name, or "ok".
ReadyHandler(fresh) ==
    LET failing == {i \in DOMAIN Checkers(fresh) : ~Checkers(fresh)[i][2]} IN
    IF failing = {} THEN "ok" ELSE Checkers(fresh)[Min(failing)][1]

\* No Cache-Control, and status 503, unless there are keys to serve.
JWKSHandler ==
    IF km = "stopped" THEN "key manager unavailable"
    ELSE IF km = "keyless" THEN "no signing keys available"
    ELSE "ok"

-----------------------------------------------------------------------------
(***************************************************************************)
(* The environment: time, Redis, and the key set of the manager.           *)
(***************************************************************************)
Tick ==
    /\ exit = "no"
    /\ \/ /\ phase \in {"redis", "sleep"}
          /\ clock' = Min({clock + 1, RetryMaxWait})
          /\ phase' = "redis"
       \/ /\ phase \in Shutdown /\ clock < Budget
          /\ clock' = clock + 1
          /\ UNCHANGED phase
    /\ UNCHANGED <<host, exit, redisUp, setupVars, serverVars>>

RedisChanges ==
    /\ exit = "no" /\ phase # "load"
    /\ redisUp' = ~redisUp
    /\ UNCHANGED <<host, phase, exit, clock, setupVars, serverVars>>

KeysChange ==
    /\ exit = "no"
    /\ \/ km = "running" /\ km' = "keyless"
       \/ km = "keyless" /\ km' = "running"
    /\ UNCHANGED <<host, phase, exit, clock, redisUp, backfill, callers, creds, bg, serverVars>>

Main ==
    \/ LoadConfig \/ SetupOTel \/ PingRedis \/ AddTenant \/ Backfill
    \/ LoadTLS \/ LoadCallers \/ SpawnBackground \/ Listen \/ StartServers
    \/ Notify \/ Drained \/ DrainTimeout \/ FlushOTel \/ StopKeys \/ StopHTTP

Next ==
    \/ Main \/ Signal \/ GracefulStop
    \/ \E g \in Goroutines : NewTicker(g) \/ ReturnOnCancel(g)
    \/ ServeGRPC \/ ServeHTTP
    \/ \E r \in Rpc : Call(r) \/ Answer(r) \/ AgeOut(r)
    \/ Tick \/ RedisChanges \/ KeysChange

Spec == Init /\ [][Next]_vars

(***************************************************************************)
(* Main is scheduled and time passes.  The calls that take shutdownCtx may *)
(* block, but not past its deadline; requests may block for good, Redis    *)
(* may stay down, and nothing makes a signal arrive.                       *)
(***************************************************************************)
Fairness ==
    /\ WF_vars(LoadConfig \/ SetupOTel \/ PingRedis \/ AddTenant \/ Backfill \/ LoadTLS
               \/ LoadCallers \/ SpawnBackground \/ Listen \/ StartServers \/ Notify)
    /\ WF_vars(Drained \/ DrainTimeout)
    /\ WF_vars((FlushOTel \/ StopKeys \/ StopHTTP) /\ clock = Budget)
    /\ WF_vars(Tick)

FairSpec == Spec /\ Fairness

-----------------------------------------------------------------------------
(***************************************************************************)
(* Safety.                                                                 *)
(***************************************************************************)

\* From the moment clients can connect, the service is complete: a running
\* tenant, the backfill behind it if one was asked for, and callers that are
\* authenticated.  With mTLS that means verified certificates and a caller
\* registry from a file; without, at least one API key.
GuardedService ==
    exit = "no" /\ grpc # "off" =>
        /\ km # "none"
        /\ Cfg.BackfillExpiryIndex => backfill # "none"
        /\ Cfg.TLSMode = "mtls" => creds /\ callers.kind = "static"
        /\ Cfg.TLSMode = "disabled" => DOMAIN Cfg.StaticCallerKeys # {}

\* The caller registry grants exactly what its file grants: no entry is
\* shadowed by another, dropped or widened.
GrantsExact ==
    callers.kind = "static" =>
        UNION {{i} \X callers.allowed[i] : i \in DOMAIN callers.allowed}
            = UNION {{e.identity} \X ToSet(e.tenants) : e \in ToSet(host.callers.entries)}

\* Durations that Load lets through although no ticker, or no jitter, can be
\* made of them; unset and unparsable ones are not among them.
UnusableSetting ==
    \/ \E d \in {"RotationWindowGuard", "ReconciliationInterval"} :
         Len(host.env.durations[d]) = 1 /\ host.env.durations[d][1] <= 0
    \/ /\ Len(host.env.durations["MaxConnectionAge"]) = 1
       /\ host.env.durations["MaxConnectionAge"][1] # 0
       /\ host.env.durations["MaxConnectionAge"][1] < 10

\* The operator left connections a limited age: neither setting is 0.
AgeLimited ==
    \A d \in {"MaxConnectionAge", "MaxConnectionAgeGrace"} : host.env.durations[d] # <<0>>

\* What a call can come to.  Nobody is answered by a stopped manager.  A client is
\* cut off by the process only when the drain timed out, when a signal came before
\* Notify, or by the panic of a ticker or a jitter that the settings made
\* impossible; no other configuration that Load accepts brings a process down.  And
\* its connection is closed for age only where the operator did not lift the limit.
CallsSurviveShutdown ==
    /\ exit = "panicked" => UnusableSetting
    /\ \A r \in Rpc :
         /\ rpc[r] # "unavailable"
         /\ rpc[r] = "cut" => forced \/ exit \in {"killed", "panicked"}
         /\ rpc[r] = "aged" => AgeLimited
         /\ exit = "clean" => rpc[r] # "running"

\* The HTTP endpoints outlive the calls: as long as a client waits for an answer,
\* also one that the shutdown is waiting for, main has not closed the HTTP server,
\* verifiers are not told that the key manager is gone, and the probe blames the
\* keys only if there are none.
EndpointsOutliveCalls ==
    exit = "no" /\ (\E r \in Rpc : rpc[r] = "running") =>
        /\ http # "closed"
        /\ JWKSHandler # "key manager unavailable"
        /\ ReadyHandler(TRUE) = "key_availability" => km = "keyless"

(***************************************************************************)
(* The inductive invariant behind these properties: what main has built by *)
(* the time it gets to a phase, and what is left when it shuts down.       *)
(***************************************************************************)
Listening    == {"serve", "notify", "wait"} \cup Shutdown
Backgrounded == {"listen"} \cup Listening
CallersKnown == {"background"} \cup Backgrounded
TLSLoaded    == {"callers"} \cup CallersKnown
Backfilled   == {"tls"} \cup TLSLoaded
Tenanted     == {"backfill"} \cup Backfilled

\* Main goes through its phases in order, so everything a later phase relies on
\* is there; a server is up exactly from Listen on.
BuiltInOrder ==
    /\ phase # "load" => LoadError(host.env) = ""
    /\ phase \in Tenanted => km # "none"
    /\ phase \in Backfilled /\ Cfg.BackfillExpiryIndex => backfill # "none"
    /\ phase \in TLSLoaded => creds = (Cfg.TLSMode = "mtls")
    /\ phase \in CallersKnown => callers.kind # "none"
    /\ phase \in CallersKnown /\ Cfg.CallerRegistryPath # "" => callers.kind = "static"
    /\ \A g \in Goroutines : bg[g] # "off" <=> phase \in Backgrounded
    /\ grpc # "off" <=> phase \in Listening
    /\ http # "off" => phase \in Listening

\* A registry that restricts callers was built from a file that was accepted.
FromAcceptedFile ==
    callers.kind = "static" =>
        /\ CallerFileAccepted(host.callers)
        /\ callers = NewStaticCallerRegistry(host.callers.entries)

\* No call before the server serves, none behind the drain, and the key manager
\* is stopped only there; the HTTP server is closed last.
DrainedFirst ==
    /\ \A r \in Rpc : rpc[r] # "idle" => grpc \notin {"off", "bound"}
    /\ phase \in Shutdown \ {"drain"} => grpc = "stopped" /\ \A r \in Rpc : rpc[r] # "running"
    /\ km = "stopped" => phase = "stophttp"
    /\ http = "closed" => exit = "clean"

LifecycleInv ==
    TypeOK /\ BuiltInOrder /\ FromAcceptedFile /\ DrainedFirst /\ CallsSurviveShutdown

(***************************************************************************)
(* Liveness, under FairSpec.                                               *)
(***************************************************************************)

\* Startup comes to a decision, also when Redis stays down or flaps: main gets
\* to wait for its signal, or the process ends.
StartupDecides == phase = "load" ~> (phase = "wait" \/ exit # "no")

\* A shutdown that began ends, although requests, the span exporter and HTTP
\* clients may block for ever.
ShutdownCompletes == phase = "drain" ~> exit # "no"
=============================================================================
