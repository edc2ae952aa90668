-------------------------- MODULE LifecycleProofs --------------------------
(***************************************************************************)
(* Proofs about Lifecycle, for any hosts, any number of calls, any         *)
(* deadlines and every combination of failures.                            *)
(***************************************************************************)
EXTENDS Lifecycle, TLAPS, WellFoundedInduction

\* The ends of the process, with their causes.
Dies ==
    /\ exit = "no"
    /\ \/ End("failed") /\ phase \notin Listening
       \/ End("killed") /\ phase \in Startup
       \/ End("panicked") /\ UnusableSetting

\* The type invariant, in three parts.
VarsTyped ==
    /\ host \in Hosts /\ redisUp \in BOOLEAN /\ creds \in BOOLEAN /\ forced \in BOOLEAN
    /\ phase \in Startup \cup Shutdown \cup {"wait"}
    /\ exit \in {"no", "failed", "killed", "panicked", "clean"}
    /\ km \in {"none", "running", "keyless", "stopped"}
    /\ backfill \in {"none", "ok", "error"}
    /\ callers.kind \in {"none", "static", "noop"}
    /\ bg \in [Goroutines -> {"off", "spawned", "ticking", "returned"}]
    /\ grpc \in {"off", "bound", "serving", "failed", "draining", "stopped"}
    /\ http \in {"off", "spawned", "serving", "failed", "closed"}
    /\ rpc \in [Rpc -> {"idle", "running", "answered", "unavailable", "cut", "aged"}]

ClockTyped ==
    /\ clock \in Nat
    /\ phase \in Shutdown => clock <= Budget
    /\ phase \notin Shutdown => clock <= RetryMaxWait

LEMMA BoundsAreNats ==
    RetryMaxWait \in Nat /\ Budget \in Nat /\ 0 \in Nat /\ 0 <= RetryMaxWait
  BY LifecycleAssumption

LEMMA TypeParts == ASSUME BuiltInOrder PROVE TypeOK <=> VarsTyped /\ ClockTyped
  <1>1. /\ \A g \in Goroutines : bg[g] # "off" => km # "none" /\ callers.kind # "none"
        /\ http # "off" => grpc # "off" /\ \A g \in Goroutines : bg[g] # "off"
    BY DEF BuiltInOrder, Shutdown, Listening, Backgrounded, CallersKnown, TLSLoaded, Backfilled,
           Tenanted
  <1>2. ClockTyped <=> clock \in 0 .. IF phase \in Shutdown THEN Budget ELSE RetryMaxWait
    BY BoundsAreNats DEF ClockTyped
  <1>. QED BY <1>1, <1>2 DEF TypeOK, VarsTyped

\* The invariant in the parts the steps are checked against.
LEMMA InvParts ==
    LifecycleInv <=> /\ VarsTyped /\ ClockTyped /\ BuiltInOrder
                     /\ FromAcceptedFile /\ DrainedFirst /\ CallsSurviveShutdown
  BY TypeParts DEF LifecycleInv

LEMMA InvPartsNext ==
    LifecycleInv' <=> /\ VarsTyped' /\ ClockTyped' /\ BuiltInOrder'
                      /\ FromAcceptedFile' /\ DrainedFirst' /\ CallsSurviveShutdown'
  BY InvParts, PTL

\* The defaults are long enough for tickers and jitter.
LEMMA DefaultsUsable ==
    /\ {"RotationWindowGuard", "ReconciliationInterval", "MaxConnectionAge",
        "MaxConnectionAgeGrace"} \subseteq DOMAIN DurationDefaults
    /\ DurationDefaults["RotationWindowGuard"] \in Int /\ DurationDefaults["RotationWindowGuard"] > 0
    /\ DurationDefaults["ReconciliationInterval"] \in Int
    /\ DurationDefaults["ReconciliationInterval"] > 0
    /\ DurationDefaults["MaxConnectionAge"] \in Int /\ DurationDefaults["MaxConnectionAge"] >= 10
  BY DEF DurationDefaults, Minute, Second

\* No ticker can fail on an interval that Load supplied.
LEMMA TickerPanics ==
    ASSUME NEW g \in Goroutines, Interval(g) <= 0
    PROVE  UnusableSetting
  <1>1. /\ Cfg.Durations["RotationWindowGuard"] = ParseOr(host.env.durations["RotationWindowGuard"],
                                                        DurationDefaults["RotationWindowGuard"])
        /\ Cfg.Durations["ReconciliationInterval"]
             = ParseOr(host.env.durations["ReconciliationInterval"],
                       DurationDefaults["ReconciliationInterval"])
    BY DefaultsUsable DEF Cfg, Config, Durations
  <1>2. CASE g = "rotation"
    BY <1>1, <1>2, DefaultsUsable DEF Interval, ParseOr, UnusableSetting
  <1>3. CASE g = "reconciliation"
    BY <1>1, <1>3, DefaultsUsable DEF Interval, ParseOr, UnusableSetting
  <1>. QED BY <1>2, <1>3 DEF Goroutines

\* No jitter can fail on the default age, and no connection ages where one of the
\* two settings is 0.
LEMMA ConnectionAges ==
    /\ JitterPanics(Cfg.Durations.MaxConnectionAge) => UnusableSetting
    /\ Cfg.Durations.MaxConnectionAge # 0 /\ Cfg.Durations.MaxConnectionAgeGrace # 0 => AgeLimited
  <1>2. /\ Cfg.Durations["MaxConnectionAge"]
             = ParseOr(host.env.durations["MaxConnectionAge"], DurationDefaults["MaxConnectionAge"])
        /\ Cfg.Durations["MaxConnectionAgeGrace"]
             = ParseOr(host.env.durations["MaxConnectionAgeGrace"],
                       DurationDefaults["MaxConnectionAgeGrace"])
    BY DefaultsUsable DEF Cfg, Config, Durations
  <1>3. JitterPanics(Cfg.Durations.MaxConnectionAge) => UnusableSetting
    BY <1>2, DefaultsUsable DEF JitterPanics, ParseOr, UnusableSetting
  <1>4. \A d \in {"MaxConnectionAge", "MaxConnectionAgeGrace"} :
          host.env.durations[d] = <<0>> => Cfg.Durations[d] = 0
    <2>1. \A x : ParseOr(<<0>>, x) = 0
      BY DEF ParseOr
    <2>2. host.env.durations["MaxConnectionAge"] = <<0>> => Cfg.Durations["MaxConnectionAge"] = 0
      BY <1>2, <2>1
    <2>3. host.env.durations["MaxConnectionAgeGrace"] = <<0>>
            => Cfg.Durations["MaxConnectionAgeGrace"] = 0
      BY <1>2, <2>1
    <2>. QED BY <2>2, <2>3
  <1>. QED BY <1>3, <1>4 DEF AgeLimited

-----------------------------------------------------------------------------
(***************************************************************************)
(* The invariant is inductive.  The steps that end the process come first, *)
(* then the others, by the part of the process that takes them.            *)
(***************************************************************************)
LEMMA InvInit == Init => LifecycleInv
  <1>. SUFFICES ASSUME Init PROVE LifecycleInv
    OBVIOUS
  <1>. USE DEF Init, Startup, Shutdown, Listening, Backgrounded, CallersKnown, TLSLoaded,
               Backfilled, Tenanted, NoCallers
  <1>1. VarsTyped
    BY DEF VarsTyped
  <1>2. ClockTyped
    BY BoundsAreNats DEF ClockTyped
  <1>3. BuiltInOrder
    BY DEF BuiltInOrder
  <1>4. FromAcceptedFile /\ DrainedFirst /\ CallsSurviveShutdown
    BY DEF FromAcceptedFile, DrainedFirst, CallsSurviveShutdown
  <1>. QED BY <1>1, <1>2, <1>3, <1>4, InvParts

LEMMA EndStep == ASSUME LifecycleInv, Dies PROVE LifecycleInv'
  <1>. USE InvParts DEF Dies, End, setupVars, CutOff
  <1>1. host' = host /\ Cfg' = Cfg /\ UnusableSetting' = UnusableSetting /\ AgeLimited' = AgeLimited
    BY DEF Cfg, UnusableSetting, AgeLimited
  <1>2. VarsTyped' /\ ClockTyped'
    BY DEF VarsTyped, ClockTyped
  <1>3. BuiltInOrder' /\ FromAcceptedFile' /\ DrainedFirst'
    BY <1>1 DEF BuiltInOrder, FromAcceptedFile, DrainedFirst
  <1>4. CallsSurviveShutdown'
    BY <1>1 DEF CallsSurviveShutdown, VarsTyped, BuiltInOrder, DrainedFirst
  <1>. QED BY <1>2, <1>3, <1>4, InvPartsNext

\* Up to the tenant.
LEMMA FirstStartupSteps ==
    ASSUME LifecycleInv, ~Dies,
           LoadConfig \/ SetupOTel \/ PingRedis \/ AddTenant
    PROVE  LifecycleInv'
  <1>. USE InvParts DEF LoadConfig, SetupOTel, PingRedis, AddTenant,
           At, Goto, setupVars, serverVars, Startup, Shutdown, Listening, Backgrounded,
           CallersKnown, TLSLoaded, Backfilled, Tenanted, Dies
  <1>1. host' = host /\ Cfg' = Cfg /\ UnusableSetting' = UnusableSetting /\ AgeLimited' = AgeLimited
    BY DEF Cfg, UnusableSetting, AgeLimited
  <1>2. VarsTyped'
    BY DEF VarsTyped, BuiltInOrder
  <1>3. ClockTyped'
    <2>1. CASE LoadConfig
      BY BoundsAreNats, <2>1 DEF ClockTyped
    <2>2. CASE SetupOTel
      <3>1. phase' = "redis" /\ clock' = 0
        BY <2>2
      <3>. QED BY <3>1, BoundsAreNats DEF ClockTyped
    <2>3. CASE PingRedis
      BY BoundsAreNats, <2>3 DEF ClockTyped
    <2>4. CASE AddTenant
      BY BoundsAreNats, <2>4 DEF ClockTyped
    <2>. QED BY <2>1, <2>2, <2>3, <2>4
  <1>4. BuiltInOrder'
    BY <1>1 DEF VarsTyped, BuiltInOrder, DrainedFirst
  <1>5. FromAcceptedFile'
    BY <1>1 DEF FromAcceptedFile
  <1>6. DrainedFirst'
    BY DEF VarsTyped, BuiltInOrder, DrainedFirst
  <1>7. CallsSurviveShutdown'
    BY <1>1 DEF VarsTyped, BuiltInOrder, DrainedFirst, CallsSurviveShutdown
  <1>. QED BY <1>2, <1>3, <1>4, <1>5, <1>6, <1>7, InvPartsNext

\* The backfill and the transport credentials.
LEMMA BackfillAndTLSSteps ==
    ASSUME LifecycleInv, ~Dies,
           Backfill \/ LoadTLS
    PROVE  LifecycleInv'
  <1>. USE InvParts DEF Backfill, LoadTLS,
           At, Goto, setupVars, serverVars, Startup, Shutdown, Listening, Backgrounded,
           CallersKnown, TLSLoaded, Backfilled, Tenanted, Dies
  <1>1. host' = host /\ Cfg' = Cfg /\ UnusableSetting' = UnusableSetting /\ AgeLimited' = AgeLimited
    BY DEF Cfg, UnusableSetting, AgeLimited
  <1>2. VarsTyped'
    BY DEF VarsTyped, BuiltInOrder
  <1>3. ClockTyped'
    BY BoundsAreNats DEF ClockTyped
  <1>4. BuiltInOrder'
    BY <1>1 DEF VarsTyped, BuiltInOrder, DrainedFirst
  <1>5. FromAcceptedFile'
    BY <1>1 DEF FromAcceptedFile
  <1>6. DrainedFirst'
    BY DEF VarsTyped, BuiltInOrder, DrainedFirst
  <1>7. CallsSurviveShutdown'
    BY <1>1 DEF VarsTyped, BuiltInOrder, DrainedFirst, CallsSurviveShutdown
  <1>. QED BY <1>2, <1>3, <1>4, <1>5, <1>6, <1>7, InvPartsNext

\* The caller registry.
LEMMA LoadCallersStep ==
    ASSUME LifecycleInv, ~Dies,
           LoadCallers
    PROVE  LifecycleInv'
  <1>. USE InvParts DEF LoadCallers,
           At, Goto, setupVars, serverVars, Startup, Shutdown, Listening, Backgrounded,
           CallersKnown, TLSLoaded, Backfilled, Tenanted, Dies
  <1>1. host' = host /\ Cfg' = Cfg /\ UnusableSetting' = UnusableSetting /\ AgeLimited' = AgeLimited
    BY DEF Cfg, UnusableSetting, AgeLimited
  <1>8. callers'.kind = IF Cfg.CallerRegistryPath = "" THEN "noop" ELSE "static"
    <2>1. CASE Cfg.CallerRegistryPath = ""
      <3>1. callers' = [NoCallers EXCEPT !.kind = "noop"]
        BY <2>1
      <3>. QED BY <2>1, <3>1 DEF NoCallers
    <2>2. CASE Cfg.CallerRegistryPath # ""
      <3>1. callers' = NewStaticCallerRegistry(host.callers.entries)
        BY <2>2
      <3>. QED BY <2>2, <3>1 DEF NewStaticCallerRegistry
    <2>. QED BY <2>1, <2>2
  <1>2. VarsTyped'
    BY <1>8 DEF VarsTyped
  <1>3. ClockTyped'
    BY BoundsAreNats DEF ClockTyped
  <1>4. BuiltInOrder'
    BY <1>1, <1>8 DEF VarsTyped, BuiltInOrder
  <1>5. FromAcceptedFile'
    <2>1. CASE Cfg.CallerRegistryPath = ""
      BY <1>8, <2>1 DEF FromAcceptedFile
    <2>2. CASE Cfg.CallerRegistryPath # ""
      <3>1. /\ CallerFileAccepted(host.callers)
            /\ callers' = NewStaticCallerRegistry(host.callers.entries)
        BY <2>2
      <3>. QED BY <1>1, <3>1 DEF FromAcceptedFile
    <2>. QED BY <2>1, <2>2
  <1>6. DrainedFirst'
    BY DEF VarsTyped, BuiltInOrder, DrainedFirst
  <1>7. CallsSurviveShutdown'
    BY <1>1 DEF VarsTyped, BuiltInOrder, DrainedFirst, CallsSurviveShutdown
  <1>. QED BY <1>2, <1>3, <1>4, <1>5, <1>6, <1>7, InvPartsNext

\* The goroutines and the servers.
LEMMA LastStartupSteps ==
    ASSUME LifecycleInv, ~Dies,
           SpawnBackground \/ Listen \/ StartServers \/ Notify
    PROVE  LifecycleInv'
  <1>. USE InvParts DEF SpawnBackground, Listen, StartServers, Notify,
           At, Goto, setupVars, serverVars, Startup, Shutdown, Listening, Backgrounded,
           CallersKnown, TLSLoaded, Backfilled, Tenanted, Dies
  <1>1. host' = host /\ Cfg' = Cfg /\ UnusableSetting' = UnusableSetting /\ AgeLimited' = AgeLimited
    BY DEF Cfg, UnusableSetting, AgeLimited
  <1>2. VarsTyped'
    BY DEF VarsTyped, BuiltInOrder
  <1>3. ClockTyped'
    BY BoundsAreNats DEF ClockTyped
  <1>4. BuiltInOrder'
    <2>1. CASE SpawnBackground
      BY <1>1, <2>1 DEF BuiltInOrder, VarsTyped
    <2>2. CASE Listen
      BY <1>1, <2>2 DEF BuiltInOrder, VarsTyped
    <2>3. CASE StartServers
      BY <1>1, <2>3 DEF BuiltInOrder, VarsTyped
    <2>4. CASE Notify
      BY <1>1, <2>4 DEF BuiltInOrder, VarsTyped
    <2>. QED BY <2>1, <2>2, <2>3, <2>4
  <1>5. FromAcceptedFile'
    BY <1>1 DEF FromAcceptedFile
  <1>6. DrainedFirst'
    BY DEF VarsTyped, BuiltInOrder, DrainedFirst
  <1>7. CallsSurviveShutdown'
    BY <1>1 DEF VarsTyped, BuiltInOrder, DrainedFirst, CallsSurviveShutdown
  <1>. QED BY <1>2, <1>3, <1>4, <1>5, <1>6, <1>7, InvPartsNext

\* The background goroutines.
LEMMA TickerSteps ==
    ASSUME LifecycleInv, NEW g \in Goroutines, ~Dies,
           NewTicker(g) \/ ReturnOnCancel(g)
    PROVE  LifecycleInv'
  <1>. USE InvParts DEF NewTicker, ReturnOnCancel,
           At, Goto, setupVars, serverVars, Startup, Shutdown, Listening, Backgrounded,
           CallersKnown, TLSLoaded, Backfilled, Tenanted, Dies
  <1>0. /\ exit = "no" /\ bg[g] \in {"spawned", "ticking"}
        /\ bg' = [bg EXCEPT ![g] = "ticking"] \/ bg' = [bg EXCEPT ![g] = "returned"]
        /\ UNCHANGED <<host, phase, exit, clock, redisUp, km, backfill, callers, creds,
                       grpc, http, rpc, forced>>
    BY TickerPanics
  <1>1. host' = host /\ Cfg' = Cfg /\ UnusableSetting' = UnusableSetting /\ AgeLimited' = AgeLimited
    BY <1>0 DEF Cfg, UnusableSetting, AgeLimited
  <1>2. VarsTyped'
    BY <1>0 DEF VarsTyped
  <1>3. ClockTyped'
    BY <1>0 DEF ClockTyped
  <1>4. BuiltInOrder'
    <2>1. \A h \in Goroutines : bg'[h] # "off" <=> bg[h] # "off"
      BY <1>0 DEF VarsTyped
    <2>. QED BY <1>0, <1>1, <2>1 DEF BuiltInOrder
  <1>5. FromAcceptedFile'
    BY <1>0, <1>1 DEF FromAcceptedFile
  <1>6. DrainedFirst'
    BY <1>0 DEF DrainedFirst
  <1>7. CallsSurviveShutdown'
    BY <1>0, <1>1 DEF CallsSurviveShutdown
  <1>. QED BY <1>2, <1>3, <1>4, <1>5, <1>6, <1>7, InvPartsNext

\* The servers.
LEMMA ServeSteps ==
    ASSUME LifecycleInv, ~Dies,
           ServeGRPC \/ ServeHTTP
    PROVE  LifecycleInv'
  <1>. USE InvParts DEF ServeGRPC, ServeHTTP,
           At, Goto, setupVars, serverVars, Startup, Shutdown, Listening, Backgrounded,
           CallersKnown, TLSLoaded, Backfilled, Tenanted, Dies
  <1>1. host' = host /\ Cfg' = Cfg /\ UnusableSetting' = UnusableSetting /\ AgeLimited' = AgeLimited
    BY DEF Cfg, UnusableSetting, AgeLimited
  <1>2. VarsTyped'
    BY DEF VarsTyped, BuiltInOrder
  <1>3. ClockTyped'
    BY BoundsAreNats DEF ClockTyped
  <1>4. BuiltInOrder'
    <2>1. CASE ServeGRPC
      BY <1>1, <2>1 DEF BuiltInOrder
    <2>2. CASE ServeHTTP
      BY <1>1, <2>2 DEF BuiltInOrder
    <2>. QED BY <2>1, <2>2
  <1>5. FromAcceptedFile'
    BY <1>1 DEF FromAcceptedFile
  <1>6. DrainedFirst'
    BY DEF VarsTyped, BuiltInOrder, DrainedFirst
  <1>7. CallsSurviveShutdown'
    BY <1>1 DEF VarsTyped, BuiltInOrder, DrainedFirst, CallsSurviveShutdown
  <1>. QED BY <1>2, <1>3, <1>4, <1>5, <1>6, <1>7, InvPartsNext

\* The calls.
LEMMA CallSteps ==
    ASSUME LifecycleInv, NEW r \in Rpc, ~Dies,
           Call(r) \/ Answer(r) \/ AgeOut(r)
    PROVE  LifecycleInv'
  <1>. USE InvParts, ConnectionAges DEF Call, Answer, AgeOut,
           At, Goto, setupVars, serverVars, Startup, Shutdown, Listening, Backgrounded,
           CallersKnown, TLSLoaded, Backfilled, Tenanted, Dies
  <1>1. host' = host /\ Cfg' = Cfg /\ UnusableSetting' = UnusableSetting /\ AgeLimited' = AgeLimited
    BY DEF Cfg, UnusableSetting, AgeLimited
  <1>2. VarsTyped'
    BY DEF VarsTyped, BuiltInOrder
  <1>3. ClockTyped'
    BY BoundsAreNats DEF ClockTyped
  <1>4. BuiltInOrder'
    BY <1>1 DEF BuiltInOrder
  <1>5. FromAcceptedFile'
    BY <1>1 DEF FromAcceptedFile
  <1>6. DrainedFirst'
    BY DEF VarsTyped, BuiltInOrder, DrainedFirst
  <1>7. CallsSurviveShutdown'
    BY <1>1 DEF VarsTyped, BuiltInOrder, DrainedFirst, CallsSurviveShutdown
  <1>. QED BY <1>2, <1>3, <1>4, <1>5, <1>6, <1>7, InvPartsNext

\* The signal and the drain.
LEMMA DrainSteps ==
    ASSUME LifecycleInv, ~Dies,
           Signal \/ GracefulStop \/ Drained
    PROVE  LifecycleInv'
  <1>. USE InvParts DEF Signal, GracefulStop, Drained,
           At, Goto, setupVars, serverVars, Startup, Shutdown, Listening, Backgrounded,
           CallersKnown, TLSLoaded, Backfilled, Tenanted, Dies
  <1>1. host' = host /\ Cfg' = Cfg /\ UnusableSetting' = UnusableSetting /\ AgeLimited' = AgeLimited
    BY DEF Cfg, UnusableSetting, AgeLimited
  <1>2. VarsTyped'
    BY DEF VarsTyped, BuiltInOrder
  <1>3. ClockTyped'
    BY BoundsAreNats DEF ClockTyped
  <1>4. BuiltInOrder'
    <2>1. CASE Signal
      BY <1>1, <2>1 DEF BuiltInOrder
    <2>2. CASE GracefulStop
      BY <1>1, <2>2 DEF BuiltInOrder
    <2>3. CASE Drained
      BY <1>1, <2>3 DEF BuiltInOrder
    <2>. QED BY <2>1, <2>2, <2>3
  <1>5. FromAcceptedFile'
    BY <1>1 DEF FromAcceptedFile
  <1>6. DrainedFirst'
    BY DEF VarsTyped, BuiltInOrder, DrainedFirst
  <1>7. CallsSurviveShutdown'
    BY <1>1 DEF VarsTyped, BuiltInOrder, DrainedFirst, CallsSurviveShutdown
  <1>. QED BY <1>2, <1>3, <1>4, <1>5, <1>6, <1>7, InvPartsNext

\* The end of the drain's patience.
LEMMA DrainTimeoutStep ==
    ASSUME LifecycleInv, ~Dies,
           DrainTimeout
    PROVE  LifecycleInv'
  <1>. USE InvParts DEF DrainTimeout, CutOff,
           At, Goto, setupVars, serverVars, Startup, Shutdown, Listening, Backgrounded,
           CallersKnown, TLSLoaded, Backfilled, Tenanted, Dies
  <1>1. host' = host /\ Cfg' = Cfg /\ UnusableSetting' = UnusableSetting /\ AgeLimited' = AgeLimited
    BY DEF Cfg, UnusableSetting, AgeLimited
  <1>2. VarsTyped'
    BY DEF VarsTyped, BuiltInOrder
  <1>3. ClockTyped'
    BY BoundsAreNats DEF ClockTyped
  <1>4. BuiltInOrder'
    BY <1>1 DEF VarsTyped, BuiltInOrder, DrainedFirst
  <1>5. FromAcceptedFile'
    BY <1>1 DEF FromAcceptedFile
  <1>6. DrainedFirst'
    BY DEF VarsTyped, BuiltInOrder, DrainedFirst
  <1>7. CallsSurviveShutdown'
    BY <1>1 DEF VarsTyped, BuiltInOrder, DrainedFirst, CallsSurviveShutdown
  <1>. QED BY <1>2, <1>3, <1>4, <1>5, <1>6, <1>7, InvPartsNext

\* The rest of the shutdown.
LEMMA StopSteps ==
    ASSUME LifecycleInv, ~Dies,
           FlushOTel \/ StopKeys \/ StopHTTP
    PROVE  LifecycleInv'
  <1>. USE InvParts DEF FlushOTel, StopKeys, StopHTTP,
           At, Goto, setupVars, serverVars, Startup, Shutdown, Listening, Backgrounded,
           CallersKnown, TLSLoaded, Backfilled, Tenanted, Dies
  <1>1. host' = host /\ Cfg' = Cfg /\ UnusableSetting' = UnusableSetting /\ AgeLimited' = AgeLimited
    BY DEF Cfg, UnusableSetting, AgeLimited
  <1>2. VarsTyped'
    BY DEF VarsTyped, BuiltInOrder
  <1>3. ClockTyped'
    BY BoundsAreNats DEF ClockTyped
  <1>4. BuiltInOrder'
    BY <1>1 DEF VarsTyped, BuiltInOrder, DrainedFirst
  <1>5. FromAcceptedFile'
    BY <1>1 DEF FromAcceptedFile
  <1>6. DrainedFirst'
    BY DEF VarsTyped, BuiltInOrder, DrainedFirst
  <1>7. CallsSurviveShutdown'
    BY <1>1 DEF VarsTyped, BuiltInOrder, DrainedFirst, CallsSurviveShutdown
  <1>. QED BY <1>2, <1>3, <1>4, <1>5, <1>6, <1>7, InvPartsNext

\* Redis and the key set.
LEMMA EnvironmentSteps ==
    ASSUME LifecycleInv, ~Dies,
           RedisChanges \/ KeysChange
    PROVE  LifecycleInv'
  <1>. USE InvParts DEF RedisChanges, KeysChange,
           At, Goto, setupVars, serverVars, Startup, Shutdown, Listening, Backgrounded,
           CallersKnown, TLSLoaded, Backfilled, Tenanted, Dies
  <1>1. host' = host /\ Cfg' = Cfg /\ UnusableSetting' = UnusableSetting /\ AgeLimited' = AgeLimited
    BY DEF Cfg, UnusableSetting, AgeLimited
  <1>2. VarsTyped'
    BY DEF VarsTyped, BuiltInOrder
  <1>3. ClockTyped'
    BY BoundsAreNats DEF ClockTyped
  <1>4. BuiltInOrder'
    BY <1>1 DEF BuiltInOrder
  <1>5. FromAcceptedFile'
    BY <1>1 DEF FromAcceptedFile
  <1>6. DrainedFirst'
    BY DEF VarsTyped, BuiltInOrder, DrainedFirst
  <1>7. CallsSurviveShutdown'
    BY <1>1 DEF VarsTyped, BuiltInOrder, DrainedFirst, CallsSurviveShutdown
  <1>. QED BY <1>2, <1>3, <1>4, <1>5, <1>6, <1>7, InvPartsNext

\* Time.
LEMMA TickStep ==
    ASSUME LifecycleInv, ~Dies,
           Tick
    PROVE  LifecycleInv'
  <1>. USE InvParts DEF Tick,
           At, Goto, setupVars, serverVars, Startup, Shutdown, Listening, Backgrounded,
           CallersKnown, TLSLoaded, Backfilled, Tenanted, Dies
  <1>1. host' = host /\ Cfg' = Cfg /\ UnusableSetting' = UnusableSetting /\ AgeLimited' = AgeLimited
    BY DEF Cfg, UnusableSetting, AgeLimited
  <1>2. VarsTyped'
    <2>1. phase' = "redis" \/ phase' = phase
      OBVIOUS
    <2>2. UNCHANGED <<host, exit, redisUp, km, backfill, callers, creds, bg, grpc, http, rpc, forced>>
      OBVIOUS
    <2>. QED BY <2>1, <2>2 DEF VarsTyped
  <1>3. ClockTyped'
    <2>1. CASE phase \in {"redis", "sleep"}
      <3>1. phase' = "redis" /\ clock' = Min({clock + 1, RetryMaxWait})
        BY <2>1
      <3>2. ASSUME NEW m \in Nat, NEW n \in Nat
            PROVE  Min({m, n}) \in Nat /\ Min({m, n}) <= n
        <4>1. \E x \in {m, n} : \A y \in {m, n} : x <= y
          OBVIOUS
        <4>2. Min({m, n}) \in {m, n} /\ \A y \in {m, n} : Min({m, n}) <= y
          BY <4>1 DEF Min
        <4>. QED BY <4>2
      <3>3. clock + 1 \in Nat
        BY DEF ClockTyped
      <3>4. clock' \in Nat /\ clock' <= RetryMaxWait
        BY <3>1, <3>2, <3>3, BoundsAreNats
      <3>. QED BY <3>1, <3>4 DEF ClockTyped
    <2>2. CASE phase \in Shutdown /\ clock < Budget /\ clock' = clock + 1 /\ phase' = phase
      BY <2>2, BoundsAreNats DEF ClockTyped
    <2>. QED BY <2>1, <2>2
  <1>4. BuiltInOrder'
    BY <1>1 DEF VarsTyped, BuiltInOrder, DrainedFirst
  <1>5. FromAcceptedFile'
    BY <1>1 DEF FromAcceptedFile
  <1>6. DrainedFirst'
    BY DEF VarsTyped, BuiltInOrder, DrainedFirst
  <1>7. CallsSurviveShutdown'
    BY <1>1 DEF VarsTyped, BuiltInOrder, DrainedFirst, CallsSurviveShutdown
  <1>. QED BY <1>2, <1>3, <1>4, <1>5, <1>6, <1>7, InvPartsNext

LEMMA InvStep == LifecycleInv /\ [Next]_vars => LifecycleInv'
  <1>. SUFFICES ASSUME LifecycleInv, [Next]_vars PROVE LifecycleInv'
    OBVIOUS
  <1>1. CASE Dies
    BY <1>1, EndStep
  <1>2. CASE UNCHANGED vars
    <2>1. /\ UNCHANGED <<host, phase, exit, clock, redisUp, km, backfill, callers, creds, bg>>
          /\ UNCHANGED <<grpc, http, rpc, forced>>
          /\ Cfg' = Cfg /\ UnusableSetting' = UnusableSetting /\ AgeLimited' = AgeLimited
      BY <1>2 DEF vars, setupVars, serverVars, Cfg, UnusableSetting, AgeLimited
    <2>2. TypeOK'
      BY <2>1 DEF LifecycleInv, TypeOK
    <2>3. BuiltInOrder' /\ FromAcceptedFile'
      BY <2>1 DEF LifecycleInv, BuiltInOrder, FromAcceptedFile
    <2>4. DrainedFirst' /\ CallsSurviveShutdown'
      BY <2>1 DEF LifecycleInv, DrainedFirst, CallsSurviveShutdown
    <2>. QED BY <2>2, <2>3, <2>4 DEF LifecycleInv
  <1>3. CASE ~Dies /\ Main
    BY <1>3, FirstStartupSteps, BackfillAndTLSSteps, LoadCallersStep, LastStartupSteps,
       DrainSteps, DrainTimeoutStep, StopSteps DEF Main
  <1>4. CASE ~Dies /\ (\/ \E g \in Goroutines : NewTicker(g) \/ ReturnOnCancel(g)
                       \/ ServeGRPC \/ ServeHTTP
                       \/ \E r \in Rpc : Call(r) \/ Answer(r) \/ AgeOut(r))
    BY <1>4, TickerSteps, ServeSteps, CallSteps
  <1>5. CASE ~Dies /\ (Signal \/ GracefulStop \/ Tick \/ RedisChanges \/ KeysChange)
    BY <1>5, DrainSteps, TickStep, EnvironmentSteps
  <1>. QED BY <1>1, <1>2, <1>3, <1>4, <1>5 DEF Next

\* The invariant holds of every process, whatever fails and whenever the signal
\* comes.
THEOREM LifecycleHolds == Spec => []LifecycleInv
  BY InvInit, InvStep, PTL DEF Spec

\* The process is type correct, and its progress agrees with what it has built.
THEOREM LifecycleTypeCorrect == Spec => []TypeOK
  <1>1. LifecycleInv => TypeOK
    BY DEF LifecycleInv
  <1>. QED BY <1>1, LifecycleHolds, PTL

\* A graceful shutdown loses no call by itself, connections are closed for their age
\* only where the settings limit it, and only a duration that no ticker or no jitter
\* can be made of brings a configured process down.
THEOREM ShutdownSparesCalls == Spec => []CallsSurviveShutdown
  <1>1. LifecycleInv => CallsSurviveShutdown
    BY DEF LifecycleInv
  <1>. QED BY <1>1, LifecycleHolds, PTL

-----------------------------------------------------------------------------
(***************************************************************************)
(* Configuration, caller registry and readiness.                           *)
(***************************************************************************)
LEMMA LeastElement ==
    ASSUME NEW S \in SUBSET Nat, S # {}
    PROVE  Min(S) \in S
  <1>1. PICK x \in S : \A y \in S : ~(<<y, x>> \in OpToRel(<, Nat))
    BY NatLessThanWellFounded, WFMin
  <1>2. \A y \in S : ~(y < x)
    BY <1>1 DEF OpToRel
  <1>3. \A y \in S : x =< y
    BY <1>2
  <1>. QED BY <1>3 DEF Min

LEMMA CheckMessages ==
    ASSUME NEW env
    PROVE  DOMAIN Checks(env) = 1 .. 9 /\ \A i \in 1 .. 9 : Checks(env)[i][2] # ""
  <1>1. DOMAIN Checks(env) = 1 .. 9
    BY DEF Checks
  <1>2. /\ Checks(env)[1][2] # "" /\ Checks(env)[2][2] # "" /\ Checks(env)[3][2] # ""
        /\ Checks(env)[4][2] # "" /\ Checks(env)[5][2] # "" /\ Checks(env)[6][2] # ""
        /\ Checks(env)[7][2] # "" /\ Checks(env)[8][2] # "" /\ Checks(env)[9][2] # ""
    BY DEF Checks
  <1>3. \A i \in 1 .. 9 : i = 1 \/ i = 2 \/ i = 3 \/ i = 4 \/ i = 5 \/ i = 6 \/ i = 7 \/ i = 8 \/ i = 9
    OBVIOUS
  <1>. QED BY <1>1, <1>2, <1>3

\* A failing check makes Load refuse: the first one's message is not "".
LEMMA CheckRefuses ==
    ASSUME NEW env, NEW k \in 1 .. 9, Checks(env)[k][1]
    PROVE  LoadError(env) # ""
  <1>. DEFINE failing == {i \in DOMAIN Checks(env) : Checks(env)[i][1]}
  <1>1. DOMAIN Checks(env) = 1 .. 9
    BY CheckMessages
  <1>2. \A i \in 1 .. 9 : Checks(env)[i][2] # ""
    BY CheckMessages
  <1>3. failing \subseteq Nat /\ failing # {}
    BY <1>1
  <1>4. Min(failing) \in 1 .. 9
    <2>1. Min(failing) \in failing
      BY <1>3, LeastElement
    <2>. QED BY <1>1, <2>1
  <1>5. LoadError(env) = Checks(env)[Min(failing)][2]
    BY <1>3 DEF LoadError
  <1>. QED BY <1>2, <1>4, <1>5

LEMMA CredentialChecksRefuse ==
    ASSUME NEW env
    PROVE  Checks(env)[5][1] \/ Checks(env)[9][1] => LoadError(env) # ""
  <1>1. 5 \in 1 .. 9 /\ 9 \in 1 .. 9
    OBVIOUS
  <1>. QED BY <1>1, CheckRefuses

LEMMA AcceptedEnvironment ==
    ASSUME NEW env, LoadError(env) = ""
    PROVE  /\ TLSMode(env) = "mtls" => env.callerRegistry # ""
           /\ TLSMode(env) # "mtls" => env.callerKeys # <<>>
  <1>1. ~Checks(env)[5][1] /\ ~Checks(env)[9][1]
    BY CredentialChecksRefuse
  <1>2. /\ Checks(env)[5][1] = (TLSMode(env) # "mtls" /\ env.callerKeys = <<>>)
        /\ Checks(env)[9][1] = (TLSMode(env) = "mtls" /\ env.callerRegistry = "")
    BY DEF Checks
  <1>. QED BY <1>1, <1>2

\* From the moment clients can connect, the service is complete and guarded, for
\* every environment and every caller file.
THEOREM ServiceAlwaysGuarded == Spec => []GuardedService
  <1>1. LifecycleInv => GuardedService
    <2>. SUFFICES ASSUME LifecycleInv, exit = "no", grpc # "off"
                  PROVE  /\ km # "none"
                         /\ Cfg.BackfillExpiryIndex => backfill # "none"
                         /\ Cfg.TLSMode = "mtls" => creds /\ callers.kind = "static"
                         /\ Cfg.TLSMode = "disabled" => DOMAIN Cfg.StaticCallerKeys # {}
      BY DEF GuardedService
    <2>1. phase \in Listening /\ host \in Hosts
      BY DEF LifecycleInv, BuiltInOrder, TypeOK
    <2>2. phase \in Tenanted \cap Backfilled \cap TLSLoaded \cap CallersKnown /\ phase # "load"
      BY <2>1 DEF Listening, Backgrounded, CallersKnown, TLSLoaded, Backfilled, Tenanted, Shutdown
    <2>3. LoadError(host.env) = ""
      BY <2>2 DEF LifecycleInv, BuiltInOrder
    <2>4. /\ Cfg.TLSMode = TLSMode(host.env)
          /\ Cfg.CallerRegistryPath = host.env.callerRegistry
          /\ Cfg.StaticCallerKeys = StaticCallerKeys(host.env)
      BY DEF Cfg, Config
    <2>5. Cfg.TLSMode = "mtls" => creds /\ callers.kind = "static"
      BY <2>2, <2>3, <2>4, AcceptedEnvironment DEF LifecycleInv, BuiltInOrder
    <2>6. Cfg.TLSMode = "disabled" => DOMAIN Cfg.StaticCallerKeys # {}
      <3>. SUFFICES ASSUME Cfg.TLSMode = "disabled" PROVE DOMAIN Cfg.StaticCallerKeys # {}
        OBVIOUS
      <3>1. host.env.callerKeys \in Seq(Seq(STRING)) /\ host.env.callerKeys # <<>>
        BY <2>1, <2>3, <2>4, AcceptedEnvironment, LifecycleAssumption
      <3>2. 1 \in DOMAIN host.env.callerKeys
        BY <3>1
      <3>3. PairKey(host.env.callerKeys[1]) \in DOMAIN StaticCallerKeys(host.env)
        BY <3>2 DEF StaticCallerKeys, ToSet
      <3>. QED BY <2>4, <3>3
    <2>7. km # "none" /\ (Cfg.BackfillExpiryIndex => backfill # "none")
      BY <2>2 DEF LifecycleInv, BuiltInOrder
    <2>. QED BY <2>5, <2>6, <2>7
  <1>. QED BY <1>1, LifecycleHolds, PTL

LEMMA MaxOfOne == ASSUME NEW k \in Nat PROVE Max({k}) = k
  BY DEF Max

\* The registry built from an accepted file, entry by entry.
LEMMA RegistryOfFile ==
    ASSUME NEW file, file.entries \in Seq([identity : STRING, tenants : Seq(STRING)]),
           CallerFileAccepted(file)
    PROVE  LET allowed == NewStaticCallerRegistry(file.entries).allowed IN
           /\ DOMAIN allowed = {e.identity : e \in ToSet(file.entries)}
           /\ \A e \in ToSet(file.entries) : allowed[e.identity] = ToSet(e.tenants)
  <1>. DEFINE entries == file.entries
              allowed == NewStaticCallerRegistry(entries).allowed
              With(i) == {n \in DOMAIN entries : entries[n].identity = i}
  <1>1. allowed = [i \in {e.identity : e \in ToSet(entries)} |-> ToSet(entries[Max(With(i))].tenants)]
    BY DEF NewStaticCallerRegistry
  <1>2. ASSUME NEW e \in ToSet(entries)
        PROVE  allowed[e.identity] = ToSet(e.tenants)
    <2>1. PICK k \in DOMAIN entries : entries[k] = e
      BY DEF ToSet
    <2>2. With(e.identity) = {k}
      BY <2>1 DEF CallerFileAccepted
    <2>3. k \in Nat
      BY <2>1
    <2>4. Max({k}) = k
      BY <2>3, MaxOfOne
    <2>5. e.identity \in {f.identity : f \in ToSet(entries)}
      OBVIOUS
    <2>6. allowed[e.identity] = ToSet(entries[Max(With(e.identity))].tenants)
      BY <1>1, <2>5
    <2>. QED BY <2>1, <2>2, <2>4, <2>6
  <1>. QED BY <1>1, <1>2

\* The caller registry grants exactly what its file grants, for every file that
\* is accepted.
THEOREM RegistryExact == Spec => []GrantsExact
  <1>1. LifecycleInv => GrantsExact
    <2>. SUFFICES ASSUME LifecycleInv, callers.kind = "static"
                  PROVE  UNION {{i} \X callers.allowed[i] : i \in DOMAIN callers.allowed}
                           = UNION {{e.identity} \X ToSet(e.tenants) :
                                    e \in ToSet(host.callers.entries)}
      BY DEF GrantsExact
    <2>. DEFINE entries == host.callers.entries
                Granted == UNION {{i} \X callers.allowed[i] : i \in DOMAIN callers.allowed}
                Listed  == UNION {{e.identity} \X ToSet(e.tenants) : e \in ToSet(entries)}
    <2>1. /\ CallerFileAccepted(host.callers)
          /\ callers = NewStaticCallerRegistry(entries)
          /\ entries \in Seq([identity : STRING, tenants : Seq(STRING)])
      BY LifecycleAssumption DEF LifecycleInv, FromAcceptedFile, TypeOK
    <2>2. /\ DOMAIN callers.allowed = {e.identity : e \in ToSet(entries)}
          /\ \A e \in ToSet(entries) : callers.allowed[e.identity] = ToSet(e.tenants)
      BY <2>1, RegistryOfFile
    <2>3. ASSUME NEW g \in Granted PROVE g \in Listed
      BY <2>2
    <2>4. ASSUME NEW g \in Listed PROVE g \in Granted
      BY <2>2
    <2>. QED BY <2>3, <2>4
  <1>. QED BY <1>1, LifecycleHolds, PTL

\* While a client waits for an answer, the HTTP server is not closed and neither of
\* its endpoints says that the key manager is gone.
THEOREM EndpointsStayUp == Spec => []EndpointsOutliveCalls
  <1>1. LifecycleInv => EndpointsOutliveCalls
    <2>. SUFFICES ASSUME LifecycleInv, exit = "no", NEW r \in Rpc, rpc[r] = "running"
                  PROVE  /\ http # "closed"
                         /\ JWKSHandler # "key manager unavailable"
                         /\ ReadyHandler(TRUE) = "key_availability" => km = "keyless"
      BY DEF EndpointsOutliveCalls
    <2>1. http # "closed" /\ km # "stopped" /\ grpc # "off"
      BY DEF LifecycleInv, DrainedFirst, Shutdown
    <2>2. km \in {"running", "keyless"}
      BY <2>1 DEF LifecycleInv, TypeOK, BuiltInOrder, Listening, Backgrounded, CallersKnown,
                  TLSLoaded, Backfilled, Tenanted
    <2>3. JWKSHandler # "key manager unavailable"
      BY <2>1 DEF JWKSHandler
    <2>4. ASSUME km = "running" PROVE ReadyHandler(TRUE) # "key_availability"
      <3>. DEFINE failing == {i \in DOMAIN Checkers(TRUE) : ~Checkers(TRUE)[i][2]}
      <3>1. DOMAIN Checkers(TRUE) = 1 .. 4
        BY DEF Checkers
      <3>2. Checkers(TRUE)[4][2]
        BY <2>4 DEF Checkers
      <3>3. failing \subseteq 1 .. 3
        <4>1. ASSUME NEW i \in failing PROVE i \in 1 .. 4 /\ i # 4
          BY <3>1, <3>2
        <4>. HIDE DEF failing
        <4>2. ASSUME NEW i \in failing PROVE i \in 1 .. 3
          BY <4>1
        <4>. QED BY <4>2
      <3>4. \A i \in 1 .. 3 : Checkers(TRUE)[i][1] # "key_availability"
        BY DEF Checkers
      <3>5. CASE failing = {}
        BY <3>5 DEF ReadyHandler
      <3>6. CASE failing # {}
        <4>1. Min(failing) \in failing
          <5>. HIDE DEF failing
          <5>1. failing \in SUBSET Nat
            BY <3>3
          <5>. QED BY <3>6, <5>1, LeastElement
        <4>2. ReadyHandler(TRUE) = Checkers(TRUE)[Min(failing)][1]
          BY <3>6 DEF ReadyHandler
        <4>. QED BY <3>3, <3>4, <4>1, <4>2
      <3>. QED BY <3>5, <3>6
    <2>. QED BY <2>1, <2>2, <2>3, <2>4
  <1>. QED BY <1>1, LifecycleHolds, PTL
=============================================================================
