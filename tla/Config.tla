------------------------------- MODULE Config -------------------------------
(***************************************************************************)
(* config.Load (internal/config/config.go): the environment a process is   *)
(* started with, the errors that refuse it, and the configuration the rest *)
(* of the service runs on.                                                 *)
(*                                                                         *)
(* A string variable is a string, "" when unset.  A variable that is       *)
(* parsed (durations, in nanoseconds; an integer; a boolean) is Unset,     *)
(* <<v>> when its text parses to v, or Unparsable.  TOKEN_ENGINE_STATIC_   *)
(* CALLER_KEYS is the sequence of its ","-separated pairs, each pair the   *)
(* sequence of its "="-separated segments; <<>> is the empty string.       *)
(***************************************************************************)
EXTENDS Integers, Sequences, SequencesExt, FiniteSetsExt

Unset      == <<>>
Unparsable == <<"not", "parsable">>

\* A parse failure is logged and the default used, as for an unset variable.
ParseOr(setting, default) == IF Len(setting) = 1 THEN setting[1] ELSE default
StringOr(s, default)      == IF s = "" THEN default ELSE s

TLSMode(env) == StringOr(env.tlsMode, "mtls")

(***************************************************************************)
(* The static caller keys.  A pair is split at its last "=": the key is    *)
(* everything before it, "=" signs included, and the identity what follows.*)
(***************************************************************************)
\* Mutant: the pair is split at its first "=".
PairKeyFirst(p) == <<p[1]>>

ValidPair(p)    == Len(p) >= 2 /\ Front(p) # <<"">> /\ Last(p) # ""
PairKey(p)      == Front(p)
PairIdentity(p) == Last(p)

\* The map the loop builds: a key listed again takes its last identity.
StaticCallerKeys(env) ==
    LET pairs == env.callerKeys IN
    [k \in {PairKey(p) : p \in ToSet(pairs)} |->
        PairIdentity(pairs[Max({i \in DOMAIN pairs : PairKey(pairs[i]) = k})])]

(***************************************************************************)
(* Fatal validation, before any default is applied: the first failing      *)
(* check decides, "" is acceptance.                                        *)
(***************************************************************************)
Checks(env) ==
    LET mtls == TLSMode(env) = "mtls" IN
    << <<env.issuer = "", "ErrIssuerEmpty">>,
       <<env.audience = "", "ErrAudienceEmpty">>,
       <<TLSMode(env) \notin {"mtls", "disabled"}, "ErrInvalidTLSMode">>,
       <<\E p \in ToSet(env.callerKeys) : ~ValidPair(p), "ErrStaticCallerKeysFormat">>,
       <<~mtls /\ env.callerKeys = <<>>, "ErrStaticCallerKeysEmpty">>,
       <<mtls /\ env.certFile = "", "ErrTLSCertFileEmpty">>,
       <<mtls /\ env.keyFile = "", "ErrTLSKeyFileEmpty">>,
       <<mtls /\ env.caFile = "", "ErrTLSCAFileEmpty">>,
       <<mtls /\ env.callerRegistry = "", "ErrCallerRegistryPathEmpty">> >>

\* Mutant: the caller registry is optional in every mode.
LoadErrorWithoutRegistryCheck(env) ==
    LET failing == {i \in DOMAIN Checks(env) : Checks(env)[i][1]} \ {9} IN
    IF failing = {} THEN "" ELSE Checks(env)[Min(failing)][2]

LoadError(env) ==
    LET failing == {i \in DOMAIN Checks(env) : Checks(env)[i][1]} IN
    IF failing = {} THEN "" ELSE Checks(env)[Min(failing)][2]

(***************************************************************************)
(* The configuration Load returns for an environment it accepts.  Strings  *)
(* and numbers are not judged further: a duration may be zero or negative. *)
(***************************************************************************)
\* A second of 1000 nanoseconds keeps the defaults within 32 bits; what the
\* service does with a duration tells only zero, ten nanoseconds and more apart.
Second == 1000
Minute == 60 * Second

DurationDefaults ==
    [IdempotencyTTL         |-> 24 * 60 * Minute,
     MaxConnectionAge       |-> 30 * Minute,
     MaxConnectionAgeGrace  |-> 5 * Minute,
     JWKSCacheMaxAge        |-> 5 * Minute,
     LockTTL                |-> 30 * Second,
     ReconciliationInterval |-> 5 * Minute,
     RotationWindowGuard    |-> 1 * Minute]

\* Mutant: an unset guard is a zero guard.
DurationsWithoutDefaults(env) ==
    [d \in DOMAIN DurationDefaults |-> ParseOr(env.durations[d], 0)]

Durations(env) ==
    [d \in DOMAIN DurationDefaults |->
        ParseOr(env.durations[d], DurationDefaults[d])]

Config(env) ==
    [Issuer              |-> env.issuer,
     Audience            |-> env.audience,
     TLSMode             |-> TLSMode(env),
     StaticCallerKeys    |-> StaticCallerKeys(env),
     TLSCertFile         |-> env.certFile,
     TLSKeyFile          |-> env.keyFile,
     TLSCAFile           |-> env.caFile,
     CallerRegistryPath  |-> env.callerRegistry,
     GRPCAddr            |-> StringOr(env.grpcAddr, ":9090"),
     HTTPAddr            |-> StringOr(env.httpAddr, ":8080"),
     OTLPEndpoint        |-> env.otlp,
     RedisAddr           |-> StringOr(env.redisAddr, "localhost:6379"),
     RedisPassword       |-> env.redisPassword,
     RedisDB             |-> ParseOr(env.redisDB, 0),
     Durations           |-> Durations(env),
     BackfillExpiryIndex |-> ParseOr(env.backfill, FALSE)]
=============================================================================
