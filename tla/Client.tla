------------------------------- MODULE Client -------------------------------
(***************************************************************************)
(* NewClient (client/client.go): how its options become transport          *)
(* credentials, a dial error or a chain of interceptors, and what metadata *)
(* a call then carries.                                                    *)
(*                                                                         *)
(* An option is a record [opt, arg].  WithMTLS's arg holds the certificate *)
(* path and what loading the three files finds.  A user's interceptor is   *)
(* any function; what it can do to the metadata of a call is a record      *)
(* [replaces, pair]: it appends the pair to what the context carries, or   *)
(* puts the pair in its place.  Metadata is a sequence of <<name, value>>  *)
(* pairs.  API keys are sequences of their "="-separated segments, as in   *)
(* Config; <<"">> is the empty string.                                     *)
(***************************************************************************)
EXTENDS Naturals, Sequences, SequencesExt

NoKey == <<"">>

DefaultDialConfig ==
    [certFile |-> "", files |-> "ok", plaintext |-> FALSE, staticKey |-> NoKey,
     connectTimeout |-> 10, interceptors |-> <<>>]

\* opt(cfg), one alternative per option constructor
Apply(cfg, o) ==
    CASE o.opt = "WithMTLS"             -> [cfg EXCEPT !.certFile = o.arg.certFile,
                                                       !.files = o.arg.files]
      [] o.opt = "WithPlaintext"        -> [cfg EXCEPT !.plaintext = TRUE]
      [] o.opt = "WithStaticKey"        -> [cfg EXCEPT !.staticKey = o.arg]
      [] o.opt = "WithConnectTimeout"   -> [cfg EXCEPT !.connectTimeout = o.arg]
      [] o.opt = "WithUnaryInterceptor" -> [cfg EXCEPT !.interceptors = Append(@, o.arg)]

DialConfig(opts) == FoldLeft(Apply, DefaultDialConfig, opts)

\* buildTLSCredentials: what the files make of it, "" when they load
BuildTLSError(cfg) ==
    CASE cfg.files = "no_cert" -> "load client cert/key"
      [] cfg.files = "no_ca"   -> "read CA file"
      [] cfg.files = "bad_ca"  -> "ErrInvalidCA"
      [] OTHER                 -> ""

\* The transport a configuration selects: plaintext wins over certificates.
Transport(cfg) == IF cfg.plaintext THEN "disabled" ELSE "mtls"

\* The error NewClient returns instead of a client, or "".
DialError(cfg) ==
    IF cfg.plaintext THEN ""
    ELSE IF cfg.certFile = "" THEN "ErrNoCredentials"
    ELSE BuildTLSError(cfg)

\* staticKeyInterceptor: AppendToOutgoingContext, for clients with a key
StaticKeyInterceptor(key) ==
    IF key = NoKey THEN <<>>
    ELSE <<[replaces |-> FALSE, pair |-> <<"x-api-key", key>>]>>

\* Mutant: the static key is injected behind the user's interceptors.
InterceptorsKeyLast(cfg) == cfg.interceptors \o StaticKeyInterceptor(cfg.staticKey)

\* The chain given to grpc.
Interceptors(cfg) == StaticKeyInterceptor(cfg.staticKey) \o cfg.interceptors

Replacing(chain) == {i \in DOMAIN chain : chain[i].replaces}

\* The metadata of a call whose context carries md: every interceptor of the chain
\* adds its pair behind what it finds, and one that replaces loses what it finds,
\* the static key included.
Outgoing(cfg, md) ==
    LET chain == Interceptors(cfg)
        pairs == [i \in DOMAIN chain |-> chain[i].pair]
    IN  IF Replacing(chain) = {} THEN md \o pairs
        ELSE SubSeq(pairs, Max(Replacing(chain)), Len(pairs))

\* md.Get(name): where its values are, in order
Positions(md, name) == {i \in DOMAIN md : md[i][1] = name}

\* md.Get(name)[0], or the default when there is no value
FirstValue(md, name, default) ==
    IF Positions(md, name) = {} THEN default ELSE md[Min(Positions(md, name))][2]
=============================================================================
