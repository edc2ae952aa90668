----------------------------- MODULE Redaction -----------------------------
(***************************************************************************)
(* What the service writes to its log and to its spans on behalf of the    *)
(* jwtauth library: LibraryLoggerAdapter over SlogLogger                   *)
(* (internal/observability/logger.go), LibraryOtelSpan (tracer.go) and the *)
(* credential deny-list (redact.go).                                       *)
(*                                                                         *)
(* An element of a keysAndValues list is a record [kind, v]: a context     *)
(* ("ctx", v being the correlation id bound to it), a string ("str") or    *)
(* another value ("val").  An attribute is a record [key, value] of a      *)
(* string and an element.                                                  *)
(***************************************************************************)
EXTENDS Naturals, Sequences, SequencesExt

LOCAL El(kind, v) == [kind |-> kind, v |-> v]
Str(v) == El("str", v)
Val(v) == El("val", v)
Ctx(v) == El("ctx", v)

Redacted == Str("[REDACTED]")
Background == Ctx("")

LibraryRedactedKeys == {"token", "key", "cursor", "next_cursor"}

IsRedactedKey(key) == key \in LibraryRedactedKeys

SplitLeadingContext(kvs) ==
    IF kvs # <<>> /\ Head(kvs).kind = "ctx"
    THEN [ctx |-> Head(kvs), fields |-> Tail(kvs)]
    ELSE [ctx |-> Background, fields |-> kvs]

\* Mutant: every element behind a deny-listed string is taken for its value.
RedactAfterAnyKey(kvs) ==
    [i \in DOMAIN kvs |->
        IF i > 1 /\ kvs[i-1].kind = "str" /\ IsRedactedKey(kvs[i-1].v)
        THEN Redacted ELSE kvs[i]]

\* Pairing starts at the first element; a trailing key is left alone.  The
\* result is a copy as soon as it differs, so the caller's list keeps its
\* values.
RedactKeysAndValues(kvs) ==
    [i \in DOMAIN kvs |->
        IF i % 2 = 0 /\ kvs[i-1].kind = "str" /\ IsRedactedKey(kvs[i-1].v)
        THEN Redacted ELSE kvs[i]]

(***************************************************************************)
(* log/slog: a string takes the next element as its value; anything else,  *)
(* and a trailing string, becomes the value of "!BADKEY".                  *)
(***************************************************************************)
SlogAttrs(args) ==
    LET from[i \in 1 .. Len(args) + 2] ==
            IF i > Len(args) THEN <<>>
            ELSE IF args[i].kind = "str" /\ i < Len(args)
            THEN <<[key |-> args[i].v, value |-> args[i+1]]>> \o from[i+2]
            ELSE <<[key |-> "!BADKEY", value |-> args[i]]>> \o from[i+1]
    IN  from[1]

\* SlogLogger.Debug, Info, Warn and Error on a logger with attributes bound
SlogLine(bound, ctx, fields) ==
    bound \o SlogAttrs(<<Str("correlation_id"), Str(ctx.v)>> \o fields)

\* LibraryLoggerAdapter.Debug, Info, Warn and Error
AdapterLog(bound, kvs) ==
    LET split == SplitLeadingContext(kvs)
    IN  SlogLine(bound, split.ctx, RedactKeysAndValues(split.fields))

\* Mutant: a context passed to With is not looked for.
AdapterWithContext(bound, kvs) == bound \o SlogAttrs(RedactKeysAndValues(kvs))

\* LibraryLoggerAdapter.With: the attributes bound to the logger it returns
AdapterWith(bound, kvs) ==
    bound \o SlogAttrs(RedactKeysAndValues(SplitLeadingContext(kvs).fields))

\* LibraryOtelSpan.SetAttribute and SetAttributes, for a map of attributes.
\* A value that is not a string is formatted into one.
SpanAttributes(attrs) ==
    [k \in DOMAIN attrs |-> IF IsRedactedKey(k) THEN Redacted ELSE Str(attrs[k].v)]
=============================================================================
