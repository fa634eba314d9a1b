------------------------------- MODULE Records ------------------------------
(***************************************************************************)
(* What happens to one log record on its way through the pipeline: which   *)
(* calls pass the level guards (levels.py, core.py, processors.py), how    *)
(* hardening bounds keys, counts and nesting and the SDK stamps its own    *)
(* fields (processors.py), what is shown                                   *)
(* of records that bypassed the pipeline, how a request is classified, and  *)
(* which event names are well formed (schema/events.py).                   *)
(***************************************************************************)
EXTENDS Integers, Sequences, FiniteSets, FiniteSetsExt, SequencesExt

-----------------------------------------------------------------------------
(* Levels: the rank of a severity, TRACE lowest. *)

TraceRank == 0
DebugRank == 1
InfoRank == 2
LevelTable == "TRACE" :> 0 @@ "DEBUG" :> 1 @@ "INFO" :> 2 @@ "WARN" :> 3 @@ "WARNING" :> 3 @@ "ERROR" :> 4
              @@ "CRITICAL" :> 5 @@ "FATAL" :> 5
\* parse_level: an unknown text ranks INFO
ParseLevel(text) == IF text \in DOMAIN LevelTable THEN LevelTable[text] ELSE InfoRank

\* _configure_logging_inner: handlers and bound loggers filter at the lowest level any
\* module may log at.
EffectiveLevel(default, modules) == Min({ParseLevel(default)} \cup {ParseLevel(modules[m]) : m \in DOMAIN modules})

\* _make_filtering_bound_logger and _TraceWrapper.log: structlog is floored at DEBUG,
\* and TRACE goes through debug() only where TRACE is enabled.
BoundLoggerPasses(s, level) ==
    IF s <= TraceRank THEN level <= TraceRank ELSE s >= Max({level, DebugRank})

\* _LevelFilter: the longest configured prefix of the logger's name decides; <<>> is the
\* prefix "" that matches every logger.
Threshold(name, default, modules) ==
    LET prefixes == {m \in DOMAIN modules : IsPrefix(m, name)}
    IN  IF prefixes = {} THEN ParseLevel(default)
        ELSE ParseLevel(modules[CHOOSE m \in prefixes : \A p \in prefixes : Len(p) <= Len(m)])
LevelFilterPasses(s, name, default, modules) ==
    DOMAIN modules = {} \/ s >= Threshold(name, default, modules)

\* A call log(text, ...) of logger name leaves the level guards.
Emitted(text, name, default, modules) ==
    /\ BoundLoggerPasses(ParseLevel(text), EffectiveLevel(default, modules))
    /\ LevelFilterPasses(ParseLevel(text), name, default, modules)

-----------------------------------------------------------------------------
(* Hardening the keys.  A record is a sequence of fields [key, val]; "k\n"   *)
(* and "trace_id\n" are keys with a control character, "?" a key whose       *)
(* __str__ raises.                                                           *)

Placeholder == "***"
CleanKey(k) == CASE k = "k\n" -> "k" [] k = "trace_id\n" -> "trace_id" [] k = "msg\n" -> "msg" [] k = "?" -> Placeholder [] OTHER -> k
PriorityKeys == {"level", "trace_id", "logger_name"}
FieldAt(fields, k) == SelectInSeq(fields, LAMBDA f : f.key = k)
PutField(fields, k, v) ==
    IF FieldAt(fields, k) = 0 THEN Append(fields, [key |-> k, val |-> v])
    ELSE [fields EXCEPT ![FieldAt(fields, k)].val = v]

\* Bug: the last field of a cleaned name wins.
HardenKeysLastWins(fields) ==
    FoldLeft(LAMBDA out, f : PutField(out, CleanKey(f.key), IF f.key = "?" THEN Placeholder ELSE f.val), <<>>, fields)

\* _harden_keys: a cleaned key never displaces one that is there, an untouched key
\* takes its name back from a cleaned one, in place.
HardenKeys(fields) ==
    LET step(acc, f) ==
            LET name == CleanKey(f.key)
                untouched == name = f.key
                val == IF f.key = "?" THEN Placeholder ELSE f.val
            IN  IF FieldAt(acc.out, name) # 0 /\ ~(untouched /\ name \notin acc.verbatim) THEN acc
                ELSE [out |-> PutField(acc.out, name, val),
                      verbatim |-> acc.verbatim \cup (IF untouched THEN {name} ELSE {})]
    IN  FoldLeft(step, [out |-> <<>>, verbatim |-> {}], fields).out

\* harden_input on the fields: priority keys first, then as many others as fit, then
\* the keys.  The ticket is set aside meanwhile and put back.
WithinBudget(fields, max) ==
    LET priority == SelectSeq(fields, LAMBDA f : f.key \in PriorityKeys)
        others == SelectSeq(fields, LAMBDA f : f.key \notin PriorityKeys)
        room == Max({0, max - Len(priority)})
    IN  IF max > 0 /\ Len(fields) > max THEN priority \o SubSeq(others, 1, Min({room, Len(others)})) ELSE fields
HardenInput(fields, max) ==
    LET own == SelectSeq(fields, LAMBDA f : f.key = "ticket")
    IN  HardenKeys(WithinBudget(SelectSeq(fields, LAMBDA f : f.key # "ticket"), max)) \o own

-----------------------------------------------------------------------------
(* Hardening the values.  A heap maps the id of a composite to the sequence  *)
(* of what it holds: ids again, or 0 for a text.                             *)

\* _clean_value: a composite at the depth limit, or met before in this record, becomes
\* the placeholder; others are opened.  "opened" counts those, "out" nests them.
RECURSIVE CleanValue(_, _, _, _, _)
CleanValue(heap, v, depth, maxDepth, seen) ==
    LET kids(acc, w) ==
            LET r == CleanValue(heap, w, depth + 1, maxDepth, acc.seen)
            IN  [seen |-> r.seen, out |-> Append(acc.out, r), opened |-> acc.opened + r.opened]
    IN  IF v = 0 \/ depth >= maxDepth \/ v \in seen THEN [seen |-> seen, out |-> <<>>, opened |-> 0]
        ELSE FoldLeft(kids, [seen |-> seen \cup {v}, out |-> <<>>, opened |-> 1], heap[v])
RECURSIVE Depth(_)
Depth(r) == IF r.opened = 0 THEN 0 ELSE 1 + Max({0} \cup {Depth(r.out[i]) : i \in DOMAIN r.out})

-----------------------------------------------------------------------------
(* Enrichment: the stages that write fields of their own, in the order       *)
(* _configure_logging_inner chains them.  "" is an absent value.             *)

ValueAt(fields, k) == IF FieldAt(fields, k) = 0 THEN "" ELSE fields[FieldAt(fields, k)].val
CanonicalNames == <<"TRACE", "DEBUG", "INFO", "WARN", "ERROR", "CRITICAL">>

\* merge_runtime_context: the bound context, then the live trace, over the caller's
MergeContext(fields, context, trace) ==
    LET merged == FoldLeft(LAMBDA acc, f : PutField(acc, f.key, f.val), fields, context)
    IN  IF trace = "" THEN merged ELSE PutField(merged, "trace_id", trace)
\* inject_logger_name: a name the caller gave stands
InjectLoggerName(fields, name) ==
    PutField(fields, "logger_name", IF ValueAt(fields, "logger_name") = "" THEN name ELSE ValueAt(fields, "logger_name"))
\* add_log_level writes the method's name over the caller's level, and
\* canonicalize_level its canonical spelling; trace() is debug() with _trace set.
CanonicalizeLevel(fields, method) ==
    PutField(fields, "level", IF ValueAt(fields, "_trace") # "" THEN CanonicalNames[TraceRank + 1]
                              ELSE CanonicalNames[ParseLevel(method) + 1])
\* _stamp: what the SDK knows replaces the caller's, what it does not know does not
StampIdentity(fields, service) ==
    IF service = "" /\ FieldAt(fields, "service") # 0 THEN fields ELSE PutField(fields, "service", service)
\* add_standard_fields; the taxonomy is that of classify_error
AddStandardFields(fields, cfg) ==
    LET stamped == IF cfg.human THEN fields ELSE StampIdentity(fields, cfg.service)
    IN  IF cfg.taxonomy /\ FieldAt(stamped, "error_type") = 0 /\ FieldAt(stamped, "exc_name") # 0
        THEN PutField(stamped, "error_type", "internal") ELSE stamped
\* add_error_fingerprint: of the exception at hand, or of the name the caller gave
AddFingerprint(fields, raised) ==
    LET name == IF raised = "" THEN ValueAt(fields, "exc_name") ELSE raised
    IN  IF name = "" THEN fields ELSE PutField(fields, "error_fingerprint", name)

Enrich(c, cfg) ==
    LET entered == CanonicalizeLevel(InjectLoggerName(MergeContext(c.fields, c.context, c.trace), "logger"), c.method)
    IN  AddFingerprint(AddStandardFields(HardenInput(entered, cfg.max), cfg), c.raised)

-----------------------------------------------------------------------------
(* Foreign records, from plain stdlib loggers (_foreign_records.py).  A      *)
(* value is "plain", "secret", "half" (a secret once it stands behind        *)
(* another half) or "bad" (its text cannot be had).  What is shown of a      *)
(* message is the sequence of values in it.                                  *)

StandardKeys == {"msg"}
\* _Cleaner.value and .payload for one value
CleanArg(v, sanitize) == IF v = "bad" \/ (v = "secret" /\ sanitize) THEN Placeholder ELSE v
\* _Cleaner.text, for a text put together of values
CleanWhole(parts, sanitize) ==
    LET halves == {i \in DOMAIN parts : parts[i] = "half"}
    IN  [i \in DOMAIN parts |->
           IF sanitize /\ (parts[i] = "secret" \/ (i \in halves /\ Cardinality(halves) > 1)) THEN Placeholder ELSE parts[i]]
\* _message: the template with its arguments, cleaned before and after formatting.
\* args is "none", "tuple", "mapping" or "unreadable" (a mapping that raises, a list cut
\* to the placeholder, an object put there by hand); fits says whether "%" succeeds.
ForeignMessage(r, sanitize) ==
    CASE r.msg = "bad" \/ (r.args # "none" /\ (r.args = "unreadable" \/ ~r.fits)) -> <<Placeholder>>
      [] r.msg # "bad" /\ r.args = "none" -> CleanWhole(<<r.msg>>, sanitize)
      [] OTHER -> CleanWhole(<<r.msg>> \o [i \in DOMAIN r.values |-> CleanArg(r.values[i], sanitize)], sanitize)
\* _extras: a key may clean down to a standard one, which is filtered once more
Extras(fields, max, sanitize) ==
    LET custom(fs) == SelectSeq(fs, LAMBDA f : f.key \notin StandardKeys)
        kept == custom(HardenInput(custom(fields), max))
    IN  [i \in DOMAIN kept |-> [kept[i] EXCEPT !.val = CleanArg(@, sanitize)]]
\* sanitize_foreign_record: closed while this thread is already sanitizing, and when
\* anything raises.
SanitizeForeign(r, max, sanitize, busy) ==
    IF busy \/ r.raises THEN [msg |-> <<Placeholder>>, extras |-> <<>>]
    ELSE [msg |-> ForeignMessage(r, sanitize), extras |-> Extras(r.fields, max, sanitize)]

-----------------------------------------------------------------------------
(* Requests: the status the ASGI middleware settles on, and what the RED     *)
(* metrics and the error taxonomy (slo.py) make of it.  NotInt is a status   *)
(* that is not an integer.                                                   *)

NotInt == -1
\* _wrapped_send, message by message
TakeStatus(code, m) ==
    CASE m.type = "websocket.accept" -> 101
      [] m.type \in {"http.response.start", "websocket.close"} /\ m.code # NotInt -> m.code
      [] OTHER -> code
ResponseStatus(messages) == FoldLeft(TakeStatus, 500, messages)
\* record_red_metrics: close codes of a websocket are no HTTP errors
CountsAsError(method, code) == method # "WS" /\ code >= 500
\* classify_error
ClassifyError(timeout, code) ==
    CASE timeout \/ code \in {408, 504} -> [category |-> "timeout", severity |-> "info", type |-> "internal"]
      [] ~timeout /\ code >= 500 /\ code # 504 -> [category |-> "server_error", severity |-> "critical", type |-> "server"]
      [] ~timeout /\ code \in 400 .. 499 /\ code # 408 ->
            [category |-> "client_error", severity |-> IF code = 429 THEN "critical" ELSE "warning", type |-> "client"]
      [] OTHER -> [category |-> "unclassified", severity |-> "info", type |-> "internal"]

-----------------------------------------------------------------------------
(* Event names: sequences of "a" (a word the grammar takes), "A" (one it     *)
(* does not), "." and the newline "\n".  Adjacent words are one segment.     *)

SplitDots(name) ==
    FoldLeft(LAMBDA acc, c : IF c = "." THEN Append(acc, <<>>) ELSE [acc EXCEPT ![Len(acc)] = Append(@, c)],
             <<<<>>>>, name)
\* Python's "$" matches before a newline that ends the text: both patterns take one.
ChopNewline(s) == IF s # <<>> /\ Last(s) = "\n" THEN Front(s) ELSE s
Word(seg) == seg # <<>> /\ \A i \in DOMAIN seg : seg[i] = "a"
SegmentOk(seg) == Word(ChopNewline(seg))
ValidRelaxed(name) ==
    /\ name # <<>> /\ name[1] # "." /\ Last(name) # "."
    /\ \A i \in 1 .. Len(name) - 1 : ~(name[i] = "." /\ name[i + 1] = ".")
ValidStrict(name) ==
    LET segs == SplitDots(ChopNewline(name)) IN Len(segs) \in 3 .. 5 /\ \A i \in DOMAIN segs : Word(segs[i])
\* validate_event_name; the relaxed check looks for empty segments without splitting.
ValidEventName(name, strict) == IF strict THEN ValidStrict(name) ELSE ValidRelaxed(name)

JoinDots(segs) == FoldLeft(LAMBDA acc, s : acc \o <<".">> \o s, segs[1], Tail(segs))
\* event_name and Event: what the constructors accept
EventNameAccepts(segs, strict) ==
    /\ Len(segs) > 0 /\ \A i \in DOMAIN segs : segs[i] # <<>>
    /\ strict => Len(segs) \in 3 .. 5 /\ \A i \in DOMAIN segs : SegmentOk(segs[i])
EventAccepts(segs, strict) ==
    Len(segs) \in {3, 4} /\ (strict => \A i \in DOMAIN segs : SegmentOk(segs[i]))
\* inject_das_fields: the fields an Event puts on the record
DasFields(segs) == [domain |-> segs[1], action |-> segs[2], status |-> Last(segs),
                    resource |-> IF Len(segs) = 4 THEN segs[3] ELSE <<>>]
\* enforce_event_schema annotates and never drops
SchemaError(name, keys, required, strict) == ~ValidEventName(name, strict) \/ ~(required \subseteq keys)
=============================================================================
