---------------------------- MODULE MCAlgorithms ----------------------------
(* The pure algorithms: a step picks one input of one of them, and the     *)
(* invariants compare what the algorithm returns with what it should.      *)
EXTENDS Redaction, Config, WireFormats, PromNames, Records, CanonicalJson

VARIABLE case
Idle == [kind |-> "idle"]
Init == case = Idle

Text(n) == BoundedSeq({"c", " "}, n)
Spans(v) == {m \in [s : 0 .. Len(v), e : 0 .. Len(v), path : BOOLEAN] : m.s <= m.e}
PickText ==
    \E v \in Text(5) : \E a, b \in Spans(v) :
        case' = [kind |-> "text", v |-> v, matches |-> {a, b}]

\* A redacted text is the text with every token that touches a secret replaced
\* once: no character of a secret's token survives overlapping or nested matches,
\* and nothing else is lost; texts outside the scanned lengths stay as they are
\* (redact_secret_spans).
SpansExact ==
    case.kind = "text" =>
        redact_secret_spans(case.v, case.matches, 2, 4) =
            IF Len(case.v) \in 2 .. 4 THEN Reference(case.v, case.matches) ELSE case.v

Leaves == {Leaf("plain"), Leaf("secret")}
Dicts(kids) == {Node("dict", f) : f \in UNION {[S -> kids] : S \in SUBSET {"name", "password"} \ {{}}}}
Lists(kids) == {Node("list", f) : f \in UNION {[S -> kids] : S \in {{"#1"}, {"#1", "#2"}}}}
Inner == Leaves \cup Dicts(Leaves) \cup Lists(Leaves)
Paths == {<<"name">>, <<"password">>, <<"name", "password">>, <<"name", "*">>, <<"*", "name">>}
Rules == [path : Paths, mode : {"drop", "redact", "hash", "truncate"}]
PickPayload ==
    \E n \in Dicts(Inner), rules \in BoundedSeq(Rules, 1), d \in {1, 2, 8} :
        case' = [kind |-> "payload", n |-> n, rules |-> rules, depth |-> d]

\* Down to the depth limit no secret, and nothing under a sensitive key, leaves
\* sanitize_payload except where a rule decided otherwise.
SanitizeSound == case.kind = "payload" => Sanitized(case.n, case.rules, case.depth)

\* A receipt is reported for every field a rule hit and every position the default
\* pass redacted, and for nothing else.
ReceiptsExact == case.kind = "payload" => ReceiptPerRewrite(case.n, case.rules, case.depth)

\* Redaction of texts and payloads does what its rules say, and reports it.
RedactionSound == SpansExact /\ SanitizeSound /\ ReceiptsExact

-----------------------------------------------------------------------------
(* Configuration. *)

RawTexts == DOMAIN Doubled \cup {Unset, "", "true", "off", "nan", "inf", "junk"}
PickSetting ==
    \E f \in Fields, raw \in RawTexts :
        case' = [kind |-> "setting", f |-> f, env |-> [[g \in Fields |-> Unset] EXCEPT ![f] = raw]]

\* What a field's documented range admits, written from the ranges alone.
InRange(f, x) ==
    /\ x.ok /\ ~x.nan
    /\ f \in Rates => x.n \in 0 .. 2
    /\ f \in Sizes => x.n >= 0
    /\ f \in Retries => x.n <= 200
    /\ f \in Durations => x.n \in 0 .. 7200
    /\ f = "port" => x.n \in 0 .. 131070
Denotes(f, raw) ==
    IF f \in BoolTrue \cup BoolFalse
    THEN IF raw \in Truthy THEN Number(2) ELSE IF raw \in Falsy THEN Number(0) ELSE Bad
    ELSE IF f \in Rates \cup Durations \/ raw \notin {"0.5", "inf"} THEN ParseFloat(raw) ELSE Bad

\* from_env accepts a setting exactly when its text is unset, blank where blank means
\* the default, or denotes a value inside the range, and then takes that value: no NaN,
\* infinity or out-of-range number reaches the runtime, and no usable one is refused.
\* The drain's own timeout is apart: a NaN passes its checks (see the README).
SettingsSound ==
    case.kind = "setting" /\ case.f # "logs_shutdown_timeout" =>
        LET raw == case.env[case.f]
            blank == raw = "" /\ case.f \in BoolTrue \cup BoolFalse \cup {"port"}
            meant == IF raw = Unset \/ blank THEN Number(Default(case.f)) ELSE Denotes(case.f, raw)
        IN  /\ Accepted(case.env) <=> InRange(case.f, meant)
            /\ Accepted(case.env) => FromEnv(case.env)[case.f] = meant

PickExporters ==
    \E names \in BoundedSeq({"otlp", "prometheus", "none", "console"}, 3), listen \in ListenValues,
       enabled, strict \in BOOLEAN :
        case' = [kind |-> "exporters", names |-> names, listen |-> listen, enabled |-> enabled, strict |-> strict]

\* An exporter list is followed or complained about, never silently cut: every entry is
\* an exporter in force or has a warning (an error in strict mode), nothing but "none"
\* alone leaves no exporter, and a listener never runs without its reader.
ExportersSound ==
    case.kind = "exporters" =>
        LET p == ParseExporters(case.names)
            m == [enabled |-> case.enabled, listen |-> case.listen, exporters |-> p.exporters]
            given == {case.names[i] : i \in DOMAIN case.names}
        IN  /\ ValidExporters(p.exporters)
            /\ p.exporters = <<>> <=> given = {"none"}
            /\ given # {"none"} => \A n \in given : HasExporter(m, n) \/ <<"ignored", n>> \in p.warnings
            /\ given \subseteq Supported \/ given = {"none"} <=> ~RefusesExporters(case.names, TRUE)
            /\ ~RefusesExporters(case.names, FALSE)
            /\ ListenerEnabled(m) => ReaderEnabled(m)
            /\ ReaderEnabled(m) \/ OtlpReaderEnabled(m) => case.enabled

Credentials == {<<>>, <<"u", "@">>, <<"u", ":", "pw", "@">>}
Hosts == {<<>>, <<"h">>, <<"[", ":", ":", "1", "]">>}
Ports == {<<>>, <<":">>, <<":", "0">>, <<":", "1">>, <<":", "65536">>, <<":", "junk">>}
PickEndpoint ==
    \E c \in Credentials, h \in Hosts, p \in Ports, scheme \in {"http", "ftp"} :
        case' = [kind |-> "endpoint", scheme |-> scheme, c |-> c, host |-> h, p |-> p]

\* An endpoint is accepted exactly when it is absolute and its port, if it writes one,
\* is usable: the colons of credentials and of an IPv6 address are never taken for one.
EndpointSound ==
    case.kind = "endpoint" =>
        (ValidEndpoint(case.scheme, case.c \o case.host \o case.p)
            <=> case.scheme = "http" /\ case.host # <<>> /\ case.p \in {<<>>, <<":", "1">>})

OtlpUrls == {<<Unset>>} \cup BoundedSeq({"h", "/"}, 3)
PickShared ==
    \E specific, shared \in OtlpUrls :
        case' = [kind |-> "shared", specific |-> specific, shared |-> shared]

\* An endpoint in force that is not the shared variable's, although that is set, has been
\* warned about unless both say the same; a signal's path follows the shared endpoint
\* after exactly one slash.
SharingSound ==
    case.kind = "shared" =>
        LET got == ResolveEndpoint(case.specific, case.shared, <<"p">>)
            alone == ResolveEndpoint(<<Unset>>, case.shared, <<"p">>)
        IN  /\ alone # <<Unset>> /\ got # alone => Shadows(case.specific, case.shared) \/ case.specific = case.shared
            /\ alone # <<Unset>> => /\ SubSeq(alone, Len(alone) - 1, Len(alone)) = <<"/", "p">>
                                    /\ Len(alone) > 2 => alone[Len(alone) - 2] = "h"
            /\ got = <<Unset>> <=> {case.specific, case.shared} \subseteq {<<Unset>>, <<>>}

PickEntries ==
    \E es \in BoundedSeq([eq : BOOLEAN, name : {"", "a", "b"}, val : {"INFO", "WARN", "junk"}], 3) :
        case' = [kind |-> "entries", es |-> es]

\* In a list of entries the last usable one of a name counts, and no refused level does.
EntriesSound ==
    case.kind = "entries" =>
        LET at(n) == {i \in DOMAIN case.es : case.es[i].eq /\ case.es[i].name = n}
            out == ParseEntries(case.es)
        IN  /\ DOMAIN out = {n \in {"a", "b"} : at(n) # {}}
            /\ \A n \in DOMAIN out : out[n] = case.es[Max(at(n))].val
            /\ ~RefusesLevels(case.es) => \A n \in DOMAIN out : out[n] # "junk"

TlsTexts == {"", "missing", "junk", "one", "two"}
PickTls ==
    \E own, shared \in [{"ca", "cert", "key"} -> TlsTexts] :
        case' = [kind |-> "tls", env |-> "traces" :> own @@ "shared" :> shared]

\* An exporter is built exactly when each file in force for its signal can be used, and
\* whoever reads the setup error is pointed to files that are set and in force; a shared
\* file that every signal overrides never keeps an exporter from being built.
TlsSound ==
    case.kind = "tls" =>
        LET force == [k \in {"ca", "cert", "key"} |-> TlsFile(case.env, "traces", k)]
            usable == /\ "missing" \notin {force[k] : k \in DOMAIN force} /\ force["ca"] # "junk"
                      /\ force["cert"] = "" \/ force["key"] = "" \/ (force["cert"] = force["key"] /\ force["key"] # "junk")
            problems == TlsProblems(case.env, {"traces"})
        IN  /\ TlsReady(case.env, "traces") <=> usable
            /\ problems = {} <=> usable
            /\ \A p \in problems : p[2] # {} /\ \A k \in p[2] : force[k] # ""
            /\ TlsReady([case.env EXCEPT !["shared"] = force], "traces") <=> usable

Passwords == {p \in BoundedSeq({"pw", "@", ":"} \cup AuthorityEnds, 3) : p # <<>> /\ Contains(p, "pw")}
Schemes == {<<>>, <<"s", ":", "/", "/">>, <<"S", ":", "/", "/">>, <<":", "/", "/">>, <<"/", "/">>}
\* What may follow the authority, and the same as urlunsplit writes it
Tails == <<>> :> <<>> @@ <<"/">> :> <<"/">> @@ <<"/", "u", ":", "x", "@">> :> <<"/", "u", ":", "x", "@">>
         @@ <<"?">> :> <<>> @@ <<"/", "#">> :> <<"/">> @@ <<"?", "#", "f">> :> <<"#", "f">>
PickMask ==
    \/ \E scheme \in Schemes, user \in {<<>>, <<"u">>}, pw \in Passwords, host \in Hosts \cup {<<"[", "1">>},
          tail \in DOMAIN Tails :
           case' = [kind |-> "mask", scheme |-> scheme, user |-> user, pw |-> pw, host |-> host, tail |-> tail]
    \/ \E n \in 0 .. 10 : case' = [kind |-> "token", text |-> [i \in 1 .. n |-> "t"]]

\* What is printed of an endpoint has the password replaced and everything else as it
\* was or, if it could be parsed, as urlunsplit writes it, whatever "@" and ":" the
\* password contains.  A password with a raw "/", "?" or "#" is cut off by it: what
\* stands behind is no part of the authority and is printed as it is; and so is a URL
\* that begins with "//" and cannot be parsed (see the README).  Of a header value at
\* most half is shown, and nothing of one below 8 characters.
MasksSound ==
    /\ case.kind = "mask" =>
          LET out == MaskEndpoint(case.scheme \o case.user \o <<":">> \o case.pw \o <<"@">> \o case.host \o case.tail)
              broken == case.host = <<"[", "1">>
              unfound == broken /\ case.scheme = <<"/", "/">>
              parsed == case.scheme \in {<<"s", ":", "/", "/">>, <<"S", ":", "/", "/">>, <<"/", "/">>} /\ ~broken
              cuts == {i \in DOMAIN case.pw : case.pw[i] \in AuthorityEnds}
              kept == SubSeq(case.pw, Min(cuts), Len(case.pw)) \o <<"@">> \o case.host
          IN  CASE unfound /\ cuts = {} -> ~Contains(out, Stars)
                [] cuts # {} ->
                      \E i \in DOMAIN out : IsPrefix(kept, SubSeq(out, i, Len(out)))
                [] OTHER ->
                      out = (IF parsed /\ case.scheme # <<"/", "/">> THEN <<"s", ":", "/", "/">> ELSE case.scheme)
                            \o case.user \o <<":", Stars, "@">> \o case.host
                            \o (IF parsed THEN Tails[case.tail] ELSE case.tail)
    /\ case.kind = "token" =>
          LET shown == Len(SelectSeq(MaskHeader(case.text), LAMBDA c : c = "t"))
          IN  2 * shown <= Len(case.text) /\ (Len(case.text) < 8 => shown = 0)

PickResource ==
    \E pairs \in BoundedSeq([eq : BOOLEAN, key : {"", "service.name", "service.version"}, val : {"", "env", "env2"}], 2),
       name \in {"", " ", "named"}, config \in [IdentityAttrs -> {"default", "own"}] :
        case' = [kind |-> "resource", env |-> [pairs |-> pairs, name |-> name], config |-> config]

\* The identity a provider exports under is the configured one, if one was configured,
\* else the environment's, else the default: no ambient variable renames a service that
\* was named.  (A blank OTEL_SERVICE_NAME still hides a name among the attributes, and
\* an empty one there is replaced by the SDK's unknown_service.)
ResourceSound ==
    case.kind = "resource" =>
        LET out == BuildResource(case.config, case.env)
            listed(k) == {i \in DOMAIN case.env.pairs : case.env.pairs[i].eq /\ case.env.pairs[i].key = k}
            given(k) == IF k = "service.name" /\ case.env.name = "named" THEN "named"
                        ELSE IF listed(k) = {} THEN "default" ELSE case.env.pairs[Max(listed(k))].val
            blank == case.env.name = " " /\ listed("service.name") # {}
        IN  \A k \in IdentityAttrs :
               /\ case.config[k] # "default" => out[k] = "own"
               /\ case.config[k] = "default" /\ given(k) # "" /\ ~(blank /\ k = "service.name") => out[k] = given(k)

\* No configuration reaches the runtime that a documented range or form excludes, and
\* none that they admit is refused or silently changed; what is printed of it hides the
\* credentials as far as MasksSound says, and what is exported of it names the service.
ConfigSound == SettingsSound /\ ExportersSound /\ EndpointSound /\ SharingSound /\ EntriesSound /\ TlsSound
               /\ MasksSound /\ ResourceSound

-----------------------------------------------------------------------------
(* Headers. *)

Tracestates == {Absent, "ok", "bad", "long", "many"}
PickHeader ==
    \E v \in {"00", "01", "ff", "FF", "zz"}, t, s \in IdTexts, f \in {"01", "zz"}, ts, bound \in Tracestates,
       trace, span \in IdTexts \cup {Absent} :
        case' = [kind |-> "header", parts |-> <<v, t, s, f>>, ts |-> ts, bound |-> bound,
                 ids |-> [trace_id |-> trace, span_id |-> span]]

PickBaggage ==
    \E ms \in BoundedSeq([eq : BOOLEAN, key : {"", "k", "k\nx", "l"}, val : {"v", "v\nw"}], 2),
       hs \in BoundedSeq([name : {"key", "KEY", "7", "other"}, value : {"v", Absent}], 3) :
        case' = [kind |-> "baggage", ms |-> ms, hs |-> hs]

\* Nothing of an inbound header can start a log line of its own: no baggage key or value
\* keeps a line break; the last member of a key counts.  A header is the first of its
\* name in any case, and a repeated one never replaces it.
InboundSound ==
    case.kind = "baggage" =>
        LET b == ParseBaggage(case.ms)
            at(k) == {i \in DOMAIN case.ms : case.ms[i].eq /\ case.ms[i].key = k}
            named == {i \in DOMAIN case.hs : case.hs[i].name \in {"key", "KEY"}}
        IN  /\ DOMAIN b = {k \in {"k", "l"} : at(k) # {}}
            /\ \A k \in DOMAIN b : b[k] = IF case.ms[Max(at(k))].val = "v" THEN "v" ELSE "vw"
            /\ GetHeader(case.hs, "key") = IF named = {} THEN Absent ELSE case.hs[Min(named)].value

\* What goes out can be read back: an extracted context has both ids and its header or
\* none of them; an injected one names the ids that are current, to the digit, however
\* the application set them; and no tracestate that another hop must refuse for its form
\* is ever sent, nor one without a traceparent.
OutboundSound ==
    case.kind = "header" =>
        LET in == Extract(case.parts, case.ts)
            out == Inject(case.ids, case.bound)
        IN  /\ in.ids.trace_id = Absent <=> in.ids.span_id = Absent
            /\ in.traceparent = <<>> <=> in.ids = NoIds
            /\ out.traceparent # <<>> => Extract(out.traceparent, out.tracestate).ids = case.ids
            /\ out.tracestate # Absent => out.traceparent # <<>> /\ Forwardable(out.tracestate)
            /\ "0x" \notin {in.ids.trace_id, in.ids.span_id} /\ in.ids # NoIds
                  => Inject(in.ids, in.tracestate).traceparent[2] = in.ids.trace_id

\* Headers are read and written as the receiving side expects.
HeadersSound == InboundSound /\ OutboundSound

-----------------------------------------------------------------------------
(* Prometheus names and families. *)

Names == UNION {[1 .. n -> {"a", "total", "seconds", "9", "_", "."}] : n \in 1 .. 4}
PickName ==
    \E n \in Names, u \in DOMAIN UnitTokens, k \in {"counter", "gauge", "updown"}, sfx \in BOOLEAN :
        case' = [kind |-> "name", name |-> n, unit |-> u, mkind |-> k, suffixes |-> sfx]

\* A translated name is one Prometheus takes: no foreign character and no leading digit;
\* with suffixes a counter's name ends in "total" and has it once; and translating it
\* again changes nothing unless the unit is a rate.  A label is legal in the same sense
\* and never in the reserved "__" space.
NamesSound ==
    case.kind = "name" =>
        LET out == MetricName(case.name, case.unit, case.mkind, case.suffixes)
        IN  /\ out # Unusable =>
                  /\ ~Contains(out, ".") /\ out[1] \notin Digits
                  /\ case.suffixes /\ case.mkind = "counter" =>
                        /\ Last(out) = "total"
                        /\ Len(SelectSeq(TokensOf(out, {"_"}), LAMBDA t : t = <<"total">>)) = 1
                  /\ case.unit # "By/s" => MetricName(out, case.unit, case.mkind, case.suffixes) = out
            /\ \A l \in TranslateLabels({case.name}) :
                  ~Contains(l, ".") /\ l[1] \notin Digits /\ ~AllUnderscores(l)

Naming == [escapes : BOOLEAN, suffixes : BOOLEAN]
Joined(name) == \A i \in 1 .. Len(name) - 1 : {name[i], name[i + 1]} \cap {"_", ".", "a", "9"} # {}
PickUtf8Name ==
    \E n \in Names, u \in DOMAIN UnitTokens, k \in {"counter", "gauge", "updown"}, naming \in Naming, utf8 \in BOOLEAN :
        Joined(n) /\ case' = [kind |-> "utf8", name |-> n, unit |-> u, mkind |-> k, naming |-> naming, utf8 |-> utf8]

\* A scraper that did not ask for UTF-8 names never gets one, whatever the strategy; one
\* that did gets the instrument's own characters, with the same suffixes, and these do
\* not pile up when a name that has them is translated again.
Utf8Sound ==
    case.kind = "utf8" =>
        LET strategy == EffectiveStrategy(case.naming, case.utf8)
            out == Translate(case.name, case.unit, case.mkind, strategy)
        IN  /\ ~case.utf8 => out = Unusable \/ (~Contains(out, ".") /\ out[1] \notin Digits)
            /\ ~strategy.escapes /\ ~strategy.suffixes => out = case.name
            /\ ~strategy.escapes => Translate(out, case.unit, case.mkind, strategy) = out
            /\ strategy.suffixes /\ case.mkind = "counter" /\ out # Unusable => Last(out) = "total"

Chars == {"\\", "\"", "\n", "n", "a"}
PickLine == \E text \in BoundedSeq(Chars, 5) : case' = [kind |-> "line", text |-> text]

\* What a scraper reads from an escaped text: a backslash takes the next character.
ReadEscaped(s) ==
    LET step(acc, c) ==
            IF acc.open THEN [out |-> Append(acc.out, IF c = "n" THEN "\n" ELSE c), open |-> FALSE, ended |-> acc.ended]
            ELSE [out |-> IF c \in {"\\", "\""} THEN acc.out ELSE Append(acc.out, c), open |-> c = "\\",
                  ended |-> acc.ended \/ c = "\""]
    IN  FoldLeft(step, [out |-> <<>>, open |-> FALSE, ended |-> FALSE], s)
\* No help text, label value or name can end its line or its quotes, and a scraper reads
\* back exactly the text that was written.
LinesSound ==
    case.kind = "line" =>
        LET quoted == Quoted(case.text)
            body == ReadEscaped(SubSeq(quoted, 2, Len(quoted) - 1))
        IN  /\ ~Contains(quoted, "\n") /\ ~Contains(EscapeHelp(case.text), "\n")
            /\ body = [out |-> case.text, open |-> FALSE, ended |-> FALSE]

Instruments == [name : {<<"a">>, <<"a", "_", "total">>}, unit : {""}, kind : {"sum", "gauge", "exponential"},
                monotonic : BOOLEAN]
PickFamilies ==
    \E ms \in BoundedSeq(Instruments, 3), counts \in [1 .. 3 -> 0 .. 1] :
        case' = [kind |-> "families", ms |-> ms, counts |-> counts]

\* Instruments whose names translate alike share one family: it has the type of the first
\* of them, the samples of each of that type and of no other, and an instrument of
\* another type is left out; no name an exportable instrument has is missing.  A
\* histogram's buckets never decrease.
FamiliesSound ==
    case.kind = "families" =>
        LET fams == FamiliesFrom(case.ms)
            buckets == HistogramSamples(case.counts)
            exported == {i \in DOMAIN case.ms : case.ms[i].kind # "exponential"}
            nameOf(i) == MetricName(case.ms[i].name, "", TranslationKind(case.ms[i]), TRUE)
        IN  /\ DOMAIN fams = {nameOf(i) : i \in exported}
            /\ \A n \in DOMAIN fams :
                  LET meeting == {i \in exported : nameOf(i) = n}
                      alike == {i \in meeting : PromType(case.ms[i]) = fams[n].type}
                  IN  /\ Min(meeting) \in alike
                      /\ fams[n].from = [k \in 1 .. Cardinality(alike) |-> fams[n].type]
            /\ \A i \in 2 .. Len(buckets) : buckets[i - 1] <= buckets[i]

\* What a scrape exposes is legal and can be read back, and no family mixes types.
PromSound == NamesSound /\ Utf8Sound /\ FamiliesSound /\ LinesSound

-----------------------------------------------------------------------------
(* Log records. *)

Modules == UNION {[S -> {"TRACE", "DEBUG", "WARNING", "FATAL"}] : S \in SUBSET {<<>>, <<"a">>, <<"a", "b">>}}
PickLevel ==
    \E text \in DOMAIN LevelTable \cup {"junk"}, name \in BoundedSeq({"a", "b"}, 2),
       default \in {"TRACE", "DEBUG", "INFO", "WARN"}, modules \in Modules :
        case' = [kind |-> "level", text |-> text, name |-> name, default |-> default, modules |-> modules]

\* A call is emitted exactly when its severity reaches the level of the longest module
\* prefix configured for its logger, or the default: the coarser guards in front of the
\* filter (bound loggers, handlers, the DEBUG floor under TRACE) never decide otherwise.
LevelsExact ==
    case.kind = "level" =>
        (Emitted(case.text, case.name, case.default, case.modules)
            <=> ParseLevel(case.text) >= Threshold(case.name, case.default, case.modules))

Keys == {"trace_id", "level", "trace_id\n", "k", "k\n", "?", "***"}
PickFields ==
    \E n \in 0 .. 4 : \E keys \in [1 .. n -> Keys], max \in 0 .. 3, ticket \in BOOLEAN :
        /\ \A i, j \in 1 .. n : keys[i] = keys[j] => i = j
        /\ case' = [kind |-> "fields", max |-> max, ticket |-> ticket,
                    fields |-> [i \in 1 .. n |-> [key |-> keys[i], val |-> ToString(i)]]
                               \o IF ticket THEN <<[key |-> "ticket", val |-> "t"]>> ELSE <<>>]

\* However the fields are ordered, no field that needed cleaning or was cut can shadow a
\* genuine one, correlation fields and the backpressure ticket survive the attribute
\* budget, and no name is emitted twice.  A record comes out within the budget, or with
\* its control fields alone where these exceed it: they are never cut (see the README).
KeysHardened ==
    case.kind = "fields" =>
        LET out == HardenInput(case.fields, case.max)
            at(k) == out[FieldAt(out, k)].val
            clean == {i \in DOMAIN case.fields : CleanKey(case.fields[i].key) = case.fields[i].key}
            user == Len(out) - (IF case.ticket THEN 1 ELSE 0)
            control == {i \in DOMAIN case.fields : case.fields[i].key \in PriorityKeys}
        IN  /\ \A i, j \in DOMAIN out : out[i].key = out[j].key => i = j
            /\ \A i \in DOMAIN out : CleanKey(out[i].key) = out[i].key
            /\ \A i \in clean : LET f == case.fields[i] IN
                  f.key \in PriorityKeys \cup {"ticket"} \/ case.max = 0 =>
                      FieldAt(out, f.key) # 0 /\ at(f.key) = f.val
            /\ case.max > 0 => user <= Max({case.max, Cardinality(control)})
            /\ case.max > 0 /\ Cardinality(control) >= case.max /\ user > case.max =>
                  \A i \in DOMAIN out : out[i].key \in PriorityKeys \cup {"ticket"}
            /\ (\A i \in clean : case.fields[i].key # "***") /\ FieldAt(out, "***") # 0 => at("***") = Placeholder

Heaps == [1 .. 3 -> BoundedSeq(0 .. 3, 2)]
PickHeap == \E heap \in Heaps, d \in 1 .. 4 : case' = [kind |-> "heap", heap |-> heap, depth |-> d]

\* Whatever is shared or cyclic among the caller's composites, what comes out is no
\* deeper than the limit and opens every composite at most once; a tree within the limit
\* comes out whole.
ValuesBounded ==
    case.kind = "heap" =>
        LET r == CleanValue(case.heap, 1, 0, case.depth, {})
            edges == {p \in (1 .. 3) \X (1 .. 2) : p[2] <= Len(case.heap[p[1]]) /\ case.heap[p[1]][p[2]] # 0}
            target(p) == case.heap[p[1]][p[2]]
            tree == (\A p, q \in edges : target(p) = target(q) => p = q) /\ \A p \in edges : target(p) > p[1]
        IN  /\ Depth(r) <= case.depth
            /\ r.opened <= 3
            /\ tree /\ case.depth >= 3 => \A p \in edges : p[1] \in r.seen => target(p) \in r.seen

\* Hardening bounds a record and never lets a made-up field pass for a genuine one.
HardenSound == KeysHardened /\ ValuesBounded

Segments == {<<>>, <<"a">>, <<"A">>, <<"a", ".", "a">>, <<"a", "\n">>}
PickEventName ==
    \E segs \in BoundedSeq(Segments, 5), strict \in BOOLEAN :
        segs # <<>> /\ case' = [kind |-> "event", segs |-> segs, strict |-> strict]

\* A name is annotated as invalid exactly when splitting it says so (relaxed: an empty
\* segment; strict: not 3 to 5 words), although the relaxed check never splits; a name
\* built by event_name or Event, under the same mode, from segments without a dot or a
\* newline is never annotated,
\* except that a relaxed Event may have empty segments; DA(R)S fields come from its ends.
EventNamesExact ==
    case.kind = "event" =>
        LET name == JoinDots(case.segs)
            split == SplitDots(name)
            plain == \A i \in DOMAIN case.segs : ~Contains(case.segs[i], ".") /\ ~Contains(case.segs[i], "\n")
            built == EventNameAccepts(case.segs, case.strict) \/ (case.strict /\ EventAccepts(case.segs, TRUE))
        IN  /\ SchemaError(name, {"event"}, {}, FALSE) <=> \E i \in DOMAIN split : split[i] = <<>>
            /\ plain => split = case.segs
            /\ ~SchemaError(name, {"event"}, {}, TRUE) /\ plain =>
                  Len(split) \in 3 .. 5 /\ \A i \in DOMAIN split : split[i] = <<"a">>
            /\ built /\ plain => ~SchemaError(name, {"event"}, {}, case.strict)
            /\ EventAccepts(case.segs, case.strict) /\ plain =>
                  /\ DasFields(case.segs).status = Last(split)
                  /\ DasFields(case.segs).resource # <<>> => Len(split) = 4

ForeignKeys == {"msg", "msg\n", "k", "trace_id"}
PickForeign ==
    \E msg \in {"plain", "secret", "half", "bad"}, args \in {"none", "tuple", "mapping", "unreadable"},
       values \in BoundedSeq({"plain", "secret", "half", "bad"}, 2), keys \in BoundedSeq(ForeignKeys, 2),
       fits, raises, sanitize, busy \in BOOLEAN, val \in {"plain", "secret"}, max \in 0 .. 1 :
        /\ args = "none" <=> values = <<>>
        /\ \A i, j \in DOMAIN keys : keys[i] = keys[j] => i = j
        /\ case' = [kind |-> "foreign", max |-> max, sanitize |-> sanitize, busy |-> busy,
                    r |-> [msg |-> msg, args |-> args, values |-> values, fits |-> fits, raises |-> raises,
                           fields |-> [i \in DOMAIN keys |-> [key |-> keys[i], val |-> val]]]]

\* A record that bypassed the pipeline shows no secret either, in its message, in an
\* argument, in an extra, or put together from a template and its arguments; whatever
\* cannot be formatted or read, and every record logged while one is being sanitized,
\* shows the placeholder alone; and no extra passes for a field of the record itself.
ForeignSound ==
    case.kind = "foreign" =>
        LET out == SanitizeForeign(case.r, case.max, case.sanitize, case.busy)
            shown == {i \in DOMAIN out.msg : out.msg[i] # Placeholder}
            readable == case.r.args = "none" \/ (case.r.args # "unreadable" /\ case.r.fits)
        IN  /\ case.sanitize => /\ \A i \in shown : out.msg[i] # "secret"
                                /\ Cardinality({i \in shown : out.msg[i] = "half"}) < 2
                                /\ \A i \in DOMAIN out.extras : out.extras[i].val # "secret"
            /\ \A i \in shown : out.msg[i] # "bad"
            /\ case.busy \/ case.r.raises \/ ~readable => shown = {}
            /\ case.busy => out.extras = <<>>
            /\ \A i \in DOMAIN out.extras : out.extras[i].key \notin StandardKeys

Messages == [type : {"http.response.start", "http.response.body", "websocket.accept", "websocket.close"},
             code : {NotInt, 200, 404, 408, 429, 503, 504, 1000, 1011}]
PickRequest ==
    \E ms \in BoundedSeq(Messages, 3), ws \in BOOLEAN :
        /\ \A i \in DOMAIN ms : ms[i].type \in {"websocket.accept", "websocket.close"} <=> ws
        /\ case' = [kind |-> "request", ms |-> ms, ws |-> ws]

\* A request that ended without a status counts as failed, and a close code of a
\* websocket never does; what is counted as an HTTP error is a server error or a timeout
\* in the taxonomy, and only what needs attention (5xx but timeouts, 429) is critical.
RequestsSound ==
    case.kind = "request" =>
        LET code == ResponseStatus(case.ms)
            error == CountsAsError(IF case.ws THEN "WS" ELSE "GET", code)
            class == ClassifyError(FALSE, code)
            started == {i \in DOMAIN case.ms : case.ms[i].type = "http.response.start" /\ case.ms[i].code # NotInt}
        IN  /\ case.ws => ~error
            /\ ~case.ws => (error <=> started = {} \/ case.ms[Max(started)].code >= 500)
            /\ error => class.category \in {"server_error", "timeout"}
            /\ ~case.ws /\ class.severity = "critical" => error \/ code = 429

Stamps == {"service", "trace_id", "trace_id\n", "level", "exc_name", "error_type", "_trace", "k"}
PickCall ==
    \E keys \in BoundedSeq(Stamps, 3), bound \in BoundedSeq({"service", "trace_id", "level", "k"}, 1),
       trace \in {"", "live"}, raised \in {"", "E"}, method \in {"WARNING", "FATAL"},
       service \in {"", "sdk"}, human, taxonomy \in BOOLEAN, max \in {0, 1, 3} :
        /\ \A i, j \in DOMAIN keys : keys[i] = keys[j] => i = j
        /\ case' = [kind |-> "call",
                    c |-> [fields |-> [i \in DOMAIN keys |-> [key |-> keys[i], val |-> "caller"]],
                           context |-> [i \in DOMAIN bound |-> [key |-> bound[i], val |-> "bound"]],
                           trace |-> trace, raised |-> raised, method |-> method],
                    cfg |-> [service |-> service, human |-> human, taxonomy |-> taxonomy, max |-> max]]

\* Neither a caller's fields, nor what is bound to the context, nor a key that cleans
\* down to a reserved one, nor the attribute budget can make a record of a live span name
\* another trace, a record of this service name another, or a record carry a level its
\* method does not have; without anything of its own the SDK leaves the caller's values;
\* and no name comes out twice.
StampsSound ==
    case.kind = "call" =>
        LET out == Enrich(case.c, case.cfg)
            given(k) == \E i \in DOMAIN case.c.fields : case.c.fields[i].key = k
            bound(k) == \E i \in DOMAIN case.c.context : case.c.context[i].key = k
            at(k) == ValueAt(out, k)
        IN  /\ \A i, j \in DOMAIN out : out[i].key = out[j].key => i = j
            /\ case.c.trace # "" => at("trace_id") = case.c.trace
            /\ case.c.trace = "" /\ (given("trace_id") \/ bound("trace_id"))
                  => at("trace_id") = IF bound("trace_id") THEN "bound" ELSE "caller"
            /\ ~case.cfg.human /\ case.cfg.service # "" => at("service") = case.cfg.service
            /\ case.cfg.max = 0 /\ (case.cfg.human \/ case.cfg.service = "") /\ given("service") => at("service") # ""
            /\ at("level") = IF given("_trace") THEN "TRACE" ELSE IF case.c.method = "FATAL" THEN "CRITICAL" ELSE "WARN"
            /\ case.c.raised # "" => at("error_fingerprint") = case.c.raised
            /\ at("error_type") = "internal" => case.cfg.taxonomy /\ at("exc_name") # ""

\* A record that passes the processors is bounded, emitted exactly when its level says
\* so, and annotated exactly when its event name is malformed; one that bypassed them
\* shows no secret; the SDK's own fields are its own; requests are counted and classified
\* alike.
RecordsSound == LevelsExact /\ HardenSound /\ EventNamesExact /\ ForeignSound /\ RequestsSound /\ StampsSound

-----------------------------------------------------------------------------
(* Canonical JSON. *)

Numerals == {d \in UNION {[1 .. k -> {0, 1, 2}] : k \in 1 .. 3} : d[1] # 0}
PickNumber == \E d \in Numerals, e \in -10 .. 23 : case' = [kind |-> "number", digits |-> d, exp |-> e]
PickGraph ==
    \E heap \in Heaps, entries \in BoundedSeq([name : 1 .. 2, val : 1 .. 2], 2) :
        case' = [kind |-> "graph", heap |-> heap, entries |-> entries]

\* The digits and the place of the point a reader takes from a written number.
ReadBack(w) ==
    LET all == w.whole \o w.frac
        first == Min({i \in DOMAIN all : all[i] # 0})
        last == Max({i \in DOMAIN all : all[i] # 0})
    IN  [digits |-> SubSeq(all, first, last), n |-> Len(w.whole) + w.exp - first + 1]

\* The text a digest is taken of is the one every language of the project writes: a
\* number's reads back as the number and is plain exactly from 1e-6 to below 1e21, with
\* one digit before the point elsewhere; a list shared but not cyclic is written out each
\* time, and of the composites exactly a cycle becomes null; the order in which a mapping
\* was filled does not show.  (Texts do not identify values: None is null as well.)
CanonicalSound ==
    /\ case.kind = "number" =>
          LET w == FormatNumber(case.digits, case.exp)
              sig == Max({i \in DOMAIN case.digits : case.digits[i] # 0})
              power == case.exp + Len(case.digits) - 1
          IN  /\ w.exp = 0 <=> power \in -6 .. 20
              /\ w.exp # 0 => Len(w.whole) = 1
              /\ ReadBack(w) = [digits |-> SubSeq(case.digits, 1, sig), n |-> case.exp + Len(case.digits)]
              /\ w.whole # <<>> /\ (w.whole[1] = 0 => w.whole = <<0>>) /\ (w.point <=> w.frac # <<>>)
    /\ case.kind = "graph" =>
          LET kids(v) == {case.heap[v][i] : i \in DOMAIN case.heap[v]} \ {0}
              within(S) == S \cup UNION {kids(v) : v \in S}
              below(v) == within(within(within(kids(v))))
          IN  /\ Contains(Canonical(case.heap, 1, {}), "null") <=> \E v \in {1} \cup below(1) : v \in below(v)
              /\ NamedPairs(case.entries) = NamedPairs(Reverse(case.entries))

Next == case = Idle /\ (PickText \/ PickPayload \/ PickSetting \/ PickExporters \/ PickEndpoint \/ PickShared \/ PickEntries
                         \/ PickTls \/ PickHeader \/ PickBaggage \/ PickName \/ PickUtf8Name \/ PickFamilies
                         \/ PickLine \/ PickForeign \/ PickRequest \/ PickCall \/ PickMask \/ PickResource
                         \/ PickLevel \/ PickFields \/ PickHeap \/ PickEventName
                         \/ PickNumber \/ PickGraph)
Spec == Init /\ [][Next]_case
=============================================================================
