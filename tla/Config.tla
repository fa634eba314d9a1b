------------------------------- MODULE Config -------------------------------
(***************************************************************************)
(* Settings: TelemetryConfig.from_env with its parsers and validators      *)
(* (config.py, _config_validation.py, _config_prometheus.py), the OTLP     *)
(* endpoint check (_endpoint.py) and TLS files (_otlp_tls.py), what is     *)
(* printed of a configuration (_masking.py) and exported of it             *)
(* (_resource.py).  An environment maps every scalar field to the text of  *)
(* its variable, or Unset; a text is one of a few that the parsers tell    *)
(* apart.                                                                  *)
(***************************************************************************)
EXTENDS Integers, Sequences, FiniteSets, SequencesExt

Unset == "unset"
Signals == {"logs", "traces", "metrics"}

\* The numeric texts and twice their values; NaN compares false with everything.
Doubled == "-1" :> -2 @@ "0" :> 0 @@ "0.5" :> 1 @@ "1" :> 2 @@ "101" :> 202 @@ "3601" :> 7202 @@ "65536" :> 131072
Infinity == 1000000
Number(n) == [ok |-> TRUE, nan |-> FALSE, n |-> n]
NaN == [ok |-> TRUE, nan |-> TRUE, n |-> 0]
Bad == [ok |-> FALSE, nan |-> FALSE, n |-> 0]       \* ConfigurationError
Below(x, n) == ~x.nan /\ x.n < n
Above(x, n) == ~x.nan /\ x.n > n

Truthy == {"1", "true", "yes", "on"}
Falsy == {"0", "false", "no", "off"}
Blank == {"", " "}

-----------------------------------------------------------------------------
(* The fields and their defaults. *)

Per(kind) == {s \o kind : s \in Signals}
BoolTrue == {"include_timestamp", "include_caller", "sanitize", "logs_otlp", "tracing", "metrics",
             "target_info", "error_taxonomy"} \cup Per("_fail_open")
BoolFalse == {"strict_schema", "strict_config", "code_attributes", "health_otlp", "scope_labels",
              "strict_event_name", "red_metrics", "use_metrics"} \cup Per("_allow_blocking")
Sizes == {"pii_max_depth", "max_attr_value_length", "max_attr_count", "max_nesting_depth"} \cup Per("_maxsize")
Retries == Per("_retries")
Rates == {"trace_sample_rate"} \cup Per("_rate")
ExporterFloats == Per("_backoff") \cup Per("_timeout")   \* _EXPORTER_FLOAT_FIELDS
Durations == ExporterFloats \cup {"logs_shutdown_timeout"}
ListenValues == {"false", "true", "auto"}
Fields == BoolTrue \cup BoolFalse \cup Sizes \cup Retries \cup Rates \cup Durations \cup {"port"}

Default(f) ==
    CASE f \in BoolTrue \cup Rates -> 2
      [] f \in BoolFalse \cup Retries \cup Per("_maxsize") \cup Per("_backoff") -> 0
      [] f \in {"pii_max_depth", "max_nesting_depth"} -> 16
      [] f = "max_attr_value_length" -> 2048
      [] f = "max_attr_count" -> 128
      [] f \in Per("_timeout") -> 20
      [] f = "logs_shutdown_timeout" -> 10
      [] f = "port" -> 18928

-----------------------------------------------------------------------------
(* The parsers. *)

ParseInt(raw) == IF raw \in DOMAIN Doubled \ {"0.5"} THEN Number(Doubled[raw]) ELSE Bad
ParseFloat(raw) ==
    CASE raw = "nan" -> NaN
      [] raw = "inf" -> Number(Infinity)
      [] raw \in DOMAIN Doubled -> Number(Doubled[raw])
      [] OTHER -> Bad
\* _parse_env_bool; a truth value is 2 or 0.
ParseBool(raw, default) ==
    CASE raw \in Blank -> Number(default)
      [] raw \in Truthy -> Number(2)
      [] raw \in Falsy -> Number(0)
      [] OTHER -> Bad
\* parse_duration_float
ParseDuration(raw) ==
    LET x == ParseFloat(raw) IN IF Below(x, 0) \/ Above(x, 7200) THEN Bad ELSE x

Parse(f, raw) ==
    CASE raw = Unset -> Number(Default(f))
      [] f \in BoolTrue \cup BoolFalse -> ParseBool(raw, Default(f))
      [] f \in Durations -> ParseDuration(raw)
      [] f \in Rates -> ParseFloat(raw)
      [] f = "port" -> IF raw \in Blank THEN Number(Default(f)) ELSE ParseInt(raw)
      [] OTHER -> ParseInt(raw)

\* Bug: the ranges are written as refusals, which NaN escapes.
ValidateRange(f, x) ==
    CASE f \in Rates -> ~Below(x, 0) /\ ~Above(x, 2)
      [] f \in Sizes -> ~Below(x, 0)
      [] f \in Retries -> ~Above(x, 200)
      [] f \in ExporterFloats -> x.n # Infinity /\ ~Below(x, 0)
      [] f = "port" -> ~Below(x, 0) /\ ~Above(x, 131070)
      [] OTHER -> TRUE
\* The __post_init__ validators: a rate must be inside its range, so NaN is refused
\* there; the exporter's floats must be finite.
Validate(f, x) ==
    CASE f \in Rates -> ~x.nan /\ 0 <= x.n /\ x.n <= 2
      [] f \in Sizes -> ~Below(x, 0)
      [] f \in Retries -> ~Above(x, 200)
      [] f \in ExporterFloats -> ~x.nan /\ x.n # Infinity /\ ~Below(x, 0)
      [] f = "port" -> ~Below(x, 0) /\ ~Above(x, 131070)
      [] OTHER -> TRUE

\* from_env on the scalar fields: any error refuses the whole configuration.
Accepted(env) == \A f \in DOMAIN env : Parse(f, env[f]).ok /\ Validate(f, Parse(f, env[f]))
FromEnv(env) == [f \in DOMAIN env |-> Parse(f, env[f])]

\* _parse_otlp_headers and _parse_module_levels, entry by entry: one without "=" is
\* skipped (a header list complains), and so is one without a name; of module levels,
\* each is first looked up in the level table, named or not.
TakeEntry(parsed, e) == IF e.eq /\ e.name # "" THEN (e.name :> e.val) @@ parsed ELSE parsed
ParseEntries(entries) == FoldLeft(TakeEntry, <<>>, entries)
RefusesLevels(entries) == \E i \in DOMAIN entries : entries[i].eq /\ entries[i].val = "junk"

-----------------------------------------------------------------------------
(* Metrics exporters and the Prometheus switches. *)

Supported == {"otlp", "prometheus"}

\* parse_metrics_exporters, after splitting and trimming the list
ParseExporters(names) ==
    LET chosen == SelectSeq(names, LAMBDA n : n \in Supported)
        ignored == {names[i] : i \in DOMAIN names} \ Supported
    IN  IF names # <<>> /\ ignored = {"none"} /\ chosen = <<>>
        THEN [exporters |-> <<>>, warnings |-> {}]
        ELSE [exporters |-> IF chosen = <<>> THEN <<"otlp">> ELSE chosen,
              warnings |-> {<<"ignored", n>> : n \in ignored}
                           \cup IF names # <<>> /\ chosen = <<>> THEN {<<"fallback", "otlp">>} ELSE {}]
RefusesExporters(names, strict) == strict /\ ParseExporters(names).warnings # {}
\* validate_exporters, run on every MetricsConfig
ValidExporters(exporters) == \A i \in DOMAIN exporters : exporters[i] \in Supported

HasExporter(m, name) == \E i \in DOMAIN m.exporters : m.exporters[i] = name
ListenerEnabled(m) == m.enabled /\ (m.listen = "true" \/ (m.listen = "auto" /\ HasExporter(m, "prometheus")))
ReaderEnabled(m) == m.enabled /\ (HasExporter(m, "prometheus") \/ ListenerEnabled(m))
OtlpReaderEnabled(m) == m.enabled /\ HasExporter(m, "otlp")

-----------------------------------------------------------------------------
(* OTLP endpoints.  A URL's authority is a sequence of parts: ":", "@", "[", *)
(* "]" and words.                                                            *)

After(s, c) == SubSeq(s, SelectLastInSeq(s, LAMBDA x : x = c) + 1, Len(s))   \* s.rpartition(c)[2]
Before(s, c) ==
    LET i == SelectInSeq(s, LAMBDA x : x = c) IN IF i = 0 THEN s ELSE SubSeq(s, 1, i - 1)
Rest(s, c) ==                                                                \* s.partition(c)[2]
    LET i == SelectInSeq(s, LAMBDA x : x = c) IN IF i = 0 THEN <<>> ELSE SubSeq(s, i + 1, Len(s))

\* urllib's ParseResult.hostname and .port (external): the port's text, <<>> for none.
HostInfo(netloc) == After(netloc, "@")
Bracketed(netloc) == Contains(HostInfo(netloc), "[")
HostName(netloc) ==
    IF Bracketed(netloc) THEN Before(Rest(HostInfo(netloc), "["), "]") ELSE Before(HostInfo(netloc), ":")
PortText(netloc) ==
    IF Bracketed(netloc) THEN Rest(Rest(Rest(HostInfo(netloc), "["), "]"), ":") ELSE Rest(HostInfo(netloc), ":")

Scanned(netloc) == After(netloc, "@")
\* _check_port: a port that is no number in 1 .. 65535, or a colon with nothing behind
\* it outside the brackets and the credentials, is refused.
CheckPort(netloc) ==
    LET port == PortText(netloc) IN
    IF port = <<>> THEN ~Contains(After(Scanned(netloc), "]"), ":")
    ELSE Len(port) = 1 /\ ParseInt(port[1]).ok /\ ParseInt(port[1]).n \in 2 .. 131070
\* validate_otlp_endpoint
ValidEndpoint(scheme, netloc) ==
    scheme \in {"http", "https"} /\ netloc # <<>> /\ HostName(netloc) # <<>> /\ CheckPort(netloc)

\* resolve_otlp_endpoint: a signal's own variable wins; the shared one gets the
\* signal's path behind it, with its trailing slashes removed.
ResolveEndpoint(specific, shared, path) ==
    IF specific \notin {<<Unset>>, <<>>} THEN specific
    ELSE IF shared \in {<<Unset>>, <<>>} THEN <<Unset>>
    ELSE LET keep == {i \in 1 .. Len(shared) : shared[i] # "/"}
             end == IF keep = {} THEN 0 ELSE Max(keep)
         IN  SubSeq(shared, 1, end) \o <<"/">> \o path
\* warn_on_endpoint_shadowing
Shadows(specific, shared) == {specific, shared} \cap {<<Unset>>, <<>>} = {} /\ specific # shared

-----------------------------------------------------------------------------
(* The TLS files of OTLP push (_otlp_tls.py): a file is "" (not set),        *)
(* "missing", "junk" (not PEM), or the name of the pair whose certificate    *)
(* and key it holds.                                                         *)

TlsFile(env, signal, kind) ==                                                \* _resolve
    IF env[signal][kind] # "" THEN env[signal][kind] ELSE env["shared"][kind]
\* unreadable: the files of the first problem, in the order the checks are made
Unreadable(env, signal) ==
    LET f(kind) == TlsFile(env, signal, kind)
        missing == SelectSeq(<<"ca", "cert", "key">>, LAMBDA k : f(k) = "missing")
    IN  CASE missing # <<>> -> {missing[1]}
          [] missing = <<>> /\ f("ca") = "junk" -> {"ca"}
          [] missing = <<>> /\ f("ca") # "junk" /\ "" \notin {f("cert"), f("key")}
                /\ (f("cert") = "junk" \/ f("cert") # f("key")) -> {"cert", "key"}
          [] OTHER -> {}
TlsReady(env, signal) == Unreadable(env, signal) = {}
\* tls_ready for each signal of a setup, and what take_problems then reports
TlsProblems(env, signals) == {<<s, Unreadable(env, s)>> : s \in {x \in signals : ~TlsReady(env, x)}}

-----------------------------------------------------------------------------
(* Printing a configuration (_masking.py).  A URL is a sequence of parts:    *)
(* "s" and "S" are one scheme in lower and upper case, ":", "/", "?", "#",   *)
(* "@", "[" and "]" themselves, the rest words.                              *)

Stars == "****"
\* _mask_header_value
MaskHeader(text) == IF Len(text) < 8 THEN <<Stars>> ELSE SubSeq(text, 1, 4) \o <<Stars>>
\* _mask_netloc_password: the last "@" ends the userinfo, its first ":" the user
MaskNetloc(netloc) ==
    LET at == SelectLastInSeq(netloc, LAMBDA x : x = "@")
        userinfo == SubSeq(netloc, 1, at - 1)
    IN  IF Rest(userinfo, ":") = <<>> THEN netloc
        ELSE Before(userinfo, ":") \o <<":", Stars, "@">> \o After(netloc, "@")
\* An authority ends at the first of these, wherever they come from: a password that
\* holds one is cut there.
AuthorityEnds == {"/", "?", "#"}
Authority(url, start) ==
    LET ends == {i \in start .. Len(url) : url[i] \in AuthorityEnds}
    IN  SubSeq(url, start, IF ends = {} THEN Len(url) ELSE Min(ends) - 1)
\* Where urlsplit (external) finds an authority: behind "//", with or without a scheme
\* in front; 0 for none.  It raises on a broken bracket.
NetlocAt(url) ==
    LET slashes == {i \in 1 .. Len(url) - 1 : SubSeq(url, i, i + 1) = <<"/", "/">>}
    IN  CASE 1 \in slashes -> 3
          [] 3 \in slashes /\ url[2] = ":" /\ url[1] \in {"s", "S", "u"} -> 5
          [] OTHER -> 0
UrlRaises(url) == Contains(Authority(url, NetlocAt(url)), "[") # Contains(Authority(url, NetlocAt(url)), "]")
Splits(url) == NetlocAt(url) # 0 /\ ~UrlRaises(url) /\ Authority(url, NetlocAt(url)) # <<>>
\* urlunsplit (external) writes the scheme in lower case, and neither a "?" nor a "#"
\* with nothing behind it.
Unsplit(head, netloc, tail) ==
    LET query == Rest(Before(tail, "#"), "?")
        fragment == Rest(tail, "#")
    IN  [i \in DOMAIN head |-> IF head[i] = "S" THEN "s" ELSE head[i]] \o netloc
        \o Before(Before(tail, "#"), "?")
        \o (IF query = <<>> THEN <<>> ELSE <<"?">> \o query)
        \o (IF fragment = <<>> THEN <<>> ELSE <<"#">> \o fragment)
\* Where a "://" of a URL ends
SchemeEnds(url) == {i \in 4 .. Len(url) + 1 : SubSeq(url, i - 3, i - 1) = <<":", "/", "/">>}
\* _mask_endpoint_url: urlsplit's authority, or the one found by hand
MaskEndpoint(url) ==
    LET start == IF Splits(url) THEN NetlocAt(url) ELSE IF SchemeEnds(url) = {} THEN 1 ELSE Min(SchemeEnds(url))
        authority == Authority(url, start)
        head == SubSeq(url, 1, start - 1)
        tail == SubSeq(url, start + Len(authority), Len(url))
    IN  IF Splits(url) /\ MaskNetloc(authority) # authority
        THEN Unsplit(head, MaskNetloc(authority), tail)
        ELSE head \o MaskNetloc(authority) \o tail

-----------------------------------------------------------------------------
(* The resource of the providers (_resource.py): what identifies the service *)
(* in what is exported.  An environment has the pairs of                     *)
(* OTEL_RESOURCE_ATTRIBUTES and the text of OTEL_SERVICE_NAME.               *)

IdentityAttrs == {"service.name", "service.version"}
\* _env_identity_keys
EnvIdentityKeys(env) ==
    ({env.pairs[i].key : i \in {j \in DOMAIN env.pairs : env.pairs[j].eq}} \cup IF env.name \in Blank THEN {} ELSE {"service.name"})
        \ {""}
\* _resolve_resource_attrs: explicit values, and defaults the environment does not fill
ResolveResource(config, keys) ==
    [k \in {x \in IdentityAttrs : config[x] # "default" \/ x \notin keys} |-> config[k]]
\* The SDK's detector (external), and Resource.create over it
DetectedAttrs(env) ==
    LET pairs == SelectSeq(env.pairs, LAMBDA p : p.eq)
        listed == FoldLeft(LAMBDA acc, p : (p.key :> p.val) @@ acc, <<>>, pairs)
    IN  IF env.name = "" THEN listed ELSE ("service.name" :> env.name) @@ listed
BuildResource(config, env) ==
    LET attrs == ResolveResource(config, EnvIdentityKeys(env)) @@ DetectedAttrs(env)
    IN  IF attrs["service.name"] = "" THEN ("service.name" :> "unknown_service") @@ attrs ELSE attrs
=============================================================================
