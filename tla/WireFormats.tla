----------------------------- MODULE WireFormats ----------------------------
(***************************************************************************)
(* W3C headers as the code reads and writes them (headers.py and the       *)
(* parsing half of propagation.py; binding is in Propagation).  A field of *)
(* a traceparent is one of a few texts the checks tell apart: "ab" stands  *)
(* for lower-case hex of the right width, "AB" for upper-case, "00" for    *)
(* all zeros, "0x" for a text int(., 16) takes though it has a character   *)
(* that is no hex digit, "zz" for no hex and "a" for a wrong width.        *)
(***************************************************************************)
EXTENDS Integers, Sequences, SequencesExt

Absent == "absent"
IdTexts == {"ab", "AB", "00", "0x", "zz", "a"}
Lower(x) == IF x = "AB" THEN "ab" ELSE IF x = "FF" THEN "ff" ELSE x
IntBase16 == {"ab", "AB", "00", "0x", "01", "ff", "FF"}
NoIds == [trace_id |-> Absent, span_id |-> Absent]

\* get_header: the first entry whose name matches decides, decodable or not.  A name
\* that is neither bytes nor str, or is not ASCII, matches nothing.
NormalizeHeaderName(name) == CASE name = "KEY" -> "key" [] name \in {"7", "k-ey"} -> "" [] OTHER -> name
GetHeader(headers, key) ==
    LET i == SelectInSeq(headers, LAMBDA h : NormalizeHeaderName(h.name) = key)
    IN  IF i = 0 THEN Absent ELSE headers[i].value

\* _parse_traceparent on the fields between the dashes
ParseTraceparent(parts) ==
    IF /\ Len(parts) = 4
       /\ \A i \in DOMAIN parts : parts[i] \in IntBase16
       /\ parts[2] # "00" /\ parts[3] # "00" /\ Lower(parts[1]) # "ff"
    THEN [trace_id |-> Lower(parts[2]), span_id |-> Lower(parts[3])]
    ELSE NoIds

\* _is_forwardable_tracestate, on a header that is well formed ("ok"), has a bad
\* member ("bad"), or is well formed but too long or of too many members.
Forwardable(ts) == ts # "bad"

\* extract_w3c_context.  A traceparent over the length limit cannot have four fields
\* of the right width.
Extract(parts, tracestate) ==
    LET ids == ParseTraceparent(parts)
    IN  [ids |-> ids,
         traceparent |-> IF ids = NoIds THEN <<>> ELSE parts,
         tracestate |-> IF tracestate \in {"long", "many"} \/ ~Forwardable(tracestate) THEN Absent ELSE tracestate]

\* Bug: only the width and the zero id are checked.
InjectableAny(x) == x # Absent /\ x # "a" /\ x # "00"
\* _is_injectable_id: lower-case hex of the exact width, not all zeros
Injectable(x) == x = "ab"

\* inject_traceparent without OTel: all or nothing, and a bound tracestate goes along
\* only when it can be forwarded.
Inject(ids, tracestate) ==
    IF ~Injectable(ids.trace_id) \/ ~Injectable(ids.span_id) THEN [traceparent |-> <<>>, tracestate |-> Absent]
    ELSE [traceparent |-> <<"00", ids.trace_id, ids.span_id, "01">>,
          tracestate |-> IF tracestate \in {Absent, ""} \/ ~Forwardable(tracestate) THEN Absent ELSE tracestate]

\* parse_baggage, member by member: one without "=" or whose key is no token (empty,
\* or with a line break inside) is skipped, control characters go from values.
TakeMember(parsed, m) ==
    IF m.eq /\ m.key \notin {"", "k\nx"} THEN (m.key :> IF m.val = "v\nw" THEN "vw" ELSE m.val) @@ parsed
    ELSE parsed
ParseBaggage(members) == FoldLeft(TakeMember, <<>>, members)
=============================================================================
