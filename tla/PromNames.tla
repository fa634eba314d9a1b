------------------------------ MODULE PromNames -----------------------------
(***************************************************************************)
(* Prometheus exposition: instrument and attribute names to metric and     *)
(* label names (_prom_names.py) and OTel data to families of samples       *)
(* (_prom_render.py).  A name is a sequence of parts: words, the digit     *)
(* "9", and the characters "_" and ".".                                    *)
(***************************************************************************)
EXTENDS Integers, Sequences, FiniteSets, SequencesExt

Unusable == <<"unusable">>                     \* ValueError
Digits == {"9"}
AllUnderscores(s) == \A i \in DOMAIN s : s[i] = "_"

\* Runs of s between the separators, the empty ones dropped (_tokens).
TokensOf(s, seps) ==
    LET step(acc, c) == IF c \in seps THEN Append(acc, <<>>) ELSE [acc EXCEPT ![Len(acc)] = Append(@, c)]
    IN  SelectSeq(FoldLeft(step, <<<<>>>>, s), LAMBDA t : t # <<>>)
JoinTokens(tokens) ==
    FoldLeft(LAMBDA acc, t : IF acc = <<>> THEN t ELSE acc \o <<"_">> \o t, <<>>, tokens)
PrefixLeadingDigit(s) == IF s # <<>> /\ s[1] \in Digits THEN <<"_">> \o s ELSE s

\* _unit_suffixes and _clean_up_unit for the units used here: seconds, bytes per
\* second, an annotation, a ratio, and none.
UnitTokens == [u \in {"s", "By/s", "{call}", "1", ""} |->
                 CASE u = "s" -> <<<<"seconds">>>> [] u = "By/s" -> <<<<"bytes">>, <<"per", "_", "second">>>>
                   [] OTHER -> <<>>]
\* _add_unit_tokens: a main unit already among the tokens is not repeated
AddUnitTokens(tokens, unit) ==
    tokens \o SelectSeq(UnitTokens[unit], LAMBDA t : ~Contains(tokens, t))

\* A suffix word is taken out wherever it stands and put last.
MoveLast(tokens, word) == Append(SelectSeq(tokens, LAMBDA t : t # <<word>>), <<word>>)

\* _normalize
Normalize(name, unit, kind) ==
    LET tokens == AddUnitTokens(TokensOf(name, {"_", "."}), unit)
    IN  PrefixLeadingDigit(JoinTokens(
            CASE kind = "counter" -> MoveLast(tokens, "total")
              [] kind = "gauge" /\ unit = "1" -> MoveLast(tokens, "ratio")
              [] OTHER -> tokens))

\* metric_name under the escaping strategies
MetricName(name, unit, kind, suffixes) ==
    LET result == IF suffixes THEN Normalize(name, unit, kind)
                  ELSE PrefixLeadingDigit(JoinTokens(TokensOf(name, {"."})))
    IN  IF result = <<>> \/ (result # name /\ AllUnderscores(result)) THEN Unusable ELSE result

\* _trim_suffix: the suffix goes with the one character in front of it, if anything is
\* left; of a longer word in front one character is cut off.
TrimSuffix(name, suffix) ==
    LET rest == SubSeq(name, 1, Len(name) - Len(suffix))
        cut == IF Last(rest) \in {"a", "_", "."} \cup Digits THEN <<>> ELSE <<"cut">>
    IN  IF IsSuffix(suffix, name) /\ Len(rest) > 0 /\ Front(rest) \o cut # <<>> THEN Front(rest) \o cut ELSE name
Appended(name, words) == name \o <<"_">> \o words
\* _utf8_with_suffixes: outer suffixes come off first and go back on last
Utf8WithSuffixes(name, unit, kind) ==
    LET outer == CASE kind = "counter" -> <<"total">> [] kind = "gauge" /\ unit = "1" -> <<"ratio">> [] OTHER -> <<>>
        units == UnitTokens[unit]
        inner == IF outer = <<>> THEN name ELSE TrimSuffix(name, outer)
        bare == IF Len(units) = 2 THEN TrimSuffix(inner, units[2]) ELSE inner
        main == IF units # <<>> /\ ~IsSuffix(units[1], bare) THEN Appended(bare, units[1]) ELSE bare
        per == IF Len(units) = 2 THEN Appended(main, units[2]) ELSE main
    IN  IF outer = <<>> THEN per ELSE Appended(per, outer)
\* effective_strategy: UTF-8 names go only to a scraper that asked for them
EffectiveStrategy(strategy, utf8) == [escapes |-> strategy.escapes \/ ~utf8, suffixes |-> strategy.suffixes]
\* metric_name
Translate(name, unit, kind, strategy) ==
    IF strategy.escapes THEN MetricName(name, unit, kind, strategy.suffixes)
    ELSE IF strategy.suffixes THEN Utf8WithSuffixes(name, unit, kind) ELSE name

\* Runs of characters no label may have become one "_".
CollapseRuns(s) ==
    FoldLeft(LAMBDA acc, c : IF c \notin {"_", "."} THEN Append(acc, c)
                             ELSE IF acc # <<>> /\ Last(acc) = "_" THEN acc ELSE Append(acc, "_"), <<>>, s)
\* label_name under the escaping strategies
LabelName(attr) ==
    LET reserved == Len(attr) >= 4 /\ SubSeq(attr, 1, 2) = <<"_", "_">>
                    /\ SubSeq(attr, Len(attr) - 1, Len(attr)) = <<"_", "_">>
        body == CollapseRuns(IF reserved THEN SubSeq(attr, 3, Len(attr) - 2) ELSE attr)
        label == IF reserved THEN <<"_", "_">> \o body \o <<"_", "_">>
                 ELSE IF body # <<>> /\ body[1] \in Digits THEN <<"key", "_">> \o body ELSE body
    IN  IF AllUnderscores(attr) \/ AllUnderscores(label) THEN Unusable ELSE label
\* translate_labels: keys that cannot be labels, and reserved ones, are dropped
TranslateLabels(attrs) ==
    {l \in {LabelName(a) : a \in attrs} : l # Unusable /\ ~(Len(l) >= 2 /\ l[1] = "_" /\ l[2] = "_")}

-----------------------------------------------------------------------------
(* Families.  An instrument is [name, unit, kind, monotonic, points]; the   *)
(* points are numbers, of a histogram sequences of bucket counts.           *)

PromType(m) ==
    CASE m.kind = "sum" -> IF m.monotonic THEN "counter" ELSE "gauge" [] OTHER -> m.kind
TranslationKind(m) == IF m.kind = "sum" THEN IF m.monotonic THEN "counter" ELSE "updown" ELSE m.kind

\* Bug: a family takes instruments of any type.
AddMetricAny(families, m) ==
    LET name == MetricName(m.name, m.unit, TranslationKind(m), TRUE)
        fam == IF name \in DOMAIN families THEN families[name] ELSE [type |-> PromType(m), from |-> <<>>]
    IN  IF m.kind = "exponential" \/ name = Unusable THEN families
        ELSE (name :> [fam EXCEPT !.from = Append(@, PromType(m))]) @@ families
\* _add_metric: the first instrument of a translated name gives the family its type,
\* and one of another type under the same name is left out.  "from" records the types
\* of the instruments whose samples the family carries.
AddMetric(families, m) ==
    LET name == MetricName(m.name, m.unit, TranslationKind(m), TRUE)
        fam == IF name \in DOMAIN families THEN families[name] ELSE [type |-> PromType(m), from |-> <<>>]
    IN  IF m.kind = "exponential" \/ name = Unusable THEN families
        ELSE IF fam.type # PromType(m) THEN families
        ELSE (name :> [fam EXCEPT !.from = Append(@, PromType(m))]) @@ families
\* families_from, without the resource's target_info
FamiliesFrom(metrics) == FoldLeft(AddMetric, <<>>, metrics)

\* _histogram_samples: cumulative buckets, the last one closed by the point's count
HistogramSamples(counts) ==
    LET sum(k) == FoldLeft(+, 0, SubSeq(counts, 1, k))
    IN  Append([k \in 1 .. Len(counts) - 1 |-> sum(k)], sum(Len(counts)))

-----------------------------------------------------------------------------
(* The text format: a line of characters, of which "\\", "\"" and the        *)
(* newline matter.                                                           *)

ReplaceChar(s, c, by) == FoldLeft(LAMBDA out, x : IF x = c THEN out \o by ELSE Append(out, x), <<>>, s)
EscapeHelp(text) == ReplaceChar(ReplaceChar(text, "\\", <<"\\", "\\">>), "\n", <<"\\", "n">>)
EscapeQuoted(text) == ReplaceChar(EscapeHelp(text), "\"", <<"\\", "\"">>)
\* _label_pairs, _sample_line: a label value, or a name that is not a legacy one
Quoted(text) == <<"\"">> \o EscapeQuoted(text) \o <<"\"">>
=============================================================================
