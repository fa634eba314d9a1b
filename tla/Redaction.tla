----------------------------- MODULE Redaction ------------------------------
(***************************************************************************)
(* The PII engine as an algorithm (pii.py): how the secret-looking matches *)
(* of a value become redacted spans, and how rules and the default pass    *)
(* rewrite a nested payload, with the receipts they report.                *)
(***************************************************************************)
EXTENDS Integers, Sequences, FiniteSetsExt, SequencesExt

-----------------------------------------------------------------------------
(* Spans.  A value is a sequence of characters of which only " " matters; a *)
(* match is [s, e, path]: the half-open interval <<s, e>> of offsets, and   *)
(* whether the matched text has the shape of a file path.                   *)

\* _expand_to_token: widen to the run of non-spaces on either side.
ExpandToToken(v, m) ==
    LET lo == Min({i \in 0 .. m.s : \A j \in i + 1 .. m.s : v[j] # " "})
        hi == Max({i \in m.e .. Len(v) : \A j \in m.e + 1 .. i : v[j] # " "})
    IN  <<lo, hi>>

\* Bug: merged spans end where the first one does.
MergeFirstEnds(spans) ==
    LET sorted == SetToSortSeq(spans, LAMBDA a, b : a[1] < b[1] \/ (a[1] = b[1] /\ a[2] < b[2]))
        add(merged, x) ==
            IF merged # <<>> /\ x[1] <= Last(merged)[2] THEN merged ELSE Append(merged, x)
    IN  FoldLeft(add, <<>>, sorted)

\* _merge_spans: sort, and coalesce a span that starts inside the previous one.
MergeSpans(spans) ==
    LET sorted == SetToSortSeq(spans, LAMBDA a, b : a[1] < b[1] \/ (a[1] = b[1] /\ a[2] < b[2]))
        add(merged, x) ==
            IF merged # <<>> /\ x[1] <= Last(merged)[2]
            THEN [merged EXCEPT ![Len(merged)] = <<@[1], Max({@[2], x[2]})>>]
            ELSE Append(merged, x)
    IN  FoldLeft(add, <<>>, sorted)

\* _secret_spans: outside the scanned lengths nothing is found; empty matches and
\* path-shaped ones are no secrets.
SecretSpans(v, matches, minLen, maxLen) ==
    IF Len(v) < minLen \/ Len(v) > maxLen THEN <<>>
    ELSE MergeSpans({ExpandToToken(v, m) : m \in {x \in matches : x.s < x.e /\ ~x.path}})

\* _replace_spans: back to front, so that earlier offsets stay valid.
ReplaceSpans(v, spans) ==
    FoldRight(LAMBDA x, out : SubSeq(out, 1, x[1]) \o <<"*">> \o SubSeq(out, x[2] + 1, Len(out)), spans, v)

redact_secret_spans(v, matches, minLen, maxLen) == ReplaceSpans(v, SecretSpans(v, matches, minLen, maxLen))

\* The reference: a character is hidden when no space separates it from a secret
\* match; each maximal run of hidden characters becomes one sentinel.
Hidden(v, matches) ==
    {i \in 1 .. Len(v) : \E m \in matches :
        /\ m.s < m.e /\ ~m.path
        /\ \/ m.s < i /\ i <= m.e
           \/ i <= m.s /\ \A j \in i .. m.s : v[j] # " "
           \/ i > m.e /\ \A j \in m.e + 1 .. i : v[j] # " "}
Reference(v, matches) ==
    LET h == Hidden(v, matches)
        char(out, i) == IF i \notin h THEN Append(out, v[i])
                        ELSE IF i - 1 \in h THEN out ELSE Append(out, "*")
    IN  FoldLeft(char, <<>>, [i \in 1 .. Len(v) |-> i])

-----------------------------------------------------------------------------
(* Payloads.  A node is [t, v, kv]: a leaf with a value, or a dict or list  *)
(* whose children are kv; the positions of a list are "#1", "#2".           *)

None == "none"
Leaf(x) == [t |-> "leaf", v |-> x, kv |-> <<>>]
Node(t, kv) == [t |-> t, v |-> None, kv |-> kv]
Items == {"#1", "#2"}
SensitiveKeys == {"password"}
HardLimit == 32                             \* _apply_rule's depth limit
RulePart(k) == IF k \in Items THEN "*" ELSE k

\* _match: equal lengths, and "*" in a rule matches anything.
Match(path, target) == Len(path) = Len(target) /\ \A i \in DOMAIN path : path[i] \in {"*", target[i]}

\* _mask, other than drop: truncation keeps the texts that are short enough.
Short == {Leaf("plain"), Leaf("***")}
Mask(n, mode) ==
    CASE mode = "redact" -> Leaf("***")
      [] mode = "hash" -> Leaf("hash")
      [] mode = "truncate" -> IF n \in Short THEN n ELSE Leaf("cut")

\* A rewritten node and the number of receipts reported on the way.
Result(n, receipts) == [node |-> n, receipts |-> receipts]
Collect(t, kids, own) ==
    Result(Node(t, [k \in DOMAIN kids |-> kids[k].node]),
           own + MapThenSumSet(LAMBDA k : kids[k].receipts, DOMAIN kids))

\* _apply_rule: every hit of the rule is reported, a dropped one too.
RECURSIVE ApplyRule(_, _, _, _)
ApplyRule(n, rule, path, depth) ==
    LET at(k) == Append(path, RulePart(k))
        hits == {k \in DOMAIN n.kv : n.t = "dict" /\ Match(rule.path, at(k))}
        kept == IF rule.mode = "drop" THEN DOMAIN n.kv \ hits ELSE DOMAIN n.kv
    IN  IF depth >= HardLimit \/ n.t = "leaf" THEN Result(n, 0)
        ELSE Collect(n.t, [k \in kept |-> IF k \in hits THEN Result(Mask(n.kv[k], rule.mode), 0)
                                          ELSE ApplyRule(n.kv[k], rule, at(k), depth + 1)],
                     Cardinality(hits))

DepthReached(depth, maxDepth) == depth >= maxDepth

\* _apply_default_sensitive_key_redaction: a sensitive key keeps what a rule that
\* targets it, or that changed it, left there; a secret-looking text is redacted.
RECURSIVE DefaultPass(_, _, _, _, _, _)
DefaultPass(n, orig, depth, maxDepth, targets, path) ==
    LET at(k) == Append(path, RulePart(k))
        was(k) == IF k \in DOMAIN orig.kv THEN orig.kv[k] ELSE n.kv[k]
        decided(k) == (\E p \in targets : Match(p, at(k))) \/ n.kv[k] # was(k)
        child(k) ==
            IF n.t = "dict" /\ k \in SensitiveKeys
            THEN IF decided(k) THEN Result(n.kv[k], 0) ELSE Result(Leaf("***"), 1)
            ELSE IF n.kv[k] = Leaf("secret") THEN Result(Leaf("***"), 1)
            ELSE DefaultPass(n.kv[k], was(k), depth + 1, maxDepth, targets, at(k))
    IN  IF DepthReached(depth, maxDepth) \/ n.t = "leaf" \/ orig.t # n.t THEN Result(n, 0)
        ELSE Collect(n.t, [k \in DOMAIN n.kv |-> child(k)], 0)

AfterRules(payload, rules) ==
    FoldLeft(LAMBDA r, rule : LET x == ApplyRule(r.node, rule, <<>>, 0) IN Result(x.node, r.receipts + x.receipts),
             Result(payload, 0), rules)
Targets(rules) == {rules[i].path : i \in DOMAIN rules} \ {<<>>}

\* sanitize_payload without classification (see Governance).
sanitize_payload(payload, rules, maxDepth) ==
    LET ruled == AfterRules(payload, rules)
        out == DefaultPass(ruled.node, payload, 0, maxDepth, Targets(rules), <<>>)
    IN  Result(out.node, ruled.receipts + out.receipts)

-----------------------------------------------------------------------------
(* Reading a payload, for the properties. *)

RECURSIVE Positions(_)
Positions(n) == UNION {{<<k>>} \cup {<<k>> \o p : p \in Positions(n.kv[k])} : k \in DOMAIN n.kv}
RECURSIVE At(_, _)
At(n, p) == IF p = <<>> THEN n
            ELSE IF p[1] \notin DOMAIN n.kv THEN Leaf("gone") ELSE At(n.kv[p[1]], Tail(p))

\* The redaction a rule chose replaces the default one: a sensitive key at or
\* above p that a rule targets, or below which a rule changed something.
RuleDecides(payload, rules, p) ==
    \E i \in 1 .. Len(p) :
        LET q == SubSeq(p, 1, i) IN
        /\ p[i] \in SensitiveKeys
        /\ \/ \E t \in Targets(rules) : Match(t, [j \in 1 .. i |-> RulePart(q[j])])
           \/ At(AfterRules(payload, rules).node, q) # At(payload, q)

\* Down to the depth limit no secret and nothing under a sensitive key leaves
\* sanitize_payload, except where a rule decided otherwise.
Sanitized(payload, rules, maxDepth) ==
    LET out == sanitize_payload(payload, rules, maxDepth).node IN
    \A p \in Positions(out) : Len(p) <= maxDepth /\ ~RuleDecides(payload, rules, p)
        => /\ At(out, p) # Leaf("secret")
           /\ Last(p) \in SensitiveKeys => At(out, p) = Leaf("***")

\* There is one receipt for every field a rule hit and one for every position the
\* default pass redacted, none for a field that left as it came.
ReceiptPerRewrite(payload, rules, maxDepth) ==
    LET s == sanitize_payload(payload, rules, maxDepth)
        hits(rule) == {p \in Positions(payload) :
                          Last(p) \notin Items /\ Match(rule.path, [i \in DOMAIN p |-> RulePart(p[i])])}
    IN  s.receipts = Cardinality({p \in Positions(s.node) :
                                     At(s.node, p) = Leaf("***") /\ At(AfterRules(payload, rules).node, p) # Leaf("***")})
                     + Cardinality(UNION {hits(rules[i]) : i \in DOMAIN rules})
=============================================================================
