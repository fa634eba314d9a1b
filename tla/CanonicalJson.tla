---------------------------- MODULE CanonicalJson ---------------------------
(***************************************************************************)
(* RFC 8785 canonical JSON as receipts.py writes it for digests: numbers   *)
(* in ECMAScript's layout, composites with cycles cut, objects sorted.     *)
(***************************************************************************)
EXTENDS Integers, Sequences, FiniteSets, SequencesExt

Zeros(n) == [i \in 1 .. n |-> 0]
\* The written number: digits before the point, behind it, and the exponent.
Written(whole, point, frac, exp) == [whole |-> whole, point |-> point, frac |-> frac, exp |-> exp]

\* _format_significand: the value is 0.d1 d2 ... times 10^n.
FormatSignificand(digits, n) ==
    LET k == Len(digits) IN
    IF n > 21 \/ n <= -6 THEN Written(<<digits[1]>>, k > 1, Tail(digits), n - 1)
    ELSE IF n >= k THEN Written(digits \o Zeros(n - k), FALSE, <<>>, 0)
    ELSE IF n > 0 THEN Written(SubSeq(digits, 1, n), TRUE, SubSeq(digits, n + 1, k), 0)
    ELSE Written(<<0>>, TRUE, Zeros(-n) \o digits, 0)

\* _format_number: trailing zeros move into the exponent first.
FormatNumber(digits, exponent) ==
    LET last == CHOOSE i \in DOMAIN digits : digits[i] # 0 /\ \A j \in i + 1 .. Len(digits) : digits[j] = 0
    IN  FormatSignificand(SubSeq(digits, 1, last), exponent + Len(digits))

-----------------------------------------------------------------------------
(* Composites.  A heap maps the id of a list to what it holds: ids, or 0 for *)
(* a scalar.  The text is a sequence of tokens.                              *)

\* Bug: a shared list counts as a cycle.
RECURSIVE CanonicalOnce(_, _, _)
CanonicalOnce(heap, v, seen) ==
    IF v = 0 THEN <<"0">>
    ELSE IF v \in seen THEN <<"null">>
    ELSE <<"[">> \o FlattenSeq([i \in DOMAIN heap[v] |->
                       CanonicalOnce(heap, heap[v][i], seen \cup {v} \cup {heap[v][j] : j \in 1 .. i - 1})]) \o <<"]">>
\* _canonical: null for a composite that is being written already, and only for that;
\* it is forgotten again when it is done.
RECURSIVE Canonical(_, _, _)
Canonical(heap, v, seen) ==
    IF v = 0 THEN <<"0">>
    ELSE IF v \in seen THEN <<"null">>
    ELSE <<"[">> \o FlattenSeq([i \in DOMAIN heap[v] |-> Canonical(heap, heap[v][i], seen \cup {v})]) \o <<"]">>

\* _named_pairs: entries under the text of their key, sorted; two keys of one text make
\* the whole mapping null.
NullPairs == <<[name |-> 0, val |-> 0]>>
NamedPairs(entries) ==
    IF \E i, j \in DOMAIN entries : i # j /\ entries[i].name = entries[j].name THEN NullPairs
    ELSE SortSeq(entries, LAMBDA a, b : a.name < b.name)
=============================================================================
