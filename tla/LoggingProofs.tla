--------------------------- MODULE LoggingProofs ----------------------------
(***************************************************************************)
(* Theorems about what log records carry (Propagation) and where they go   *)
(* (LogOutput), for any tasks, headers, threads, writers and bounds.       *)
(*                                                                         *)
(* Propagation: ContextInv says, of every task and every scope it has      *)
(* open, where the end of that scope will find what it has to give back:   *)
(* in its own frame, counted from the top of the stack by the scopes above *)
(* it that pushed one, or in its locals.  It speaks of the scopes that are *)
(* still clean; a task that ended a scope it did not open is excepted.     *)
(*                                                                         *)
(* LogOutput: OutputInv ties the locals of each thread to its step, counts *)
(* the tickets in flight and the fan-out handlers still unused, says where *)
(* a writer that was let go may still be, and says that, unless somebody   *)
(* owes a rebuild or a teardown, the pipeline or the pass under way is for *)
(* the writer in the slot.                                                 *)
(***************************************************************************)
EXTENDS Propagation, LogOutput, FiniteSetTheorems, SequenceTheorems, TLAPS

(* The context of a task and its scopes                                    *)

Saved == Inbound \cup {"entry"}
Kinds == {"bind", "request", "websocket", "span"}
IdType == [trace : Int, span : Int]
LogType == [Fields -> Int]
TokenType == [task : Tasks \cup {"none"}, old : IdType]
FrameType == [log : [Saved -> Int], ids : IdType, token : TokenType, entry : BOOLEAN]
ContextType == [log : LogType, ids : IdType, otel : IdType, stack : Seq(FrameType)]
ScopeType == [kind : Kinds, log : LogType, ids : IdType, otel : IdType, token : TokenType, clean : BOOLEAN]

\* The scopes above scope i that pushed a frame, and the frame of scope i.
Above(s, i) == {j \in Framed(s) : j > i}
FrameOf(c, s, i) == c.stack[Len(c.stack) - Cardinality(Above(s, i))]

\* What the scope above i found, or what there is now when i is the innermost.
OtelAfter(c, s, i) == IF i = Len(s) THEN c.otel ELSE s[i + 1].otel
EntryAfter(c, s, i) == IF i = Len(s) THEN c.log["entry"] ELSE s[i + 1].log["entry"]

\* Detaching token in task t gives back the OpenTelemetry context that scope x found.
GivesBack(t, token, x, otel) ==
  IF token = NoToken THEN otel = x.otel ELSE token.task = t /\ token.old = x.otel

\* Frame f, or the locals of scope x itself, hold what x found.
FrameSound(t, f, x, otel, entry) ==
  /\ f.ids = x.ids /\ \A k \in Saved : f.log[k] = x.log[k]
  /\ GivesBack(t, f.token, x, otel) /\ (~f.entry => entry = x.log["entry"])
LocalsSound(t, x, otel, entry) == GivesBack(t, x.token, x, otel) /\ entry = x.log["entry"]

\* The end of scope i of task t will find what it needs.
ScopeSound(t, c, s, i) ==
  IF i \in Framed(s)
  THEN /\ Cardinality(Above(s, i)) < Len(c.stack)
       /\ FrameSound(t, FrameOf(c, s, i), s[i], OtelAfter(c, s, i), EntryAfter(c, s, i))
  ELSE LocalsSound(t, s[i], OtelAfter(c, s, i), EntryAfter(c, s, i))

\* Only spans hold tokens, and their own task's.
OwnToken(t, x) == x.token = NoToken \/ (x.kind = "span" /\ x.token.task = t)

TokenSound(token) == token = NoToken \/ (sdk /\ token.task \in Tasks)

\* The context c and the open scopes s of task t fit each other.
TaskSound(t, c, s) ==
  /\ c \in ContextType /\ s \in Seq(ScopeType)
  /\ \A i \in 1 .. Len(c.stack) : TokenSound(c.stack[i].token)
  /\ \A i \in 1 .. Len(s) : OwnToken(t, s[i])
  /\ \A i, j \in 1 .. Len(s) : i < j /\ s[i].clean => s[j].clean
  /\ \A i \in 1 .. Len(s) : s[i].clean => ScopeSound(t, c, s, i)

\* The ids that log records carry belong to the OpenTelemetry context.
Agree(ids, otel) ==
  \/ ids.trace = otel.trace
  \/ ~real /\ ids = NoopIds
  \/ ids.trace \in Lenient /\ otel = NoIds

\* Context c and scopes s of task t, when A are the tasks that run, W those that cleared
\* a frame of somebody else, and n scopes were entered in all.
TaskInv(t, c, s, A, W, n) ==
  /\ TaskSound(t, c, s) /\ Len(s) <= n /\ (s # <<>> => t \in A)
  /\ t \notin W => \A i \in 1 .. Len(s) : s[i].clean
  /\ sdk /\ t \in A \ W =>
       Agree(c.ids, c.otel) /\ \A i \in 1 .. Len(s) : Agree(s[i].ids, s[i].otel)
  /\ t = Main /\ t \notin W => Len(c.stack) = Cardinality(Framed(s))

ContextInv ==
  /\ sdk \in BOOLEAN /\ real \in BOOLEAN /\ (real => sdk)
  /\ alive \subseteq Tasks /\ Main \in alive /\ stray \subseteq Tasks /\ scopes \in 0 .. MaxScopes
  /\ ctx \in [Tasks -> ContextType] /\ open \in [Tasks -> Seq(ScopeType)]
  /\ \A t \in Tasks : TaskInv(t, ctx[t], open[t], alive, stray, scopes)
-----------------------------------------------------------------------------
(* Sequences of scopes and frames                                          *)

\* A sequence and the same one without its last element.
LEMMA FrontFacts ==
  ASSUME NEW S, NEW s \in Seq(S), s # <<>>
  PROVE  /\ Len(s) \in Nat \ {0} /\ Last(s) = s[Len(s)] /\ Last(s) \in S
         /\ Front(s) \in Seq(S) /\ Len(Front(s)) = Len(s) - 1
         /\ \A i \in 1 .. Len(s) - 1 : Front(s)[i] = s[i]
  <1>1. Len(s) \in Nat \ {0} BY EmptySeq
  <1>2. \A i \in 1 .. Len(s) : s[i] \in S BY ElementOfSeq
  <1>3. \A i \in 1 .. Len(s) - 1 : s[i] \in S BY <1>1, <1>2
  <1>4. Last(s) = s[Len(s)] /\ Last(s) \in S BY <1>1, <1>2 DEF Last
  <1> DEFINE z == SubSeq(s, 1, Len(s) - 1)
  <1>5. /\ z \in Seq(S)
        /\ Len(z) = IF 1 <= Len(s) - 1 THEN (Len(s) - 1) - 1 + 1 ELSE 0
        /\ \A i \in 1 .. (Len(s) - 1) - 1 + 1 : z[i] = s[1 + i - 1]
    <2>1. 1 \in Int /\ Len(s) - 1 \in Int BY <1>1
    <2> QED BY <1>3, <2>1, SubSeqProperties
  <1>6. z = Front(s) BY DEF Front
  <1> HIDE DEF z
  <1>7. Len(z) = Len(s) - 1
    <2>1. CASE 1 <= Len(s) - 1 BY <1>1, <1>5, <2>1
    <2>2. CASE ~(1 <= Len(s) - 1)
      <3>1. Len(z) = 0 BY <1>5, <2>2
      <3>2. PICK n \in Nat : n = Len(s) /\ n # 0 BY <1>1
      <3>3. n = 1 BY <2>2, <3>2
      <3> QED BY <3>1, <3>2, <3>3
    <2> QED BY <2>1, <2>2
  <1>8. \A i \in 1 .. Len(s) - 1 : z[i] = s[i] BY <1>1, <1>5
  <1> QED BY <1>1, <1>4, <1>5, <1>6, <1>7, <1>8

\* An initial segment is finite.
LEMMA SegmentFinite == ASSUME NEW n \in Nat PROVE IsFiniteSet(1 .. n)
  <1>1. PICK a \in Int, b \in Int : a = 1 /\ b = n OBVIOUS
  <1>2. IsFiniteSet(a .. b) BY FS_Interval
  <1> QED BY <1>1, <1>2

\* The scopes above another that pushed a frame are finitely many.
LEMMA AboveFinite ==
  ASSUME NEW s \in Seq(ScopeType), NEW i \in Int
  PROVE  /\ IsFiniteSet(Framed(s)) /\ Cardinality(Framed(s)) \in Nat
         /\ IsFiniteSet(Above(s, i)) /\ Cardinality(Above(s, i)) \in Nat
  <1>1. Len(s) \in Nat /\ DOMAIN s = 1 .. Len(s) BY LenProperties
  <1>2. IsFiniteSet(1 .. Len(s)) BY <1>1, SegmentFinite
  <1>3. Framed(s) \subseteq 1 .. Len(s) BY <1>1 DEF Framed
  <1>4. IsFiniteSet(Framed(s)) BY <1>2, <1>3, FS_Subset
  <1>5. Above(s, i) \subseteq Framed(s) BY DEF Above
  <1>6. IsFiniteSet(Above(s, i)) BY <1>4, <1>5, FS_Subset
  <1> QED BY <1>4, <1>6, FS_CardinalityType

\* One more scope.
LEMMA PushCount ==
  ASSUME NEW s \in Seq(ScopeType), NEW x \in ScopeType
  PROVE  LET r == Append(s, x)
             one == IF x.kind \in {"bind", "request"} THEN 1 ELSE 0
         IN  /\ Framed(r) = Framed(s) \cup (IF one = 1 THEN {Len(s) + 1} ELSE {})
             /\ Cardinality(Framed(r)) = Cardinality(Framed(s)) + one
             /\ \A i \in 1 .. Len(s) : Cardinality(Above(r, i)) = Cardinality(Above(s, i)) + one
             /\ Cardinality(Above(r, Len(s) + 1)) = 0
  <1> DEFINE r == Append(s, x)
             one == IF x.kind \in {"bind", "request"} THEN 1 ELSE 0
             n == Len(s) + 1
  <1>1. Len(s) \in Nat /\ DOMAIN s = 1 .. Len(s) BY LenProperties
  <1>2. r \in Seq(ScopeType) /\ Len(r) = n /\ r[n] = x /\ \A i \in 1 .. Len(s) : r[i] = s[i]
    BY AppendProperties
  <1>3. DOMAIN r = 1 .. n BY <1>2, LenProperties
  <1>4. Framed(r) = Framed(s) \cup (IF one = 1 THEN {n} ELSE {})
    <2>1. ASSUME NEW i \in 1 .. n PROVE i \in Framed(r) <=> i \in Framed(s) \/ (one = 1 /\ i = n)
      <3>1. CASE i = n BY <1>1, <1>2, <1>3, <3>1 DEF Framed
      <3>2. CASE i # n
        <4>1. i \in 1 .. Len(s) BY <1>1, <3>2
        <4> QED BY <1>1, <1>2, <1>3, <3>2, <4>1 DEF Framed
      <3> QED BY <3>1, <3>2
    <2>2. Framed(r) \subseteq 1 .. n BY <1>3 DEF Framed
    <2>3. Framed(s) \subseteq 1 .. n BY <1>1 DEF Framed
    <2>4. n \in 1 .. n BY <1>1
    <2> HIDE DEF n, r, one
    <2> QED BY <2>1, <2>2, <2>3, <2>4
  <1>5. \A i \in Framed(s) : i \in Int /\ i < n BY <1>1 DEF Framed
  <1>6. Cardinality(Framed(r)) = Cardinality(Framed(s)) + one
    <2>1. IsFiniteSet(Framed(s)) /\ Cardinality(Framed(s)) \in Nat BY <1>1, AboveFinite
    <2>2. n \notin Framed(s) BY <1>1, <1>5
    <2>3. CASE one = 1
      <3>1. Framed(r) = Framed(s) \cup {n} BY <1>4, <2>3
      <3> HIDE DEF n, r
      <3> QED BY <2>1, <2>2, <2>3, <3>1, FS_AddElement
    <2>4. CASE one = 0
      <3>1. Framed(r) = Framed(s) BY <1>4, <2>4
      <3> QED BY <2>1, <2>4, <3>1
    <2> QED BY <2>3, <2>4
  <1>7. ASSUME NEW i \in 1 .. Len(s) PROVE Cardinality(Above(r, i)) = Cardinality(Above(s, i)) + one
    <2>1. IsFiniteSet(Above(s, i)) /\ Cardinality(Above(s, i)) \in Nat BY AboveFinite
    <2>2. n \notin Above(s, i) BY <1>1, <1>5 DEF Above
    <2>3. CASE one = 1
      <3>1. n > i BY <1>1
      <3>2. Above(r, i) = Above(s, i) \cup {n} BY <1>4, <2>3, <3>1 DEF Above
      <3> HIDE DEF n, r
      <3> QED BY <2>1, <2>2, <2>3, <3>2, FS_AddElement
    <2>4. CASE one = 0
      <3>1. Above(r, i) = Above(s, i) BY <1>4, <2>4 DEF Above
      <3> QED BY <2>1, <2>4, <3>1
    <2> QED BY <2>3, <2>4
  <1>8. Cardinality(Above(r, n)) = 0
    <2>1. n \in Int /\ \A i \in Framed(r) : i \in Int /\ i <= n BY <1>1, <1>4, <1>5
    <2>2. Above(r, n) = {} BY <2>1 DEF Above
    <2> QED BY <2>2, FS_EmptySet
  <1> QED BY <1>4, <1>6, <1>7, <1>8

\* One scope less.
LEMMA PopCount ==
  ASSUME NEW s \in Seq(ScopeType), s # <<>>
  PROVE  LET one == IF Last(s).kind \in {"bind", "request"} THEN 1 ELSE 0
         IN  /\ Framed(Front(s)) = Framed(s) \ {Len(s)}
             /\ Cardinality(Framed(Front(s))) = Cardinality(Framed(s)) - one
             /\ \A i \in 1 .. Len(s) - 1 : Cardinality(Above(Front(s), i)) = Cardinality(Above(s, i)) - one
             /\ Cardinality(Above(s, Len(s))) = 0
             /\ (one = 1 <=> Len(s) \in Framed(s))
  <1> DEFINE r == Front(s)
             x == Last(s)
  <1>1. /\ Len(s) \in Nat \ {0} /\ x = s[Len(s)] /\ x \in ScopeType /\ r \in Seq(ScopeType)
        /\ Len(r) = Len(s) - 1 /\ \A i \in 1 .. Len(s) - 1 : r[i] = s[i]
    BY FrontFacts
  <1>2. Append(r, x) = s
    <2>1. /\ Append(r, x) \in Seq(ScopeType) /\ Len(Append(r, x)) = Len(r) + 1
          /\ (\A i \in 1 .. Len(r) : Append(r, x)[i] = r[i]) /\ Append(r, x)[Len(r) + 1] = x
      BY <1>1, AppendProperties
    <2>2. \A i \in 1 .. Len(s) : Append(r, x)[i] = s[i]
      <3>1. ASSUME NEW i \in 1 .. Len(s) PROVE Append(r, x)[i] = s[i]
        <4>1. CASE i = Len(s) BY <1>1, <2>1, <4>1
        <4>2. CASE i # Len(s)
          <5>1. i \in 1 .. Len(r) BY <1>1, <4>2
          <5> QED BY <1>1, <2>1, <5>1
        <4> QED BY <4>1, <4>2
      <3> QED BY <3>1
    <2>3. Len(Append(r, x)) = Len(s) BY <1>1, <2>1
    <2> QED BY <2>1, <2>2, <2>3, SeqEqual
  <1>3. Len(r) + 1 = Len(s) BY <1>1
  <1> DEFINE one == IF x.kind \in {"bind", "request"} THEN 1 ELSE 0
  <1>4. /\ Framed(s) = Framed(r) \cup (IF one = 1 THEN {Len(s)} ELSE {})
        /\ Cardinality(Framed(s)) = Cardinality(Framed(r)) + one
        /\ \A i \in 1 .. Len(r) : Cardinality(Above(s, i)) = Cardinality(Above(r, i)) + one
        /\ Cardinality(Above(s, Len(s))) = 0
    <2>1. /\ Framed(Append(r, x)) = Framed(r) \cup (IF one = 1 THEN {Len(r) + 1} ELSE {})
          /\ Cardinality(Framed(Append(r, x))) = Cardinality(Framed(r)) + one
          /\ \A i \in 1 .. Len(r) : Cardinality(Above(Append(r, x), i)) = Cardinality(Above(r, i)) + one
          /\ Cardinality(Above(Append(r, x), Len(r) + 1)) = 0
      <3>1. r \in Seq(ScopeType) /\ x \in ScopeType BY <1>1
      <3> HIDE DEF r, x
      <3> QED BY <3>1, PushCount
    <2> HIDE DEF r, x, one
    <2> QED BY <1>2, <1>3, <2>1
  <1>5. \A i \in Framed(r) : i \in 1 .. Len(s) - 1 BY <1>1, LenProperties DEF Framed
  <1>6. Len(s) \notin Framed(r) BY <1>1, <1>5
  <1>7. Framed(r) = Framed(s) \ {Len(s)} /\ (one = 1 <=> Len(s) \in Framed(s)) BY <1>4, <1>6
  <1>8. Cardinality(Framed(r)) \in Nat /\ \A i \in 1 .. Len(r) : Cardinality(Above(r, i)) \in Nat
    <2>1. \A i \in 1 .. Len(r) : i \in Int OBVIOUS
    <2>2. 0 \in Int OBVIOUS
    <2> HIDE DEF r
    <2> QED BY <1>1, <2>1, <2>2, AboveFinite
  <1>9. Cardinality(Framed(r)) = Cardinality(Framed(s)) - one BY <1>4, <1>8
  <1>10. \A i \in 1 .. Len(s) - 1 : Cardinality(Above(r, i)) = Cardinality(Above(s, i)) - one
    BY <1>1, <1>4, <1>8
  <1> QED BY <1>4, <1>7, <1>9, <1>10
-----------------------------------------------------------------------------
(* Entering and leaving scopes                                             *)

\* What a new scope x leaves behind when it turns context c into d.
Enters(t, x, c, d) ==
  /\ x \in ScopeType /\ x.clean /\ OwnToken(t, x)
  /\ x.otel = c.otel /\ x.log["entry"] = c.log["entry"]
  /\ IF x.kind \in {"bind", "request"}
     THEN \E f \in FrameType : /\ d.stack = Append(c.stack, f) /\ TokenSound(f.token)
                               /\ FrameSound(t, f, x, d.otel, d.log["entry"])
     ELSE d.stack = c.stack /\ LocalsSound(t, x, d.otel, d.log["entry"])

LEMMA Push ==
  ASSUME NEW t \in Tasks, NEW c, NEW d \in ContextType, NEW s, NEW x, TaskSound(t, c, s), Enters(t, x, c, d)
  PROVE  TaskSound(t, d, Append(s, x))
  <1> DEFINE r == Append(s, x)
             n == Len(s) + 1
             one == IF x.kind \in {"bind", "request"} THEN 1 ELSE 0
  <1>1. c \in ContextType /\ s \in Seq(ScopeType) /\ x \in ScopeType BY DEF TaskSound, Enters
  <1>2. Len(s) \in Nat /\ n \in Nat BY <1>1, LenProperties
  <1>3. r \in Seq(ScopeType) /\ Len(r) = n /\ r[n] = x /\ \A i \in 1 .. Len(s) : r[i] = s[i]
    BY <1>1, AppendProperties
  <1>4. /\ Framed(r) = Framed(s) \cup (IF one = 1 THEN {n} ELSE {})
        /\ \A i \in 1 .. Len(s) : Cardinality(Above(r, i)) = Cardinality(Above(s, i)) + one
        /\ Cardinality(Above(r, n)) = 0
    BY <1>1, PushCount
  <1>5. \A i \in 1 .. Len(s) : Cardinality(Above(s, i)) \in Nat
    <2>1. \A i \in 1 .. Len(s) : i \in Int BY <1>2
    <2> QED BY <1>1, <2>1, AboveFinite
  <1>6. PICK p \in Seq(FrameType), q \in Seq(FrameType) : p = c.stack /\ q = d.stack BY <1>1 DEF ContextType
  <1>7. Len(p) \in Nat BY LenProperties
  <1>o. one \in {0, 1} OBVIOUS
  <1>8. /\ Len(q) = Len(p) + one /\ \A k \in 1 .. Len(p) : q[k] = p[k]
        /\ one = 1 => TokenSound(q[Len(q)].token) /\ FrameSound(t, q[Len(q)], x, d.otel, d.log["entry"])
    <2>1. CASE one = 1
      <3>1. PICK f \in FrameType : /\ q = Append(p, f) /\ TokenSound(f.token)
                                   /\ FrameSound(t, f, x, d.otel, d.log["entry"])
        BY <1>6, <2>1 DEF Enters
      <3>2. /\ Len(q) = Len(p) + 1 /\ (\A k \in 1 .. Len(p) : q[k] = p[k]) /\ q[Len(p) + 1] = f
        BY <3>1, AppendProperties
      <3>3. q[Len(q)] = f BY <3>2
      <3> HIDE DEF one
      <3> QED BY <2>1, <3>1, <3>2, <3>3
    <2>2. CASE one = 0
      <3>1. q = p BY <1>6, <2>2 DEF Enters
      <3> QED BY <1>7, <2>2, <3>1
    <2> QED BY <2>1, <2>2
  <1>9. \A k \in 1 .. Len(q) : TokenSound(q[k].token)
    <2>1. ASSUME NEW k \in 1 .. Len(q) PROVE TokenSound(q[k].token)
      <3>1. CASE k \in 1 .. Len(p)
        <4>1. q[k] = p[k] BY <1>8, <3>1
        <4> QED BY <1>6, <3>1, <4>1 DEF TaskSound
      <3>2. CASE k \notin 1 .. Len(p)
        <4> HIDE DEF one
        <4>1. Len(q) = Len(p) + one BY <1>8
        <4>2. one = 1 /\ k = Len(q) BY <1>7, <1>o, <3>2, <4>1
        <4> QED BY <1>8, <4>2
      <3> QED BY <3>1, <3>2
    <2> QED BY <2>1
  <1>10. \A i \in 1 .. n : OwnToken(t, r[i])
    <2>1. ASSUME NEW i \in 1 .. n PROVE OwnToken(t, r[i])
      <3>1. CASE i = n BY <1>3, <3>1 DEF Enters
      <3>2. CASE i # n
        <4>1. i \in 1 .. Len(s) BY <1>2, <3>2
        <4>2. r[i] = s[i] BY <1>3, <4>1
        <4> QED BY <4>1, <4>2 DEF TaskSound
      <3> QED BY <3>1, <3>2
    <2> QED BY <2>1
  <1>11. \A i, j \in 1 .. n : i < j /\ r[i].clean => r[j].clean
    <2>1. ASSUME NEW i \in 1 .. n, NEW j \in 1 .. n, i < j, r[i].clean PROVE r[j].clean
      <3>1. CASE j = n BY <1>3, <3>1 DEF Enters
      <3>2. CASE j # n
        <4>1. i \in 1 .. Len(s) /\ j \in 1 .. Len(s) BY <1>2, <2>1, <3>2
        <4>2. r[i] = s[i] /\ r[j] = s[j] BY <1>3, <4>1
        <4> QED BY <2>1, <4>1, <4>2 DEF TaskSound
      <3> QED BY <3>1, <3>2
    <2> QED BY <2>1
  <1>12. ASSUME NEW i \in 1 .. n, r[i].clean PROVE ScopeSound(t, d, r, i)
    <2>1. CASE i = n
      <3>1. OtelAfter(d, r, i) = d.otel /\ EntryAfter(d, r, i) = d.log["entry"]
        BY <1>3, <2>1 DEF OtelAfter, EntryAfter
      <3>2. i \in Framed(r) <=> one = 1
        <4>1. n \notin Framed(s) BY <1>1, <1>2, LenProperties DEF Framed
        <4> QED BY <1>4, <2>1, <4>1
      <3>3. CASE one = 1
        <4>1. FrameOf(d, r, i) = q[Len(q)] /\ Cardinality(Above(r, i)) < Len(d.stack)
          <5>1. Cardinality(Above(r, i)) = 0 BY <1>4, <2>1
          <5>2. Len(q) = Len(p) + 1 BY <1>8, <3>3
          <5>3. Len(q) - 0 = Len(q) /\ 0 < Len(q) BY <1>7, <5>2
          <5> QED BY <1>6, <5>1, <5>3 DEF FrameOf
        <4> QED BY <1>3, <1>8, <2>1, <3>1, <3>2, <3>3, <4>1 DEF ScopeSound
      <3>4. CASE one = 0 BY <1>3, <2>1, <3>1, <3>2, <3>4 DEF ScopeSound, Enters
      <3> QED BY <3>3, <3>4
    <2>2. CASE i # n
      <3>1. i \in 1 .. Len(s) BY <1>2, <2>2
      <3>2. r[i] = s[i] BY <1>3, <3>1
      <3>3. ScopeSound(t, c, s, i) BY <1>12, <3>1, <3>2 DEF TaskSound
      <3>4. OtelAfter(d, r, i) = OtelAfter(c, s, i) /\ EntryAfter(d, r, i) = EntryAfter(c, s, i)
        <4>1. CASE i = Len(s)
          <5>1. r[i + 1] = x BY <1>3, <4>1
          <5> QED BY <1>2, <1>3, <2>2, <4>1, <5>1 DEF OtelAfter, EntryAfter, Enters
        <4>2. CASE i # Len(s)
          <5>1. i + 1 \in 1 .. Len(s) BY <1>2, <3>1, <4>2
          <5>2. r[i + 1] = s[i + 1] BY <1>3, <5>1
          <5> QED BY <1>3, <2>2, <4>2, <5>2 DEF OtelAfter, EntryAfter
        <4> QED BY <4>1, <4>2
      <3>5. i \in Framed(r) <=> i \in Framed(s) BY <1>4, <2>2
      <3>6. CASE i \in Framed(s)
        <4> DEFINE a == Cardinality(Above(s, i))
                   b == Cardinality(Above(r, i))
                   l == Len(p)
                   m == Len(q)
        <4>1. a \in Nat /\ a < l BY <1>5, <1>6, <3>1, <3>3, <3>6 DEF ScopeSound
        <4>2. b = a + one /\ m = l + one /\ l \in Nat BY <1>4, <1>7, <1>8, <3>1
        <4>3. one \in Nat OBVIOUS
        <4>4. FrameOf(d, r, i) = q[m - b] /\ FrameOf(c, s, i) = p[l - a] BY <1>6 DEF FrameOf
        <4> HIDE DEF a, b, l, m, one
        <4>5. b < m /\ m - b = l - a /\ l - a \in 1 .. l BY <4>1, <4>2, <4>3
        <4>6. FrameOf(d, r, i) = FrameOf(c, s, i) BY <1>8, <4>4, <4>5 DEF l
        <4> QED BY <1>6, <3>2, <3>3, <3>4, <3>5, <3>6, <4>5, <4>6 DEF ScopeSound, b, m
      <3>7. CASE i \notin Framed(s) BY <3>2, <3>3, <3>4, <3>5, <3>7 DEF ScopeSound
      <3> QED BY <3>6, <3>7
    <2> QED BY <2>1, <2>2
  <1> HIDE DEF r, n
  <1>13. r \in Seq(ScopeType) /\ Len(r) = n BY <1>3
  <1>14. TaskSound(t, d, r) BY <1>6, <1>9, <1>10, <1>11, <1>12, <1>13 DEF TaskSound
  <1> QED BY <1>14 DEF r

\* The stack of restore frames after one was popped, if there was one.
Popped(stack) == IF stack = <<>> THEN <<>> ELSE Front(stack)

\* What the end of scope x does when it turns context c into d.
Leaves(x, c, d) ==
  /\ x.clean => d.otel = x.otel /\ d.log["entry"] = x.log["entry"]
  /\ d.stack = IF x.kind \in {"bind", "request"} THEN Popped(c.stack) ELSE c.stack

\* The frames that stay when one is popped.
LEMMA PoppedFacts ==
  ASSUME NEW p \in Seq(FrameType)
  PROVE  /\ Popped(p) \in Seq(FrameType) /\ Len(p) \in Nat /\ Len(Popped(p)) \in Nat
         /\ Len(p) > 0 => Len(Popped(p)) = Len(p) - 1
         /\ Len(Popped(p)) <= Len(p) /\ \A k \in 1 .. Len(Popped(p)) : Popped(p)[k] = p[k]
  <1>1. CASE p = <<>>
    <2>1. Popped(p) = p BY <1>1 DEF Popped
    <2>2. Len(p) = 0 /\ Len(p) \in Nat BY <1>1
    <2> QED BY <2>1, <2>2
  <1>2. CASE p # <<>>
    <2>1. Popped(p) = Front(p) BY <1>2 DEF Popped
    <2>2. /\ Len(p) \in Nat \ {0} /\ Front(p) \in Seq(FrameType) /\ Len(Front(p)) = Len(p) - 1
          /\ \A k \in 1 .. Len(p) - 1 : Front(p)[k] = p[k]
      BY <1>2, FrontFacts
    <2> QED BY <2>1, <2>2
  <1> QED BY <1>1, <1>2

LEMMA Pop ==
  ASSUME NEW t \in Tasks, NEW c, NEW d \in ContextType, NEW s, TaskSound(t, c, s), s # <<>>,
         Leaves(Last(s), c, d)
  PROVE  TaskSound(t, d, Front(s))
  <1> DEFINE r == Front(s)
             x == Last(s)
             n == Len(s)
             one == IF x.kind \in {"bind", "request"} THEN 1 ELSE 0
  <1>1. c \in ContextType /\ s \in Seq(ScopeType) BY DEF TaskSound
  <1>2. /\ n \in Nat \ {0} /\ x = s[n] /\ x \in ScopeType /\ r \in Seq(ScopeType)
        /\ Len(r) = n - 1 /\ \A i \in 1 .. n - 1 : r[i] = s[i]
    BY <1>1, FrontFacts
  <1>3. /\ Framed(r) = Framed(s) \ {n}
        /\ \A i \in 1 .. n - 1 : Cardinality(Above(r, i)) = Cardinality(Above(s, i)) - one
    BY <1>1, PopCount
  <1>4. \A i \in 1 .. n - 1 : i \in 1 .. n BY <1>2
  <1>5. \A i \in 1 .. n - 1 : Cardinality(Above(s, i)) \in Nat /\ Cardinality(Above(r, i)) \in Nat
    <2>1. \A i \in 1 .. n - 1 : i \in Int BY <1>2
    <2> HIDE DEF r
    <2> QED BY <1>1, <1>2, <2>1, AboveFinite
  <1>6. PICK p \in Seq(FrameType), q \in Seq(FrameType) : p = c.stack /\ q = d.stack BY <1>1 DEF ContextType
  <1>7. /\ Len(p) \in Nat /\ Len(q) \in Nat /\ Len(q) <= Len(p)
        /\ \A k \in 1 .. Len(q) : q[k] = p[k]
        /\ Len(p) > 0 => Len(q) = Len(p) - one
    <2>1. CASE one = 1
      <3>1. q = Popped(p) BY <1>6, <2>1 DEF Leaves
      <3> HIDE DEF one
      <3> QED BY <2>1, <3>1, PoppedFacts
    <2>2. CASE one = 0
      <3>1. q = p BY <1>6, <2>2 DEF Leaves
      <3>2. Len(p) \in Nat BY LenProperties
      <3> HIDE DEF one
      <3> QED BY <2>2, <3>1, <3>2
    <2> QED BY <2>1, <2>2
  <1>8. \A k \in 1 .. Len(q) : TokenSound(q[k].token)
    <2>1. ASSUME NEW k \in 1 .. Len(q) PROVE TokenSound(q[k].token)
      <3>1. k \in 1 .. Len(p) BY <1>7
      <3>2. q[k] = p[k] BY <1>7
      <3> QED BY <1>6, <3>1, <3>2 DEF TaskSound
    <2> QED BY <2>1
  <1>9. \A i \in 1 .. n - 1 : OwnToken(t, r[i])
    <2>1. ASSUME NEW i \in 1 .. n - 1 PROVE OwnToken(t, r[i])
      <3>1. i \in 1 .. Len(s) /\ r[i] = s[i] BY <1>2, <1>4
      <3> HIDE DEF r
      <3> QED BY <3>1 DEF TaskSound
    <2> QED BY <2>1
  <1>10. \A i, j \in 1 .. n - 1 : i < j /\ r[i].clean => r[j].clean
    <2>1. ASSUME NEW i \in 1 .. n - 1, NEW j \in 1 .. n - 1, i < j, r[i].clean PROVE r[j].clean
      <3>1. i \in 1 .. Len(s) /\ j \in 1 .. Len(s) /\ r[i] = s[i] /\ r[j] = s[j] BY <1>2, <1>4
      <3> HIDE DEF r
      <3> QED BY <2>1, <3>1 DEF TaskSound
    <2> QED BY <2>1
  <1>11. ASSUME NEW i \in 1 .. n - 1, r[i].clean PROVE ScopeSound(t, d, r, i)
    <2>1. i \in 1 .. Len(s) /\ r[i] = s[i] /\ n \in 1 .. Len(s) /\ i < n BY <1>2, <1>4
    <2>2. ScopeSound(t, c, s, i)
      <3> HIDE DEF r
      <3> QED BY <1>11, <2>1 DEF TaskSound
    <2>3. x.clean
      <3> HIDE DEF r, x
      <3> QED BY <1>2, <1>11, <2>1 DEF TaskSound
    <2>4. OtelAfter(d, r, i) = OtelAfter(c, s, i) /\ EntryAfter(d, r, i) = EntryAfter(c, s, i)
      <3> HIDE DEF r
      <3>1. i # Len(s) BY <1>2, <2>1
      <3>2. CASE i = n - 1
        <4>1. s[i + 1] = x BY <1>2, <3>2
        <4>2. d.otel = x.otel /\ d.log["entry"] = x.log["entry"] BY <2>3 DEF Leaves
        <4> HIDE DEF x
        <4> QED BY <1>2, <3>1, <3>2, <4>1, <4>2 DEF OtelAfter, EntryAfter
      <3>3. CASE i # n - 1
        <4>1. i + 1 \in 1 .. n - 1 BY <1>2, <3>3
        <4>2. r[i + 1] = s[i + 1] BY <1>2, <4>1
        <4> HIDE DEF x
        <4> QED BY <1>2, <3>1, <3>3, <4>2 DEF OtelAfter, EntryAfter
      <3> QED BY <3>2, <3>3
    <2>5. i \in Framed(r) <=> i \in Framed(s)
      <3>1. i # n BY <1>2
      <3> HIDE DEF r, n
      <3> QED BY <1>3, <3>1
    <2>6. CASE i \in Framed(s)
      <3> DEFINE a == Cardinality(Above(s, i))
                 b == Cardinality(Above(r, i))
                 l == Len(p)
                 m == Len(q)
      <3>1. a \in Nat /\ b \in Nat /\ b = a - one BY <1>3, <1>5
      <3>2. a < l BY <1>6, <2>2, <2>6 DEF ScopeSound
      <3>3. FrameOf(d, r, i) = q[m - b] /\ FrameOf(c, s, i) = p[l - a] BY <1>6 DEF FrameOf
      <3>4. one \in Int OBVIOUS
      <3>5. l \in Nat /\ m \in Nat /\ (l > 0 => m = l - one) /\ \A k \in 1 .. m : q[k] = p[k] BY <1>7
      <3> HIDE DEF a, b, l, m, one, r
      <3>6. m = l - one BY <3>1, <3>2, <3>5
      <3>7. b < m /\ m - b = l - a /\ m - b \in 1 .. m BY <3>1, <3>2, <3>4, <3>5, <3>6
      <3>8. FrameOf(d, r, i) = FrameOf(c, s, i)
        <4>1. q[m - b] = p[m - b] BY <3>5, <3>7
        <4> QED BY <3>3, <3>7, <4>1
      <3> QED BY <1>6, <2>1, <2>2, <2>4, <2>5, <2>6, <3>7, <3>8 DEF ScopeSound, b, m
    <2>7. CASE i \notin Framed(s)
      <3> HIDE DEF r
      <3> QED BY <2>1, <2>2, <2>4, <2>5, <2>7 DEF ScopeSound
    <2> QED BY <2>6, <2>7
  <1> HIDE DEF r, n
  <1>12. r \in Seq(ScopeType) /\ Len(r) = n - 1 BY <1>2
  <1>13. TaskSound(t, d, r) BY <1>6, <1>8, <1>9, <1>10, <1>11, <1>12 DEF TaskSound
  <1> QED BY <1>13 DEF r

\* A step that no scope of the task minds.
LEMMA Keep ==
  ASSUME NEW t \in Tasks, NEW c, NEW d \in ContextType, NEW s, TaskSound(t, c, s),
         d.stack = c.stack, d.otel = c.otel, d.log["entry"] = c.log["entry"]
  PROVE  TaskSound(t, d, s)
  <1>1. \A i \in 1 .. Len(d.stack) : TokenSound(d.stack[i].token) BY DEF TaskSound
  <1>2. ASSUME NEW i \in 1 .. Len(s), s[i].clean PROVE ScopeSound(t, d, s, i)
    <2>1. ScopeSound(t, c, s, i) BY <1>2 DEF TaskSound
    <2>2. OtelAfter(d, s, i) = OtelAfter(c, s, i) /\ EntryAfter(d, s, i) = EntryAfter(c, s, i)
      BY DEF OtelAfter, EntryAfter
    <2>3. FrameOf(d, s, i) = FrameOf(c, s, i) BY DEF FrameOf
    <2> QED BY <2>1, <2>2, <2>3 DEF ScopeSound
  <1> QED BY <1>1, <1>2 DEF TaskSound

\* A task with no scope open.
LEMMA Fresh ==
  ASSUME NEW t \in Tasks, NEW c \in ContextType, \A i \in 1 .. Len(c.stack) : TokenSound(c.stack[i].token)
  PROVE  TaskSound(t, c, <<>>)
  <1>1. \A i \in 1 .. Len(<<>>) : FALSE OBVIOUS
  <1>2. <<>> \in Seq(ScopeType) OBVIOUS
  <1> QED BY <1>1, <1>2 DEF TaskSound

\* The scopes of a task in which somebody popped or left a frame, or ended a span.
LEMMA MarkedFacts ==
  ASSUME NEW s \in Seq(ScopeType)
  PROVE  /\ Unclean(s) \in Seq(ScopeType) /\ Len(Unclean(s)) = Len(s) /\ Framed(Unclean(s)) = Framed(s)
         /\ \A i \in 1 .. Len(s) : ~Unclean(s)[i].clean /\ Unclean(s)[i] = [s[i] EXCEPT !.clean = FALSE]
  <1> DEFINE r == Unclean(s)
  <1>1. Len(s) \in Nat /\ DOMAIN s = 1 .. Len(s) BY LenProperties
  <1>2. \A i \in 1 .. Len(s) : s[i] \in ScopeType BY ElementOfSeq
  <1>3. ASSUME NEW i \in 1 .. Len(s)
        PROVE  /\ [s[i] EXCEPT !.clean = FALSE] \in ScopeType /\ ~[s[i] EXCEPT !.clean = FALSE].clean
               /\ [s[i] EXCEPT !.clean = FALSE].kind = s[i].kind
    BY <1>2 DEF ScopeType
  <1>4. \A i \in 1 .. Len(s) : r[i] = [s[i] EXCEPT !.clean = FALSE] BY <1>1 DEF Unclean
  <1>5. r \in [1 .. Len(s) -> ScopeType] BY <1>1, <1>3 DEF Unclean
  <1>6. r \in Seq(ScopeType) /\ Len(r) = Len(s) BY <1>1, <1>5
  <1>7. DOMAIN r = 1 .. Len(s) BY <1>5
  <1> HIDE DEF r
  <1>8. Framed(r) = Framed(s) BY <1>1, <1>3, <1>4, <1>7 DEF Framed
  <1>9. r = Unclean(s) BY DEF r
  <1> QED BY <1>3, <1>4, <1>6, <1>8, <1>9

LEMMA MarkedSound ==
  ASSUME NEW t \in Tasks, NEW c, NEW d \in ContextType, NEW s, TaskSound(t, c, s),
         \A i \in 1 .. Len(d.stack) : TokenSound(d.stack[i].token)
  PROVE  TaskSound(t, d, Unclean(s))
  <1>1. s \in Seq(ScopeType) BY DEF TaskSound
  <1>2. /\ Unclean(s) \in Seq(ScopeType) /\ Len(Unclean(s)) = Len(s)
        /\ \A i \in 1 .. Len(s) : ~Unclean(s)[i].clean /\ Unclean(s)[i] = [s[i] EXCEPT !.clean = FALSE]
    BY <1>1, MarkedFacts
  <1>3. ASSUME NEW i \in 1 .. Len(s) PROVE OwnToken(t, Unclean(s)[i])
    <2>1. OwnToken(t, s[i]) BY DEF TaskSound
    <2>2. s[i] \in ScopeType BY <1>1, ElementOfSeq
    <2>3. Unclean(s)[i].token = s[i].token /\ Unclean(s)[i].kind = s[i].kind BY <1>2, <2>2 DEF ScopeType
    <2> QED BY <2>1, <2>3 DEF OwnToken
  <1> QED BY <1>2, <1>3 DEF TaskSound
-----------------------------------------------------------------------------
(* The context operations                                                  *)

HeaderType == [Inbound \cup {"session_id"} -> Nat]

LEMMA FieldNames ==
  /\ Inbound \subseteq Saved /\ Saved \subseteq Fields /\ "entry" \in Saved /\ "baggage" \in Inbound
  /\ "traceparent" \in Inbound /\ "entry" \notin Inbound /\ "own" \in Fields /\ "own" \notin Saved
  /\ "request_id" \in Fields \ Saved /\ "session_id" \in Fields \ Saved
  BY DEF Inbound, Saved, Fields

LEMMA IdTypes == NoIds \in IdType /\ NoopIds \in IdType /\ NoToken \in TokenType
  BY DEF NoIds, NoopIds, NoToken, IdType, TokenType, None

\* bind_context keeps the types, and the fields it is not given.
LEMMA BindContextFacts ==
  ASSUME NEW log \in LogType, NEW r, \A f \in DOMAIN r : r[f] \in Int
  PROVE  /\ BindContext(log, r) \in LogType
         /\ \A f \in Fields : (f \notin DOMAIN r \/ r[f] = None) => BindContext(log, r)[f] = log[f]
  BY DEF BindContext, LogType

\* The request and session ids are none of the fields that scopes give back.
LEMMA WithRequestFacts ==
  ASSUME NEW c \in ContextType, NEW h \in HeaderType
  PROVE  LET d == WithRequest(c, h)
         IN  /\ d \in ContextType /\ d.ids = c.ids /\ d.otel = c.otel /\ d.stack = c.stack
             /\ \A k \in Saved : d.log[k] = c.log[k]
  <1> DEFINE r == [request_id |-> 1, session_id |-> h["session_id"]]
             g == BindContext(c.log, r)
  <1>1. c.log \in LogType BY DEF ContextType
  <1>2. DOMAIN r = {"request_id", "session_id"} /\ r["request_id"] = 1 /\ r["session_id"] = h["session_id"]
    OBVIOUS
  <1>3. h["session_id"] \in Int BY DEF HeaderType
  <1>4. \A f \in DOMAIN r : r[f] \in Int BY <1>2, <1>3
  <1>5. \A k \in Saved : k \in Fields /\ k \notin DOMAIN r BY <1>2, FieldNames
  <1> HIDE DEF r
  <1>6. g \in LogType /\ \A k \in Saved : g[k] = c.log[k] BY <1>1, <1>4, <1>5, BindContextFacts
  <1>7. WithRequest(c, h) = [c EXCEPT !.log = g] BY DEF WithRequest, r
  <1> HIDE DEF g
  <1> QED BY <1>6, <1>7 DEF ContextType

\* A frame holds what there was before anything was bound.
LEMMA BoundFacts ==
  ASSUME NEW t \in Tasks, NEW c \in ContextType, NEW h \in HeaderType, sdk \in BOOLEAN
  PROVE  LET d == Bound(t, c, h)
             f == Snapshot(t, c, h)
         IN  /\ d \in ContextType /\ f \in FrameType /\ d.stack = Append(c.stack, f)
             /\ TokenSound(f.token) /\ f.ids = c.ids /\ \A k \in Saved : f.log[k] = c.log[k]
             /\ ~f.entry => d.log["entry"] = c.log["entry"]
             /\ IF sdk /\ Parsed(h)
                THEN f.token = [task |-> t, old |-> c.otel] /\ d.ids = Ids(h) /\ d.otel = Extracted(h)
                ELSE f.token = NoToken /\ d.otel = c.otel /\ (~Parsed(h) => d.ids = c.ids)
  <1> DEFINE f == Snapshot(t, c, h)
             d == Bound(t, c, h)
             g == BindContext(c.log, HeaderFields(h))
             saved == [k \in Inbound \cup {"entry"} |-> c.log[k]]
             some == h["baggage"] # None
  <1>1. c.log \in LogType /\ c.ids \in IdType /\ c.otel \in IdType /\ c.stack \in Seq(FrameType)
    BY DEF ContextType
  <1>2. h["baggage"] \in Int /\ h["traceparent"] \in Int /\ \A k \in Inbound : h[k] \in Int
    BY FieldNames DEF HeaderType
  <1>3. DOMAIN HeaderFields(h) = Saved /\ HeaderFields(h)["entry"] = h["baggage"]
    BY FieldNames DEF HeaderFields, Saved
  <1>4. \A k \in Saved : HeaderFields(h)[k] \in Int BY <1>2, <1>3 DEF HeaderFields, Saved
  <1>5. g \in LogType /\ (h["baggage"] = None => g["entry"] = c.log["entry"])
    BY <1>1, <1>3, <1>4, FieldNames, BindContextFacts
  <1>6. Ids(h) \in IdType /\ Extracted(h) \in IdType BY <1>2, IdTypes DEF Ids, Extracted, IdType
  <1>7. saved \in [Saved -> Int] /\ \A k \in Saved : saved[k] = c.log[k]
    BY <1>1, FieldNames DEF LogType, Saved
  <1>8. Attach(t, c, h) \in TokenType /\ TokenSound(Attach(t, c, h))
    BY <1>1, IdTypes DEF Attach, TokenType, TokenSound
  <1>9. some \in BOOLEAN OBVIOUS
  <1>10. f = [log |-> saved, ids |-> c.ids, token |-> Attach(t, c, h), entry |-> some] BY DEF Snapshot
  <1>11. d = [log |-> g, ids |-> IF Parsed(h) THEN Ids(h) ELSE c.ids,
              otel |-> IF sdk /\ Parsed(h) THEN Extracted(h) ELSE c.otel, stack |-> Append(c.stack, f)]
    BY DEF Bound
  <1>12. some <=> h["baggage"] # None OBVIOUS
  <1> HIDE DEF saved, g, f, d, some
  <1>13. f \in FrameType /\ f.token = Attach(t, c, h) /\ f.ids = c.ids /\ f.log = saved /\ f.entry = some
    BY <1>1, <1>7, <1>8, <1>9, <1>10 DEF FrameType
  <1>14. Append(c.stack, f) \in Seq(FrameType) BY <1>1, <1>13, AppendProperties
  <1>15. /\ d.log = g /\ d.ids = (IF Parsed(h) THEN Ids(h) ELSE c.ids)
         /\ d.otel = (IF sdk /\ Parsed(h) THEN Extracted(h) ELSE c.otel) /\ d.stack = Append(c.stack, f)
    BY <1>11
  <1>16. d \in ContextType BY <1>1, <1>5, <1>6, <1>11, <1>14 DEF ContextType
  <1>17. IF sdk /\ Parsed(h)
         THEN f.token = [task |-> t, old |-> c.otel] /\ d.ids = Ids(h) /\ d.otel = Extracted(h)
         ELSE f.token = NoToken /\ d.otel = c.otel /\ (~Parsed(h) => d.ids = c.ids)
    BY <1>13, <1>15 DEF Attach
  <1>18. ~f.entry => d.log["entry"] = c.log["entry"] BY <1>5, <1>12, <1>13, <1>15
  <1>19. \A k \in Saved : f.log[k] = c.log[k] BY <1>7, <1>13
  <1>20. d = Bound(t, c, h) /\ f = Snapshot(t, c, h) BY DEF d, f
  <1> QED BY <1>8, <1>13, <1>15, <1>16, <1>17, <1>18, <1>19, <1>20
-----------------------------------------------------------------------------
(* What entering and leaving a scope does to its context                   *)

\* A token of a task is never the absent one.
LEMMA OwnTokens ==
  ASSUME NEW t \in Tasks, NEW old
  PROVE  [task |-> t, old |-> old] # NoToken
  <1>1. "none" \notin Tasks BY PropagationAssumption
  <1>2. NoToken.task = "none" BY DEF NoToken
  <1>3. [task |-> t, old |-> old].task = t OBVIOUS
  <1> QED BY <1>1, <1>2, <1>3

LEMMA ScopeFacts ==
  ASSUME NEW kind \in Kinds, NEW c \in ContextType, NEW token \in TokenType
  PROVE  LET x == Scope(kind, c, token)
         IN  /\ x \in ScopeType /\ x.kind = kind /\ x.log = c.log /\ x.ids = c.ids
             /\ x.otel = c.otel /\ x.token = token /\ x.clean
  BY DEF Scope, ScopeType, ContextType

\* Bind and Request: the frame holds what the scope found.
LEMMA BindEnters ==
  ASSUME NEW t \in Tasks, NEW kind \in {"bind", "request"}, NEW c \in ContextType, NEW e \in ContextType,
         NEW h \in HeaderType, sdk \in BOOLEAN, e.ids = c.ids, e.otel = c.otel, e.stack = c.stack,
         \A k \in Saved : e.log[k] = c.log[k]
  PROVE  /\ Bound(t, e, h) \in ContextType /\ Enters(t, Scope(kind, c, NoToken), c, Bound(t, e, h))
         /\ sdk /\ Agree(c.ids, c.otel) => Agree(Bound(t, e, h).ids, Bound(t, e, h).otel)
  <1> DEFINE f == Snapshot(t, e, h)
             d == Bound(t, e, h)
             x == Scope(kind, c, NoToken)
  <1>1. /\ d \in ContextType /\ f \in FrameType /\ d.stack = Append(e.stack, f)
        /\ TokenSound(f.token) /\ f.ids = e.ids /\ (\A k \in Saved : f.log[k] = e.log[k])
        /\ (~f.entry => d.log["entry"] = e.log["entry"])
    BY BoundFacts
  <1>2. IF sdk /\ Parsed(h)
        THEN f.token = [task |-> t, old |-> e.otel] /\ d.ids = Ids(h) /\ d.otel = Extracted(h)
        ELSE f.token = NoToken /\ d.otel = e.otel /\ (~Parsed(h) => d.ids = e.ids)
    BY BoundFacts
  <1>3. /\ x \in ScopeType /\ x.kind = kind /\ x.log = c.log /\ x.ids = c.ids
        /\ x.otel = c.otel /\ x.token = NoToken /\ x.clean
    <2>1. kind \in Kinds BY DEF Kinds
    <2> QED BY <2>1, ScopeFacts, IdTypes
  <1>4. [task |-> t, old |-> e.otel] # NoToken BY OwnTokens
  <1>5. [task |-> t, old |-> e.otel].task = t /\ [task |-> t, old |-> e.otel].old = e.otel OBVIOUS
  <1> HIDE DEF f, d, x
  <1>6. GivesBack(t, f.token, x, d.otel) BY <1>2, <1>3, <1>4, <1>5 DEF GivesBack
  <1>7. FrameSound(t, f, x, d.otel, d.log["entry"]) BY <1>1, <1>3, <1>6, FieldNames DEF FrameSound
  <1>8. OwnToken(t, x) BY <1>3 DEF OwnToken
  <1>9. Enters(t, x, c, d) BY <1>1, <1>3, <1>7, <1>8 DEF Enters
  <1>10. sdk /\ Agree(c.ids, c.otel) => Agree(d.ids, d.otel) BY <1>2 DEF Agree, Ids, Extracted
  <1> QED BY <1>1, <1>9, <1>10 DEF d, x

\* WebSocket and Span: what the scope found is in its locals.
LEMMA LocalEnters ==
  ASSUME NEW t \in Tasks, NEW kind \in {"websocket", "span"}, NEW c \in ContextType, NEW d \in ContextType,
         NEW token \in TokenType, d.stack = c.stack, d.log["entry"] = c.log["entry"],
         \/ token = NoToken /\ d.otel = c.otel
         \/ kind = "span" /\ token = [task |-> t, old |-> c.otel]
  PROVE  Enters(t, Scope(kind, c, token), c, d)
  <1> DEFINE x == Scope(kind, c, token)
  <1>1. /\ x \in ScopeType /\ x.kind = kind /\ x.log = c.log /\ x.ids = c.ids
        /\ x.otel = c.otel /\ x.token = token /\ x.clean
    <2>1. kind \in Kinds BY DEF Kinds
    <2> QED BY <2>1, ScopeFacts
  <1>2. [task |-> t, old |-> c.otel] # NoToken BY OwnTokens
  <1>3. [task |-> t, old |-> c.otel].task = t /\ [task |-> t, old |-> c.otel].old = c.otel OBVIOUS
  <1> HIDE DEF x
  <1>4. GivesBack(t, x.token, x, d.otel) BY <1>1, <1>2, <1>3 DEF GivesBack
  <1>5. OwnToken(t, x) BY <1>1, <1>2, <1>3 DEF OwnToken
  <1>6. Enters(t, x, c, d) BY <1>1, <1>4, <1>5 DEF Enters, LocalsSound
  <1> QED BY <1>6 DEF x

\* A detached token gives back what its scope found.
LEMMA Detached ==
  ASSUME NEW t, NEW token, NEW x, NEW otel, GivesBack(t, token, x, otel)
  PROVE  DetachToken(t, otel, token) = x.otel
  BY DEF GivesBack, DetachToken, Reset

LEMMA DetachType ==
  ASSUME NEW t, NEW token \in TokenType, NEW otel \in IdType
  PROVE  DetachToken(t, otel, token) \in IdType
  BY DEF DetachToken, Reset, TokenType

\* clear_propagation_context keeps the types and pops at most one frame; with a frame there,
\* it restores what the frame holds.
LEMMA ClearedFacts ==
  ASSUME NEW t, NEW c \in ContextType
  PROVE  LET d == Cleared(t, c)
             f == Last(c.stack)
         IN  /\ d \in ContextType /\ d.stack = Popped(c.stack)
             /\ c.stack # <<>> =>
                  /\ d.ids = f.ids /\ d.otel = DetachToken(t, c.otel, f.token)
                  /\ \A k \in Inbound : d.log[k] = f.log[k]
                  /\ d.log["entry"] = IF f.entry THEN f.log["entry"] ELSE c.log["entry"]
  <1> DEFINE f == IF c.stack = <<>> THEN Unbound ELSE Last(c.stack)
             g == [k \in Fields |-> IF k \in Inbound \/ (k = "entry" /\ f.entry) THEN f.log[k] ELSE c.log[k]]
             d == Cleared(t, c)
  <1>1. c.log \in LogType /\ c.otel \in IdType /\ c.stack \in Seq(FrameType) BY DEF ContextType
  <1>2. /\ f.ids \in IdType /\ f.token \in TokenType /\ f.entry \in BOOLEAN
        /\ \A k \in Inbound : f.log[k] \in Int
        /\ f.entry => f.log["entry"] \in Int
    <2>1. CASE c.stack = <<>>
      <3>1. f = Unbound BY <2>1
      <3> HIDE DEF f
      <3> QED BY <3>1, IdTypes DEF Unbound, None
    <2>2. CASE c.stack # <<>>
      <3>1. f \in FrameType BY <1>1, <2>2, FrontFacts
      <3> HIDE DEF f
      <3> QED BY <3>1, FieldNames DEF FrameType
    <2> QED BY <2>1, <2>2
  <1>3. d = [log |-> g, ids |-> f.ids, otel |-> DetachToken(t, c.otel, f.token), stack |-> Popped(c.stack)]
    BY DEF Cleared, Popped
  <1>4. c.stack # <<>> => f = Last(c.stack) OBVIOUS
  <1> HIDE DEF f, d
  <1>5. g \in LogType
    <2>1. ASSUME NEW k \in Fields PROVE g[k] \in Int
      <3>1. c.log[k] \in Int BY <1>1 DEF LogType
      <3> QED BY <1>2, <3>1
    <2> QED BY <2>1 DEF LogType
  <1>6. (\A k \in Inbound : g[k] = f.log[k]) /\ g["entry"] = IF f.entry THEN f.log["entry"] ELSE c.log["entry"]
    BY FieldNames
  <1> HIDE DEF g
  <1>7. DetachToken(t, c.otel, f.token) \in IdType BY <1>1, <1>2, DetachType
  <1>8. Popped(c.stack) \in Seq(FrameType) BY <1>1, PoppedFacts
  <1>9. d \in ContextType BY <1>2, <1>3, <1>5, <1>7, <1>8 DEF ContextType
  <1>10. d.log = g /\ d.ids = f.ids /\ d.otel = DetachToken(t, c.otel, f.token) /\ d.stack = Popped(c.stack)
    BY <1>3
  <1>11. d = Cleared(t, c) BY DEF d
  <1> QED BY <1>4, <1>6, <1>9, <1>10, <1>11

\* A clean scope that is innermost: its end gives back what it found.
LEMMA FrameCloses ==
  ASSUME NEW t \in Tasks, NEW c, NEW s, TaskSound(t, c, s), s # <<>>,
         Last(s).kind \in {"bind", "request"}, Last(s).clean
  PROVE  LET x == Last(s)
             d == Cleared(t, c)
         IN  c.stack # <<>> /\ d.ids = x.ids /\ d.otel = x.otel /\ \A k \in Saved : d.log[k] = x.log[k]
  <1> DEFINE x == Last(s)
             n == Len(s)
             d == Cleared(t, c)
             f == Last(c.stack)
  <1>1. c \in ContextType /\ s \in Seq(ScopeType) BY DEF TaskSound
  <1>2. n \in Nat \ {0} /\ x = s[n] BY <1>1, FrontFacts
  <1>3. ScopeSound(t, c, s, n) BY <1>2 DEF TaskSound
  <1>4. n \in Framed(s) /\ Cardinality(Above(s, n)) = 0 BY <1>1, PopCount
  <1>5. c.stack \in Seq(FrameType) /\ Len(c.stack) \in Nat BY <1>1 DEF ContextType
  <1>6. 0 < Len(c.stack) BY <1>3, <1>4 DEF ScopeSound
  <1>7. c.stack # <<>> BY <1>5, <1>6, EmptySeq
  <1>8. FrameOf(c, s, n) = f
    <2>1. f = c.stack[Len(c.stack)] BY <1>5, <1>7, FrontFacts
    <2>2. Len(c.stack) - 0 = Len(c.stack) BY <1>5
    <2> QED BY <1>4, <2>1, <2>2 DEF FrameOf
  <1>9. FrameSound(t, f, x, c.otel, c.log["entry"])
    <2>1. OtelAfter(c, s, n) = c.otel /\ EntryAfter(c, s, n) = c.log["entry"] BY DEF OtelAfter, EntryAfter
    <2> HIDE DEF x, f, n
    <2> QED BY <1>2, <1>3, <1>4, <1>8, <2>1 DEF ScopeSound
  <1>10. /\ d.ids = f.ids /\ d.otel = DetachToken(t, c.otel, f.token)
         /\ (\A k \in Inbound : d.log[k] = f.log[k])
         /\ d.log["entry"] = IF f.entry THEN f.log["entry"] ELSE c.log["entry"]
    BY <1>1, <1>7, ClearedFacts
  <1> HIDE DEF d, x, f
  <1>11. d.otel = x.otel BY <1>9, <1>10, Detached DEF FrameSound
  <1>12. \A k \in Saved : d.log[k] = x.log[k]
    <2>1. \A k \in Saved : f.log[k] = x.log[k] BY <1>9 DEF FrameSound
    <2>2. d.log["entry"] = x.log["entry"] BY <1>9, <1>10, <2>1, FieldNames DEF FrameSound
    <2> QED BY <1>10, <2>1, <2>2, FieldNames DEF Saved
  <1>13. d.ids = x.ids BY <1>9, <1>10 DEF FrameSound
  <1> QED BY <1>7, <1>11, <1>12, <1>13 DEF d, x

LEMMA LocalCloses ==
  ASSUME NEW t \in Tasks, NEW c, NEW s, TaskSound(t, c, s), s # <<>>,
         Last(s).kind \in {"websocket", "span"}, Last(s).clean
  PROVE  /\ c.log["entry"] = Last(s).log["entry"] /\ DetachToken(t, c.otel, Last(s).token) = Last(s).otel
         /\ Last(s).kind = "websocket" => c.otel = Last(s).otel
  <1> DEFINE x == Last(s)
             n == Len(s)
  <1>1. c \in ContextType /\ s \in Seq(ScopeType) BY DEF TaskSound
  <1>2. n \in Nat \ {0} /\ x = s[n] BY <1>1, FrontFacts
  <1>3. ScopeSound(t, c, s, n) /\ OwnToken(t, x)
    <2>1. n \in 1 .. Len(s) BY <1>2
    <2> HIDE DEF n
    <2> QED BY <1>2, <2>1 DEF TaskSound
  <1>4. n \notin Framed(s)
    <2> HIDE DEF n, x
    <2> QED BY <1>2 DEF Framed, x
  <1>5. LocalsSound(t, x, c.otel, c.log["entry"])
    <2>1. OtelAfter(c, s, n) = c.otel /\ EntryAfter(c, s, n) = c.log["entry"] BY DEF OtelAfter, EntryAfter
    <2> HIDE DEF x, n
    <2> QED BY <1>2, <1>3, <1>4, <2>1 DEF ScopeSound
  <1>6. DetachToken(t, c.otel, x.token) = x.otel BY <1>5, Detached DEF LocalsSound
  <1>7. x.kind = "websocket" => c.otel = x.otel
    <2> HIDE DEF x
    <2> QED BY <1>3, <1>5 DEF LocalsSound, GivesBack, OwnToken
  <1> QED BY <1>5, <1>6, <1>7 DEF LocalsSound
-----------------------------------------------------------------------------
(* One task                                                                *)

LEMMA EnterInv ==
  ASSUME NEW t \in Tasks, NEW c, NEW d \in ContextType, NEW s, NEW x, NEW A, NEW W, NEW n \in Nat,
         TaskInv(t, c, s, A, W, n), t \in A, Enters(t, x, c, d), x.ids = c.ids,
         sdk /\ Agree(c.ids, c.otel) => Agree(d.ids, d.otel)
  PROVE  TaskInv(t, d, Append(s, x), A, W, n + 1)
  <1> DEFINE r == Append(s, x)
             one == IF x.kind \in {"bind", "request"} THEN 1 ELSE 0
  <1>1. c \in ContextType /\ s \in Seq(ScopeType) /\ x \in ScopeType BY DEF TaskInv, TaskSound, Enters
  <1>2. TaskSound(t, d, r) BY Push DEF TaskInv
  <1>3. /\ Len(s) \in Nat /\ Len(r) = Len(s) + 1 /\ r[Len(s) + 1] = x
        /\ \A i \in 1 .. Len(s) : r[i] = s[i]
    BY <1>1, AppendProperties, LenProperties
  <1>4. Len(s) <= n BY DEF TaskInv
  <1>5. \A i \in 1 .. Len(r) : (i \in 1 .. Len(s) /\ r[i] = s[i]) \/ r[i] = x
    <2>1. ASSUME NEW i \in 1 .. Len(r) PROVE (i \in 1 .. Len(s) /\ r[i] = s[i]) \/ r[i] = x
      <3>1. i \in 1 .. Len(s) \/ i = Len(s) + 1 BY <1>3
      <3> QED BY <1>3, <3>1
    <2> QED BY <2>1
  <1>6. t \notin W => \A i \in 1 .. Len(r) : r[i].clean BY <1>5 DEF TaskInv, Enters
  <1>7. x.ids = c.ids /\ x.otel = c.otel BY DEF Enters
  <1>8. sdk /\ t \in A \ W =>
          Agree(d.ids, d.otel) /\ \A i \in 1 .. Len(r) : Agree(r[i].ids, r[i].otel)
    <2>1. ASSUME sdk, t \in A \ W PROVE Agree(d.ids, d.otel) /\ \A i \in 1 .. Len(r) : Agree(r[i].ids, r[i].otel)
      <3>1. Agree(c.ids, c.otel) /\ \A i \in 1 .. Len(s) : Agree(s[i].ids, s[i].otel) BY <2>1 DEF TaskInv
      <3>2. Agree(x.ids, x.otel) BY <1>7, <3>1
      <3> HIDE DEF r
      <3> QED BY <1>5, <2>1, <3>1, <3>2
    <2> QED BY <2>1
  <1>9. t = Main /\ t \notin W => Len(d.stack) = Cardinality(Framed(r))
    <2>1. Cardinality(Framed(r)) = Cardinality(Framed(s)) + one BY <1>1, PushCount
    <2>2. Len(d.stack) = Len(c.stack) + one
      <3>1. c.stack \in Seq(FrameType) /\ Len(c.stack) \in Nat BY <1>1 DEF ContextType
      <3>2. CASE one = 1
        <4>1. PICK f \in FrameType : d.stack = Append(c.stack, f) BY <3>2 DEF Enters
        <4>2. Len(d.stack) = Len(c.stack) + 1 BY <3>1, <4>1, AppendProperties
        <4> QED BY <3>2, <4>2
      <3>3. CASE one = 0
        <4>1. d.stack = c.stack BY <3>3 DEF Enters
        <4> HIDE DEF one
        <4>2. Len(c.stack) + 0 = Len(c.stack) BY <3>1
        <4> QED BY <3>3, <4>1, <4>2
      <3>4. one = 1 \/ one = 0 OBVIOUS
      <3> HIDE DEF one
      <3> QED BY <3>2, <3>3, <3>4
    <2>3. t = Main /\ t \notin W => Len(c.stack) = Cardinality(Framed(s)) BY DEF TaskInv
    <2> HIDE DEF r, one
    <2> QED BY <2>1, <2>2, <2>3
  <1>10. Len(r) <= n + 1 BY <1>3, <1>4
  <1> HIDE DEF r
  <1>11. TaskInv(t, d, r, A, W, n + 1) BY <1>2, <1>6, <1>8, <1>9, <1>10 DEF TaskInv
  <1> QED BY <1>11 DEF r

LEMMA LeaveInv ==
  ASSUME NEW t \in Tasks, NEW c, NEW d \in ContextType, NEW s, NEW A, NEW W, NEW n \in Nat,
         TaskInv(t, c, s, A, W, n), s # <<>>, Leaves(Last(s), c, d),
         Last(s).clean => d.ids = Last(s).ids \/ (d.ids = c.ids /\ d.otel = c.otel)
  PROVE  TaskInv(t, d, Front(s), A, W, n)
  <1> DEFINE r == Front(s)
             x == Last(s)
             one == IF x.kind \in {"bind", "request"} THEN 1 ELSE 0
  <1>1. c \in ContextType /\ s \in Seq(ScopeType) BY DEF TaskInv, TaskSound
  <1>2. TaskSound(t, d, r) BY Pop DEF TaskInv
  <1>3. /\ Len(s) \in Nat \ {0} /\ x = s[Len(s)] /\ Len(r) = Len(s) - 1
        /\ \A i \in 1 .. Len(s) - 1 : r[i] = s[i]
    BY <1>1, FrontFacts
  <1>4. Len(s) <= n /\ t \in A BY DEF TaskInv
  <1>5. (\A i \in 1 .. Len(r) : i \in 1 .. Len(s) /\ r[i] = s[i]) /\ Len(s) \in 1 .. Len(s) BY <1>3
  <1>6. t \notin W => x.clean /\ \A i \in 1 .. Len(r) : r[i].clean
    <2>1. t \notin W => \A i \in 1 .. Len(s) : s[i].clean BY DEF TaskInv
    <2> HIDE DEF r, x
    <2> QED BY <1>3, <1>5, <2>1
  <1>7. sdk /\ t \in A \ W =>
          Agree(d.ids, d.otel) /\ \A i \in 1 .. Len(r) : Agree(r[i].ids, r[i].otel)
    <2>1. ASSUME sdk, t \in A \ W PROVE Agree(d.ids, d.otel) /\ \A i \in 1 .. Len(r) : Agree(r[i].ids, r[i].otel)
      <3>1. Agree(c.ids, c.otel) /\ \A i \in 1 .. Len(s) : Agree(s[i].ids, s[i].otel) BY <2>1 DEF TaskInv
      <3>2. d.otel = x.otel /\ (d.ids = x.ids \/ (d.ids = c.ids /\ d.otel = c.otel)) BY <1>6, <2>1 DEF Leaves
      <3> HIDE DEF r, x
      <3> QED BY <1>3, <1>5, <3>1, <3>2
    <2> QED BY <2>1
  <1>8. t = Main /\ t \notin W => Len(d.stack) = Cardinality(Framed(r))
    <2>1. Cardinality(Framed(r)) = Cardinality(Framed(s)) - one BY <1>1, PopCount
    <2>2. r \in Seq(ScopeType) BY <1>1, FrontFacts
    <2>3. Cardinality(Framed(r)) \in Nat /\ Cardinality(Framed(s)) \in Nat
      <3>1. 0 \in Int OBVIOUS
      <3> HIDE DEF r
      <3> QED BY <1>1, <2>2, <3>1, AboveFinite
    <2>4. t = Main /\ t \notin W => Len(c.stack) = Cardinality(Framed(s)) BY DEF TaskInv
    <2>5. c.stack \in Seq(FrameType) BY <1>1 DEF ContextType
    <2>6. CASE one = 1
      <3>1. d.stack = Popped(c.stack) BY <2>6 DEF Leaves
      <3>2. Len(c.stack) > 0 => Len(d.stack) = Len(c.stack) - 1 BY <2>5, <3>1, PoppedFacts
      <3> HIDE DEF r, one
      <3> QED BY <2>1, <2>3, <2>4, <2>6, <3>2
    <2>7. CASE one = 0
      <3>1. d.stack = c.stack BY <2>7 DEF Leaves
      <3> HIDE DEF r, one
      <3> QED BY <2>1, <2>3, <2>4, <2>7, <3>1
    <2> QED BY <2>6, <2>7
  <1>9. Len(r) <= n BY <1>3, <1>4
  <1> HIDE DEF r, x
  <1>10. TaskInv(t, d, r, A, W, n) BY <1>2, <1>4, <1>6, <1>7, <1>8, <1>9 DEF TaskInv
  <1> QED BY <1>10 DEF r

\* Somebody else's frame was popped, or somebody else's span ended here.
LEMMA MarkInv ==
  ASSUME NEW t \in Tasks, NEW c, NEW d \in ContextType, NEW s, NEW A, NEW W, NEW B, NEW V, NEW n,
         TaskInv(t, c, s, A, W, n), \A i \in 1 .. Len(d.stack) : TokenSound(d.stack[i].token),
         t \in V, t \in A => t \in B
  PROVE  TaskInv(t, d, Unclean(s), B, V, n)
  <1>1. s \in Seq(ScopeType) BY DEF TaskInv, TaskSound
  <1>2. Len(Unclean(s)) = Len(s) /\ Unclean(s) \in Seq(ScopeType) BY <1>1, MarkedFacts
  <1>3. TaskSound(t, d, Unclean(s)) BY MarkedSound DEF TaskInv
  <1>4. Unclean(s) # <<>> => s # <<>> BY <1>1, <1>2, EmptySeq
  <1> QED BY <1>2, <1>3, <1>4 DEF TaskInv

\* The innermost scope was left with its frame still there.
LEMMA LeftInv ==
  ASSUME NEW t \in Tasks, NEW c, NEW s, NEW A, NEW W, NEW V, NEW n \in Nat,
         TaskInv(t, c, s, A, W, n), s # <<>>, t \in V
  PROVE  TaskInv(t, c, Unclean(Front(s)), A, V, n)
  <1> DEFINE r == Front(s)
             q == Unclean(r)
  <1>1. c \in ContextType /\ s \in Seq(ScopeType) BY DEF TaskInv, TaskSound
  <1>2. /\ r \in Seq(ScopeType) /\ Len(s) \in Nat \ {0} /\ Len(r) = Len(s) - 1
        /\ \A i \in 1 .. Len(s) - 1 : r[i] = s[i]
    BY <1>1, FrontFacts
  <1> HIDE DEF r
  <1>3. /\ q \in Seq(ScopeType) /\ Len(q) = Len(r)
        /\ \A i \in 1 .. Len(r) : ~q[i].clean /\ q[i] = [r[i] EXCEPT !.clean = FALSE]
    BY <1>2, MarkedFacts
  <1>4. ASSUME NEW i \in 1 .. Len(r) PROVE OwnToken(t, q[i])
    <2>1. i \in 1 .. Len(s) /\ r[i] = s[i] BY <1>2
    <2>2. OwnToken(t, r[i]) BY <2>1 DEF TaskInv, TaskSound
    <2>3. r[i] \in ScopeType BY <1>2, ElementOfSeq
    <2>4. q[i].token = r[i].token /\ q[i].kind = r[i].kind BY <1>3, <2>3 DEF ScopeType
    <2> QED BY <2>2, <2>4 DEF OwnToken
  <1> HIDE DEF q
  <1>5. \A i \in 1 .. Len(c.stack) : TokenSound(c.stack[i].token) BY DEF TaskInv, TaskSound
  <1>6. TaskSound(t, c, q) BY <1>1, <1>3, <1>4, <1>5 DEF TaskSound
  <1>7. Len(s) <= n /\ t \in A BY DEF TaskInv
  <1>8. Len(q) <= n BY <1>2, <1>3, <1>7
  <1>9. TaskInv(t, c, q, A, V, n) BY <1>6, <1>7, <1>8 DEF TaskInv
  <1> QED BY <1>9 DEF q, r

\* A task that has no scope open.
LEMMA FreshInv ==
  ASSUME NEW t \in Tasks \ {Main}, NEW c \in ContextType, NEW A, NEW W, NEW n \in Nat,
         \A i \in 1 .. Len(c.stack) : TokenSound(c.stack[i].token),
         sdk /\ t \in A \ W => Agree(c.ids, c.otel)
  PROVE  TaskInv(t, c, <<>>, A, W, n)
  <1>1. TaskSound(t, c, <<>>) BY Fresh
  <1>2. Len(<<>>) = 0 /\ \A i \in 1 .. Len(<<>>) : FALSE OBVIOUS
  <1>3. Len(<<>>) <= n BY <1>2
  <1> QED BY <1>1, <1>2, <1>3 DEF TaskInv

\* A task that the step does not concern.
LEMMA OtherInv ==
  ASSUME NEW t, NEW c, NEW s, NEW A, NEW W, NEW n \in Nat, NEW B, NEW V, NEW m \in Nat,
         TaskInv(t, c, s, A, W, n), t \in A <=> t \in B, t \in W <=> t \in V, n <= m
  PROVE  TaskInv(t, c, s, B, V, m)
  <1>1. s \in Seq(ScopeType) /\ Len(s) \in Nat /\ Len(s) <= n BY LenProperties DEF TaskInv, TaskSound
  <1>2. Len(s) <= m BY <1>1
  <1> QED BY <1>2 DEF TaskInv
-----------------------------------------------------------------------------
(* The invariant                                                           *)

LEMMA HeaderTypes == Headers \subseteq HeaderType /\ Main \in Tasks /\ MaxScopes \in Nat
  BY PropagationAssumption DEF HeaderType

LEMMA ContextInit == Init => ContextInv
  <1> SUFFICES ASSUME Init PROVE ContextInv OBVIOUS
  <1> DEFINE c == [log |-> EmptyLog, ids |-> NoIds, otel |-> NoIds, stack |-> <<>>]
  <1>1. EmptyLog \in LogType BY DEF EmptyLog, LogType, None
  <1>2. <<>> \in Seq(FrameType) /\ <<>> \in Seq(ScopeType) /\ Len(<<>>) = 0 OBVIOUS
  <1>3. c \in ContextType /\ c.stack = <<>> /\ c.ids = NoIds /\ c.otel = NoIds
    BY <1>1, <1>2, IdTypes DEF ContextType
  <1>4. ctx = [t \in Tasks |-> c] /\ open = [t \in Tasks |-> <<>>] BY DEF Init
  <1>5. scopes = 0 /\ alive = {Main} /\ stray = {} /\ sdk \in BOOLEAN /\ real \in BOOLEAN /\ (real => sdk)
    BY DEF Init
  <1> HIDE DEF c
  <1>6. ASSUME NEW t \in Tasks PROVE TaskInv(t, ctx[t], open[t], alive, stray, scopes)
    <2>1. ctx[t] = c /\ open[t] = <<>> BY <1>4
    <2>2. \A i \in 1 .. Len(c.stack) : FALSE BY <1>3
    <2>3. TaskSound(t, c, <<>>) BY <1>3, <2>2, Fresh
    <2>4. Framed(<<>>) = {} BY DEF Framed
    <2>5. Cardinality(Framed(<<>>)) = 0 BY <2>4, FS_EmptySet
    <2>6. Agree(c.ids, c.otel) BY <1>3 DEF Agree
    <2>7. Len(<<>>) <= 0 /\ \A i \in 1 .. Len(<<>>) : FALSE OBVIOUS
    <2>8. Len(c.stack) = 0 BY <1>3
    <2>9. TaskInv(t, c, <<>>, alive, stray, 0) BY <2>3, <2>5, <2>6, <2>7, <2>8 DEF TaskInv
    <2> QED BY <1>5, <2>1, <2>9
  <1>7. 0 \in 0 .. MaxScopes /\ Main \in Tasks BY HeaderTypes
  <1>8. ctx \in [Tasks -> ContextType] /\ open \in [Tasks -> Seq(ScopeType)] BY <1>2, <1>3, <1>4
  <1> QED BY <1>5, <1>6, <1>7, <1>8 DEF ContextInv

\* The invariant of the next state, task by task.
LEMMA ContextPrime ==
  ASSUME ContextInv, sdk' = sdk, real' = real,
         alive' \subseteq Tasks, Main \in alive', stray' \subseteq Tasks, scopes' \in 0 .. MaxScopes,
         ctx' \in [Tasks -> ContextType], open' \in [Tasks -> Seq(ScopeType)],
         \A t \in Tasks : TaskInv(t, ctx'[t], open'[t], alive', stray', scopes')
  PROVE  ContextInv'
  <1>1. ASSUME NEW t \in Tasks PROVE TaskInv(t, ctx[t], open[t], alive, stray, scopes)'
    <2>1. TaskInv(t, ctx'[t], open'[t], alive', stray', scopes') OBVIOUS
    <2> QED BY <2>1 DEF TaskInv, TaskSound, TokenSound, Agree
  <1> QED BY <1>1 DEF ContextInv

\* A step of one task that changes its context and its scopes.
LEMMA OneTask ==
  ASSUME ContextInv, NEW t \in Tasks, NEW d \in ContextType, NEW r, NEW V, NEW m \in 0 .. MaxScopes,
         sdk' = sdk, real' = real, alive' = alive, stray' = V, scopes' = m, scopes <= m,
         stray \subseteq V, V \subseteq stray \cup {t},
         ctx' = [ctx EXCEPT ![t] = d], open' = [open EXCEPT ![t] = r],
         TaskInv(t, d, r, alive, V, m)
  PROVE  ContextInv'
  <1>1. /\ ctx \in [Tasks -> ContextType] /\ open \in [Tasks -> Seq(ScopeType)] /\ scopes \in 0 .. MaxScopes
        /\ alive \subseteq Tasks /\ Main \in alive /\ stray \subseteq Tasks
    BY DEF ContextInv
  <1>2. r \in Seq(ScopeType) BY DEF TaskInv, TaskSound
  <1>3. scopes \in Nat /\ m \in Nat BY <1>1, HeaderTypes
  <1>4. ASSUME NEW u \in Tasks PROVE TaskInv(u, ctx'[u], open'[u], alive', stray', scopes')
    <2>1. CASE u = t
      <3>1. ctx'[u] = d /\ open'[u] = r BY <1>1, <2>1
      <3> QED BY <2>1, <3>1
    <2>2. CASE u # t
      <3>1. ctx'[u] = ctx[u] /\ open'[u] = open[u] BY <1>1, <2>2
      <3>2. TaskInv(u, ctx[u], open[u], alive, stray, scopes) BY DEF ContextInv
      <3>3. u \in stray <=> u \in V BY <2>2
      <3>4. TaskInv(u, ctx[u], open[u], alive, V, m) BY <1>3, <3>2, <3>3, OtherInv
      <3> QED BY <3>1, <3>4
    <2> QED BY <2>1, <2>2
  <1>5. ctx' \in [Tasks -> ContextType] /\ open' \in [Tasks -> Seq(ScopeType)] BY <1>1, <1>2
  <1>6. stray' \subseteq Tasks BY <1>1
  <1> QED BY <1>1, <1>4, <1>5, <1>6, ContextPrime

\* What the invariant says of one task.
LEMMA TaskFacts ==
  ASSUME ContextInv, NEW t \in Tasks
  PROVE  /\ ctx[t] \in ContextType /\ open[t] \in Seq(ScopeType) /\ TaskSound(t, ctx[t], open[t])
         /\ TaskInv(t, ctx[t], open[t], alive, stray, scopes) /\ scopes \in Nat /\ sdk \in BOOLEAN
         /\ \A i \in 1 .. Len(ctx[t].stack) : TokenSound(ctx[t].stack[i].token)
  <1>1. scopes \in Nat BY HeaderTypes DEF ContextInv
  <1>2. TaskInv(t, ctx[t], open[t], alive, stray, scopes) BY DEF ContextInv
  <1>3. TaskSound(t, ctx[t], open[t]) BY <1>2 DEF TaskInv
  <1>4. \A i \in 1 .. Len(ctx[t].stack) : TokenSound(ctx[t].stack[i].token) BY <1>3 DEF TaskSound
  <1> QED BY <1>1, <1>2, <1>3, <1>4 DEF ContextInv

LEMMA EnterStep ==
  ASSUME ContextInv, NEW t \in Tasks, NEW x, NEW d \in ContextType, Enter(t, x, d),
         Enters(t, x, ctx[t], d), x.ids = ctx[t].ids,
         sdk /\ Agree(ctx[t].ids, ctx[t].otel) => Agree(d.ids, d.otel)
  PROVE  ContextInv'
  <1>1. TaskInv(t, ctx[t], open[t], alive, stray, scopes) /\ scopes \in Nat BY TaskFacts
  <1>2. t \in alive /\ scopes < MaxScopes /\ scopes' = scopes + 1 BY DEF Enter
  <1>3. TaskInv(t, d, Append(open[t], x), alive, stray, scopes + 1) BY <1>1, <1>2, EnterInv
  <1>4. scopes + 1 \in 0 .. MaxScopes /\ scopes <= scopes + 1 BY <1>1, <1>2, HeaderTypes
  <1>5. /\ ctx' = [ctx EXCEPT ![t] = d] /\ open' = [open EXCEPT ![t] = Append(open[t], x)]
        /\ sdk' = sdk /\ real' = real /\ alive' = alive /\ stray' = stray
    BY DEF Enter
  <1>6. stray \subseteq stray /\ stray \subseteq stray \cup {t} OBVIOUS
  <1> QED BY <1>2, <1>3, <1>4, <1>5, <1>6, OneTask

LEMMA LeaveStep ==
  ASSUME ContextInv, NEW t \in Tasks, NEW kind, NEW d \in ContextType, Leave(t, kind, d),
         Leaves(Top(t), ctx[t], d),
         Top(t).clean => d.ids = Top(t).ids \/ (d.ids = ctx[t].ids /\ d.otel = ctx[t].otel)
  PROVE  ContextInv'
  <1>1. TaskInv(t, ctx[t], open[t], alive, stray, scopes) /\ scopes \in Nat BY TaskFacts
  <1>2. t \in alive /\ open[t] # <<>> BY DEF Leave, Innermost
  <1>3. TaskInv(t, d, Front(open[t]), alive, stray, scopes) BY <1>1, <1>2, LeaveInv DEF Top
  <1>4. scopes \in 0 .. MaxScopes /\ scopes <= scopes BY <1>1 DEF ContextInv
  <1>5. /\ ctx' = [ctx EXCEPT ![t] = d] /\ open' = [open EXCEPT ![t] = Front(open[t])]
        /\ sdk' = sdk /\ real' = real /\ alive' = alive /\ stray' = stray /\ scopes' = scopes
    BY DEF Leave
  <1>6. stray \subseteq stray /\ stray \subseteq stray \cup {t} OBVIOUS
  <1> QED BY <1>3, <1>4, <1>5, <1>6, OneTask

LEMMA BindStep ==
  ASSUME ContextInv, NEW t \in Tasks, NEW h \in Headers, Bind(t, h)
  PROVE  ContextInv'
  <1> DEFINE c == ctx[t]
             x == Scope("bind", c, NoToken)
             d == Bound(t, c, h)
  <1>1. c \in ContextType /\ h \in HeaderType /\ sdk \in BOOLEAN BY HeaderTypes, TaskFacts
  <1>2. d \in ContextType /\ Enters(t, x, c, d) /\ (sdk /\ Agree(c.ids, c.otel) => Agree(d.ids, d.otel))
    <2>1. "bind" \in {"bind", "request"} OBVIOUS
    <2> HIDE DEF c
    <2> QED BY <1>1, <2>1, BindEnters
  <1>3. x.ids = c.ids BY DEF Scope
  <1>4. Enter(t, x, d) BY DEF Bind
  <1> HIDE DEF x, d
  <1> QED BY <1>2, <1>3, <1>4, EnterStep

LEMMA RequestStep ==
  ASSUME ContextInv, NEW t \in Tasks, NEW h \in Headers, Request(t, h)
  PROVE  ContextInv'
  <1> DEFINE c == ctx[t]
             e == WithRequest(c, h)
             x == Scope("request", c, NoToken)
             d == Bound(t, e, h)
  <1>1. c \in ContextType /\ h \in HeaderType /\ sdk \in BOOLEAN BY HeaderTypes, TaskFacts
  <1>2. /\ e \in ContextType /\ e.ids = c.ids /\ e.otel = c.otel /\ e.stack = c.stack
        /\ \A k \in Saved : e.log[k] = c.log[k]
    BY <1>1, WithRequestFacts
  <1>3. d \in ContextType /\ Enters(t, x, c, d) /\ (sdk /\ Agree(c.ids, c.otel) => Agree(d.ids, d.otel))
    <2>1. "request" \in {"bind", "request"} OBVIOUS
    <2> HIDE DEF c, e
    <2> QED BY <1>1, <1>2, <2>1, BindEnters
  <1>4. x.ids = c.ids BY DEF Scope
  <1>5. Enter(t, x, d) BY DEF Request
  <1> HIDE DEF x, d
  <1> QED BY <1>3, <1>4, <1>5, EnterStep

LEMMA WebSocketStep ==
  ASSUME ContextInv, NEW t \in Tasks, NEW h \in Headers, WebSocket(t, h)
  PROVE  ContextInv'
  <1> DEFINE c == ctx[t]
             d == WithRequest(c, h)
             x == Scope("websocket", c, NoToken)
  <1>1. c \in ContextType /\ h \in HeaderType BY HeaderTypes, TaskFacts
  <1>2. /\ d \in ContextType /\ d.ids = c.ids /\ d.otel = c.otel /\ d.stack = c.stack
        /\ d.log["entry"] = c.log["entry"]
    BY <1>1, WithRequestFacts, FieldNames
  <1>3. Enters(t, x, c, d)
    <2>1. "websocket" \in {"websocket", "span"} OBVIOUS
    <2> HIDE DEF c, d
    <2> QED BY <1>1, <1>2, <2>1, LocalEnters, IdTypes
  <1>4. x.ids = c.ids BY DEF Scope
  <1>5. Enter(t, x, d) BY DEF WebSocket
  <1>6. sdk /\ Agree(c.ids, c.otel) => Agree(d.ids, d.otel) BY <1>2
  <1> HIDE DEF x, d
  <1> QED BY <1>2, <1>3, <1>4, <1>5, <1>6, EnterStep

LEMMA SpanStep ==
  ASSUME ContextInv, NEW t \in Tasks, Span(t)
  PROVE  ContextInv'
  <1> DEFINE c == ctx[t]
             token == [task |-> t, old |-> c.otel]
  <1>1. c \in ContextType /\ c.otel \in IdType /\ scopes \in Nat BY TaskFacts DEF ContextType
  <1>2. "span" \in {"websocket", "span"} OBVIOUS
  <1>3. CASE real
    <2> DEFINE id == NewSpan(c)
               d == [c EXCEPT !.ids = id, !.otel = id]
               x == Scope("span", c, token)
    <2>1. id \in IdType BY <1>1 DEF NewSpan, IdType
    <2>2. Enter(t, x, d) BY <1>3 DEF Span
    <2>3. token \in TokenType BY <1>1 DEF TokenType
    <2>4. x.ids = c.ids BY DEF Scope
    <2> HIDE DEF id
    <2>5. d \in ContextType /\ d.stack = c.stack /\ d.log = c.log /\ d.ids = id /\ d.otel = id
      BY <1>1, <2>1 DEF ContextType
    <2>6. d.log["entry"] = c.log["entry"] BY <2>5
    <2> HIDE DEF d
    <2>7. Enters(t, x, c, d)
      <3>1. token = [task |-> t, old |-> c.otel] OBVIOUS
      <3> HIDE DEF c, token
      <3> QED BY <1>1, <1>2, <2>3, <2>5, <2>6, <3>1, LocalEnters
    <2>8. Agree(d.ids, d.otel) BY <2>5 DEF Agree
    <2> HIDE DEF x
    <2> QED BY <2>2, <2>4, <2>5, <2>7, <2>8, EnterStep
  <1>4. CASE ~real
    <2> DEFINE d == [c EXCEPT !.ids = NoopIds]
               x == Scope("span", c, NoToken)
    <2>1. Enter(t, x, d) BY <1>4 DEF Span
    <2>2. x.ids = c.ids BY DEF Scope
    <2>3. d \in ContextType /\ d.stack = c.stack /\ d.log = c.log /\ d.ids = NoopIds /\ d.otel = c.otel
      BY <1>1, IdTypes DEF ContextType
    <2>4. d.log["entry"] = c.log["entry"] BY <2>3
    <2> HIDE DEF d
    <2>5. Enters(t, x, c, d)
      <3> HIDE DEF c
      <3> QED BY <1>1, <1>2, <2>3, <2>4, LocalEnters, IdTypes
    <2>6. Agree(d.ids, d.otel) BY <1>4, <2>3 DEF Agree
    <2> HIDE DEF x
    <2> QED BY <2>1, <2>2, <2>3, <2>5, <2>6, EnterStep
  <1> QED BY <1>3, <1>4

LEMMA ClearBindStep ==
  ASSUME ContextInv, NEW t \in Tasks, ClearBind(t)
  PROVE  ContextInv'
  <1> DEFINE c == ctx[t]
             d == Cleared(t, c)
  <1>1. c \in ContextType /\ TaskSound(t, c, open[t]) BY TaskFacts
  <1>2. d \in ContextType /\ d.stack = Popped(c.stack) BY <1>1, ClearedFacts
  <1>3. open[t] # <<>> /\ Top(t).kind = "bind" /\ Leave(t, "bind", d) BY DEF ClearBind, Leave, Innermost
  <1>4. Top(t).clean => /\ d.ids = Top(t).ids /\ d.otel = Top(t).otel
                        /\ \A k \in Saved : d.log[k] = Top(t).log[k]
    BY <1>1, <1>3, FrameCloses DEF Top
  <1> HIDE DEF d
  <1>5. Leaves(Top(t), c, d) BY <1>2, <1>3, <1>4, FieldNames DEF Leaves
  <1> QED BY <1>2, <1>3, <1>4, <1>5, LeaveStep

LEMMA EndRequestStep ==
  ASSUME ContextInv, NEW t \in Tasks, EndRequest(t)
  PROVE  ContextInv'
  <1> DEFINE c == ctx[t]
             e == Cleared(t, c)
             d == [e EXCEPT !.log = Top(t).log]
  <1>1. c \in ContextType /\ TaskSound(t, c, open[t]) /\ open[t] \in Seq(ScopeType) BY TaskFacts
  <1>2. e \in ContextType /\ e.stack = Popped(c.stack) BY <1>1, ClearedFacts
  <1>3. open[t] # <<>> /\ Top(t).kind = "request" /\ Leave(t, "request", d)
    BY DEF EndRequest, Leave, Innermost
  <1>4. Top(t) \in ScopeType BY <1>1, <1>3, FrontFacts DEF Top
  <1>5. Top(t).clean => e.ids = Top(t).ids /\ e.otel = Top(t).otel
    BY <1>1, <1>3, FrameCloses DEF Top
  <1> HIDE DEF e
  <1>6. /\ d \in ContextType /\ d.stack = e.stack /\ d.log = Top(t).log /\ d.ids = e.ids /\ d.otel = e.otel
    BY <1>2, <1>4 DEF ContextType, ScopeType
  <1> HIDE DEF d
  <1>7. Leaves(Top(t), c, d) BY <1>2, <1>3, <1>5, <1>6 DEF Leaves
  <1> QED BY <1>3, <1>5, <1>6, <1>7, LeaveStep

LEMMA EndWebSocketStep ==
  ASSUME ContextInv, NEW t \in Tasks, EndWebSocket(t)
  PROVE  ContextInv'
  <1> DEFINE c == ctx[t]
             d == [c EXCEPT !.log = Top(t).log]
  <1>1. c \in ContextType /\ TaskSound(t, c, open[t]) /\ open[t] \in Seq(ScopeType) BY TaskFacts
  <1>2. open[t] # <<>> /\ Top(t).kind = "websocket" /\ Leave(t, "websocket", d)
    BY DEF EndWebSocket, Leave, Innermost
  <1>3. Top(t) \in ScopeType BY <1>1, <1>2, FrontFacts DEF Top
  <1>4. Top(t).clean => c.otel = Top(t).otel BY <1>1, <1>2, LocalCloses DEF Top
  <1>5. /\ d \in ContextType /\ d.stack = c.stack /\ d.log = Top(t).log /\ d.ids = c.ids /\ d.otel = c.otel
    BY <1>1, <1>3 DEF ContextType, ScopeType
  <1> HIDE DEF d
  <1>6. Leaves(Top(t), c, d) BY <1>2, <1>4, <1>5 DEF Leaves
  <1> QED BY <1>2, <1>5, <1>6, LeaveStep

\* The end of a span keeps the types, the fields and the frames.
LEMMA EndedFacts ==
  ASSUME NEW t, NEW c \in ContextType, NEW x \in ScopeType
  PROVE  LET d == Ended(t, c, x)
         IN  /\ d \in ContextType /\ d.stack = c.stack /\ d.log = c.log /\ d.ids = x.ids
             /\ d.otel = DetachToken(t, c.otel, x.token)
  <1> DEFINE o == DetachToken(t, c.otel, x.token)
  <1>1. o \in IdType BY DetachType DEF ContextType, ScopeType
  <1>2. Ended(t, c, x) = [c EXCEPT !.ids = x.ids, !.otel = o] BY DEF Ended, ContextType
  <1> HIDE DEF o
  <1>3. /\ [c EXCEPT !.ids = x.ids, !.otel = o] \in ContextType
        /\ [c EXCEPT !.ids = x.ids, !.otel = o].stack = c.stack
        /\ [c EXCEPT !.ids = x.ids, !.otel = o].log = c.log
        /\ [c EXCEPT !.ids = x.ids, !.otel = o].ids = x.ids
        /\ [c EXCEPT !.ids = x.ids, !.otel = o].otel = o
    BY <1>1 DEF ContextType, ScopeType
  <1> QED BY <1>2, <1>3 DEF o

LEMMA EndSpanStep ==
  ASSUME ContextInv, NEW t \in Tasks, EndSpan(t)
  PROVE  ContextInv'
  <1> DEFINE c == ctx[t]
             d == Ended(t, c, Top(t))
  <1>1. c \in ContextType /\ TaskSound(t, c, open[t]) /\ open[t] \in Seq(ScopeType) BY TaskFacts
  <1>2. open[t] # <<>> /\ Top(t).kind = "span" /\ Leave(t, "span", d)
    BY DEF EndSpan, Leave, Innermost
  <1>3. Top(t) \in ScopeType BY <1>1, <1>2, FrontFacts DEF Top
  <1>4. Top(t).clean => /\ c.log["entry"] = Top(t).log["entry"]
                        /\ DetachToken(t, c.otel, Top(t).token) = Top(t).otel
    BY <1>1, <1>2, LocalCloses DEF Top
  <1>5. /\ d \in ContextType /\ d.stack = c.stack /\ d.log = c.log /\ d.ids = Top(t).ids
        /\ d.otel = DetachToken(t, c.otel, Top(t).token)
    BY <1>1, <1>3, EndedFacts
  <1> HIDE DEF d
  <1>6. Leaves(Top(t), c, d) BY <1>2, <1>4, <1>5 DEF Leaves
  <1> QED BY <1>2, <1>5, <1>6, LeaveStep

\* A field of the application is none of those that scopes look at.
LEMMA OwnField ==
  ASSUME NEW log \in LogType
  PROVE  [log EXCEPT !["own"] = 1] \in LogType /\ [log EXCEPT !["own"] = 1]["entry"] = log["entry"]
  <1>1. PICK e \in Fields, o \in Fields : e = "entry" /\ o = "own" BY FieldNames
  <1>2. e # o BY <1>1
  <1>3. log \in [Fields -> Int] BY DEF LogType
  <1>4. [log EXCEPT ![o] = 1] \in [Fields -> Int] BY <1>3
  <1>5. [log EXCEPT ![o] = 1][e] = log[e] BY <1>2, <1>3
  <1> QED BY <1>1, <1>4, <1>5 DEF LogType

LEMMA BindOwnStep ==
  ASSUME ContextInv, NEW t \in Tasks, BindOwn(t)
  PROVE  ContextInv'
  <1> DEFINE c == ctx[t]
             g == [c.log EXCEPT !["own"] = 1]
             d == [c EXCEPT !.log = g]
  <1>1. /\ c \in ContextType /\ TaskInv(t, c, open[t], alive, stray, scopes) /\ scopes \in 0 .. MaxScopes
        /\ ctx \in [Tasks -> ContextType] /\ open \in [Tasks -> Seq(ScopeType)] /\ scopes \in Nat
    BY TaskFacts DEF ContextInv
  <1>2. g \in LogType /\ g["entry"] = c.log["entry"]
    <2>1. c.log \in LogType BY <1>1 DEF ContextType
    <2> QED BY <2>1, OwnField
  <1>3. /\ sdk' = sdk /\ real' = real /\ alive' = alive /\ stray' = stray /\ scopes' = scopes /\ open' = open
        /\ ctx' = [ctx EXCEPT ![t].log["own"] = 1]
    BY DEF BindOwn
  <1>4. ctx' = [ctx EXCEPT ![t] = d] BY <1>1, <1>3
  <1>5. open' = [open EXCEPT ![t] = open[t]] BY <1>1, <1>3
  <1> HIDE DEF g
  <1>6. d \in ContextType /\ d.stack = c.stack /\ d.log = g /\ d.ids = c.ids /\ d.otel = c.otel
    BY <1>1, <1>2 DEF ContextType
  <1> HIDE DEF d, c
  <1>7. TaskSound(t, d, open[t]) BY <1>1, <1>2, <1>6, Keep DEF TaskInv
  <1>8. TaskInv(t, d, open[t], alive, stray, scopes) BY <1>1, <1>6, <1>7 DEF TaskInv
  <1>9. stray \subseteq stray /\ stray \subseteq stray \cup {t} /\ scopes <= scopes BY <1>1
  <1>10. sdk' = sdk /\ real' = real /\ alive' = alive /\ stray' = stray /\ scopes' = scopes BY <1>3
  <1>11. scopes \in 0 .. MaxScopes /\ d \in ContextType BY <1>1, <1>6
  <1> QED BY <1>4, <1>5, <1>8, <1>9, <1>10, <1>11, OneTask

\* The frames that stay after a pop hold the tokens they held.
LEMMA PoppedTokens ==
  ASSUME NEW p \in Seq(FrameType), \A i \in 1 .. Len(p) : TokenSound(p[i].token)
  PROVE  \A i \in 1 .. Len(Popped(p)) : TokenSound(Popped(p)[i].token)
  <1>1. /\ Len(p) \in Nat /\ Len(Popped(p)) \in Nat /\ Len(Popped(p)) <= Len(p)
        /\ \A k \in 1 .. Len(Popped(p)) : Popped(p)[k] = p[k]
    BY PoppedFacts
  <1>2. \A k \in 1 .. Len(Popped(p)) : k \in 1 .. Len(p) BY <1>1
  <1> QED BY <1>1, <1>2

LEMMA StrayClearStep ==
  ASSUME ContextInv, NEW t \in Tasks, StrayClear(t)
  PROVE  ContextInv'
  <1> DEFINE c == ctx[t]
             d == Cleared(t, c)
             V == stray \cup {t}
  <1>1. /\ c \in ContextType /\ TaskInv(t, c, open[t], alive, stray, scopes) /\ scopes \in 0 .. MaxScopes
        /\ scopes \in Nat /\ \A i \in 1 .. Len(c.stack) : TokenSound(c.stack[i].token)
    BY TaskFacts DEF ContextInv
  <1>2. d \in ContextType /\ d.stack = Popped(c.stack) BY <1>1, ClearedFacts
  <1>3. \A i \in 1 .. Len(d.stack) : TokenSound(d.stack[i].token)
    <2>1. c.stack \in Seq(FrameType) BY <1>1 DEF ContextType
    <2> HIDE DEF c, d
    <2> QED BY <1>1, <1>2, <2>1, PoppedTokens
  <1>4. /\ sdk' = sdk /\ real' = real /\ alive' = alive /\ stray' = V /\ scopes' = scopes
        /\ ctx' = [ctx EXCEPT ![t] = d] /\ open' = [open EXCEPT ![t] = Unclean(open[t])]
    BY DEF StrayClear
  <1>5. t \in V /\ stray \subseteq V /\ V \subseteq stray \cup {t} /\ scopes <= scopes BY <1>1
  <1> HIDE DEF d, c, V
  <1>6. TaskInv(t, d, Unclean(open[t]), alive, V, scopes) BY <1>1, <1>2, <1>3, <1>5, MarkInv
  <1> QED BY <1>1, <1>2, <1>4, <1>5, <1>6, OneTask

LEMMA EndRequestRaisesStep ==
  ASSUME ContextInv, NEW t \in Tasks, EndRequestRaises(t)
  PROVE  ContextInv'
  <1> DEFINE c == ctx[t]
             r == Unclean(Front(open[t]))
             V == stray \cup {t}
  <1>1. /\ c \in ContextType /\ TaskInv(t, c, open[t], alive, stray, scopes) /\ scopes \in 0 .. MaxScopes
        /\ scopes \in Nat /\ ctx \in [Tasks -> ContextType]
    BY TaskFacts DEF ContextInv
  <1>2. /\ sdk' = sdk /\ real' = real /\ alive' = alive /\ stray' = V /\ scopes' = scopes /\ ctx' = ctx
        /\ open' = [open EXCEPT ![t] = r] /\ open[t] # <<>>
    BY DEF EndRequestRaises, Innermost
  <1>3. ctx' = [ctx EXCEPT ![t] = c] BY <1>1, <1>2
  <1>4. t \in V /\ stray \subseteq V /\ V \subseteq stray \cup {t} /\ scopes <= scopes BY <1>1
  <1> HIDE DEF c, V
  <1>5. TaskInv(t, c, r, alive, V, scopes) BY <1>1, <1>2, <1>4, LeftInv
  <1> HIDE DEF r
  <1> QED BY <1>1, <1>2, <1>3, <1>4, <1>5, OneTask

LEMMA SpawnStep ==
  ASSUME ContextInv, NEW t \in Tasks, NEW u \in Tasks, Spawn(t, u)
  PROVE  ContextInv'
  <1>1. /\ ctx \in [Tasks -> ContextType] /\ open \in [Tasks -> Seq(ScopeType)] /\ scopes \in 0 .. MaxScopes
        /\ alive \subseteq Tasks /\ Main \in alive /\ stray \subseteq Tasks /\ scopes \in Nat
    BY TaskFacts DEF ContextInv
  <1>2. /\ t \in alive /\ u \notin alive /\ alive' = alive \cup {u} /\ ctx' = [ctx EXCEPT ![u] = ctx[t]]
        /\ open' = [open EXCEPT ![u] = <<>>] /\ sdk' = sdk /\ real' = real /\ scopes' = scopes
        /\ stray' = IF t \in stray THEN stray \cup {u} ELSE stray \ {u}
    BY DEF Spawn
  <1>3. u # Main /\ u # t BY <1>1, <1>2
  <1>4. (t \in stray <=> u \in stray') /\ \A v \in Tasks \ {u} : v \in stray <=> v \in stray' BY <1>2
  <1>5. stray' \subseteq Tasks /\ alive' \subseteq Tasks /\ Main \in alive' BY <1>1, <1>2
  <1>6. ASSUME NEW v \in Tasks PROVE TaskInv(v, ctx'[v], open'[v], alive', stray', scopes')
    <2>1. CASE v = u
      <3>1. ctx'[v] = ctx[t] /\ open'[v] = <<>> BY <1>1, <1>2, <2>1
      <3>2. ctx[t] \in ContextType /\ \A i \in 1 .. Len(ctx[t].stack) : TokenSound(ctx[t].stack[i].token)
        BY TaskFacts
      <3>3. sdk /\ v \in alive' \ stray' => Agree(ctx[t].ids, ctx[t].otel)
        <4>1. TaskInv(t, ctx[t], open[t], alive, stray, scopes) BY TaskFacts
        <4> QED BY <1>2, <1>4, <2>1, <4>1 DEF TaskInv
      <3>4. v \in Tasks \ {Main} BY <1>3, <2>1
      <3>5. TaskInv(v, ctx[t], <<>>, alive', stray', scopes) BY <1>1, <3>2, <3>3, <3>4, FreshInv
      <3> QED BY <1>2, <3>1, <3>5
    <2>2. CASE v # u
      <3>1. ctx'[v] = ctx[v] /\ open'[v] = open[v] BY <1>1, <1>2, <2>2
      <3>2. TaskInv(v, ctx[v], open[v], alive, stray, scopes) BY TaskFacts
      <3>3. (v \in stray <=> v \in stray') /\ (v \in alive <=> v \in alive') BY <1>2, <1>4, <2>2
      <3>4. scopes <= scopes BY <1>1
      <3>5. TaskInv(v, ctx[v], open[v], alive', stray', scopes) BY <1>1, <3>2, <3>3, <3>4, OtherInv
      <3> QED BY <1>2, <3>1, <3>5
    <2> QED BY <2>1, <2>2
  <1>7. ctx' \in [Tasks -> ContextType] /\ open' \in [Tasks -> Seq(ScopeType)] BY <1>1, <1>2
  <1>8. scopes' \in 0 .. MaxScopes BY <1>1, <1>2
  <1> QED BY <1>2, <1>5, <1>6, <1>7, <1>8, ContextPrime

LEMMA EndStep ==
  ASSUME ContextInv, NEW t \in Tasks, End(t)
  PROVE  ContextInv'
  <1>1. /\ ctx \in [Tasks -> ContextType] /\ open \in [Tasks -> Seq(ScopeType)] /\ scopes \in 0 .. MaxScopes
        /\ alive \subseteq Tasks /\ Main \in alive /\ stray \subseteq Tasks /\ scopes \in Nat /\ Main \in Tasks
    BY TaskFacts, HeaderTypes DEF ContextInv
  <1>2. /\ t \in alive /\ t # Main /\ open[t] = <<>> /\ alive' = alive \ {t} /\ ctx' = [ctx EXCEPT ![t] = ctx[Main]]
        /\ stray' = stray \ {t} /\ open' = open /\ sdk' = sdk /\ real' = real /\ scopes' = scopes
    BY DEF End
  <1>3. stray' \subseteq Tasks /\ alive' \subseteq Tasks /\ Main \in alive' BY <1>1, <1>2
  <1>4. ASSUME NEW v \in Tasks PROVE TaskInv(v, ctx'[v], open'[v], alive', stray', scopes')
    <2>1. CASE v = t
      <3>1. ctx'[v] = ctx[Main] /\ open'[v] = <<>> BY <1>1, <1>2, <2>1
      <3>2. ctx[Main] \in ContextType /\ \A i \in 1 .. Len(ctx[Main].stack) : TokenSound(ctx[Main].stack[i].token)
        BY <1>1, TaskFacts
      <3>3. v \notin alive' /\ v \in Tasks \ {Main} BY <1>2, <2>1
      <3>4. TaskInv(v, ctx[Main], <<>>, alive', stray', scopes) BY <1>1, <3>2, <3>3, FreshInv
      <3> QED BY <1>2, <3>1, <3>4
    <2>2. CASE v # t
      <3>1. ctx'[v] = ctx[v] /\ open'[v] = open[v] BY <1>1, <1>2, <2>2
      <3>2. TaskInv(v, ctx[v], open[v], alive, stray, scopes) BY TaskFacts
      <3>3. (v \in stray <=> v \in stray') /\ (v \in alive <=> v \in alive') BY <1>2, <2>2
      <3>4. scopes <= scopes BY <1>1
      <3>5. TaskInv(v, ctx[v], open[v], alive', stray', scopes) BY <1>1, <3>2, <3>3, <3>4, OtherInv
      <3> QED BY <1>2, <3>1, <3>5
    <2> QED BY <2>1, <2>2
  <1>5. ctx' \in [Tasks -> ContextType] /\ open' \in [Tasks -> Seq(ScopeType)] BY <1>1, <1>2
  <1>6. scopes' \in 0 .. MaxScopes BY <1>1, <1>2
  <1> QED BY <1>2, <1>3, <1>4, <1>5, <1>6, ContextPrime

LEMMA AbandonStep ==
  ASSUME ContextInv, NEW t \in Tasks, NEW u \in Tasks, Abandon(t, u)
  PROVE  ContextInv'
  <1> DEFINE x == Top(t)
             d == Ended(u, ctx[u], x)
             r == Unclean(open[u])
  <1>1. /\ ctx \in [Tasks -> ContextType] /\ open \in [Tasks -> Seq(ScopeType)] /\ scopes \in 0 .. MaxScopes
        /\ alive \subseteq Tasks /\ Main \in alive /\ stray \subseteq Tasks /\ scopes \in Nat /\ Main \in Tasks
    BY TaskFacts, HeaderTypes DEF ContextInv
  <1>2. /\ t \in alive /\ u \in alive /\ t # u /\ t # Main /\ open[t] # <<>>
        /\ alive' = alive \ {t} /\ stray' = (stray \ {t}) \cup {u}
        /\ sdk' = sdk /\ real' = real /\ scopes' = scopes
    BY DEF Abandon, Innermost
  <1>3. ctx' = [ctx EXCEPT ![u] = d, ![t] = ctx[Main]] BY DEF Abandon
  <1>4. open' = [open EXCEPT ![t] = <<>>, ![u] = r] BY <1>1, <1>2 DEF Abandon
  <1>5. /\ TaskInv(u, ctx[u], open[u], alive, stray, scopes) /\ ctx[u] \in ContextType
        /\ open[u] \in Seq(ScopeType) /\ open[t] \in Seq(ScopeType)
        /\ \A i \in 1 .. Len(ctx[u].stack) : TokenSound(ctx[u].stack[i].token)
    BY TaskFacts
  <1>6. x \in ScopeType BY <1>2, <1>5, FrontFacts DEF Top
  <1>7. d \in ContextType /\ d.stack = ctx[u].stack BY <1>5, <1>6, EndedFacts
  <1>8. r \in Seq(ScopeType) BY <1>5, MarkedFacts
  <1>9. stray' \subseteq Tasks /\ alive' \subseteq Tasks /\ Main \in alive' BY <1>1, <1>2
  <1> HIDE DEF d, x
  <1>10. ASSUME NEW v \in Tasks PROVE TaskInv(v, ctx'[v], open'[v], alive', stray', scopes')
    <2>1. CASE v = t
      <3>1. ctx'[v] = ctx[Main] /\ open'[v] = <<>> BY <1>1, <1>2, <1>3, <1>4, <2>1
      <3>2. ctx[Main] \in ContextType /\ \A i \in 1 .. Len(ctx[Main].stack) : TokenSound(ctx[Main].stack[i].token)
        BY <1>1, TaskFacts
      <3>3. v \notin alive' /\ v \in Tasks \ {Main} BY <1>2, <2>1
      <3>4. TaskInv(v, ctx[Main], <<>>, alive', stray', scopes) BY <1>1, <3>2, <3>3, FreshInv
      <3> QED BY <1>2, <3>1, <3>4
    <2>2. CASE v = u
      <3>1. ctx'[v] = d /\ open'[v] = Unclean(open[u]) BY <1>1, <1>2, <1>3, <1>4, <2>2
      <3>2. u \in stray' /\ u \in alive' BY <1>2
      <3>3. TaskInv(u, d, Unclean(open[u]), alive', stray', scopes) BY <1>5, <1>7, <3>2, MarkInv
      <3> QED BY <1>2, <2>2, <3>1, <3>3
    <2>3. CASE v # t /\ v # u
      <3>1. ctx'[v] = ctx[v] /\ open'[v] = open[v] BY <1>1, <1>3, <1>4, <2>3
      <3>2. TaskInv(v, ctx[v], open[v], alive, stray, scopes) BY TaskFacts
      <3>3. (v \in stray <=> v \in stray') /\ (v \in alive <=> v \in alive') BY <1>2, <2>3
      <3>4. scopes <= scopes BY <1>1
      <3>5. TaskInv(v, ctx[v], open[v], alive', stray', scopes) BY <1>1, <3>2, <3>3, <3>4, OtherInv
      <3> QED BY <1>2, <3>1, <3>5
    <2> QED BY <2>1, <2>2, <2>3
  <1> HIDE DEF r
  <1>11. ctx' \in [Tasks -> ContextType] BY <1>1, <1>3, <1>7
  <1>12. open' \in [Tasks -> Seq(ScopeType)]
    <2>1. <<>> \in Seq(ScopeType) OBVIOUS
    <2> QED BY <1>1, <1>4, <1>8, <2>1
  <1>13. scopes' \in 0 .. MaxScopes BY <1>1, <1>2
  <1> QED BY <1>2, <1>9, <1>10, <1>11, <1>12, <1>13, ContextPrime

\* One step per action.
LEMMA ContextStep == ContextInv /\ [Next]_vars => ContextInv'
  <1> SUFFICES ASSUME ContextInv, [Next]_vars PROVE ContextInv' OBVIOUS
  <1>1. CASE Next
    <2>1. PICK t \in Tasks :
            \/ \E h \in Headers : Bind(t, h) \/ Request(t, h) \/ WebSocket(t, h)
            \/ ClearBind(t) \/ EndRequest(t) \/ EndRequestRaises(t) \/ EndWebSocket(t)
            \/ Span(t) \/ EndSpan(t)
            \/ BindOwn(t) \/ StrayClear(t) \/ End(t)
            \/ \E u \in Tasks : Spawn(t, u) \/ Abandon(t, u)
      BY <1>1 DEF Next
    <2>2. CASE \E h \in Headers : Bind(t, h) \/ Request(t, h) \/ WebSocket(t, h)
      BY <2>2, BindStep, RequestStep, WebSocketStep
    <2>3. CASE ClearBind(t) BY <2>3, ClearBindStep
    <2>4. CASE EndRequest(t) BY <2>4, EndRequestStep
    <2>5. CASE EndWebSocket(t) BY <2>5, EndWebSocketStep
    <2>6. CASE Span(t) BY <2>6, SpanStep
    <2>7. CASE EndSpan(t) BY <2>7, EndSpanStep
    <2>8. CASE BindOwn(t) BY <2>8, BindOwnStep
    <2>9. CASE StrayClear(t) BY <2>9, StrayClearStep
    <2>10. CASE End(t) BY <2>10, EndStep
    <2>11. CASE \E u \in Tasks : Spawn(t, u) \/ Abandon(t, u) BY <2>11, SpawnStep, AbandonStep
    <2>12. CASE EndRequestRaises(t) BY <2>12, EndRequestRaisesStep
    <2> QED BY <2>1, <2>2, <2>3, <2>4, <2>5, <2>6, <2>7, <2>8, <2>9, <2>10, <2>11, <2>12
  <1>2. CASE UNCHANGED vars
    <2>1. /\ sdk' = sdk /\ real' = real /\ ctx' = ctx /\ open' = open /\ alive' = alive
          /\ scopes' = scopes /\ stray' = stray
      BY <1>2 DEF vars
    <2> QED BY <2>1, ContextPrime DEF ContextInv
  <1> QED BY <1>1, <1>2

LEMMA ContextAlways == Spec => []ContextInv
  BY ContextInit, ContextStep, PTL DEF Spec

\* What the invariant says of the context that records carry.
LEMMA ContextIsSound == ContextInv => ContextSound
  <1> SUFFICES ASSUME ContextInv PROVE ContextSound OBVIOUS
  <1>1. TypeOK
    <2>1. ASSUME NEW t \in Tasks
          PROVE  /\ DOMAIN ctx[t].log = Fields /\ Len(open[t]) <= scopes
                 /\ \A i \in DOMAIN ctx[t].stack : TokenSound(ctx[t].stack[i].token)
                 /\ open[t] # <<>> => t \in alive
      <3>1. /\ ctx[t] \in ContextType /\ TaskInv(t, ctx[t], open[t], alive, stray, scopes)
            /\ \A i \in 1 .. Len(ctx[t].stack) : TokenSound(ctx[t].stack[i].token)
        BY TaskFacts
      <3>2. ctx[t].log \in LogType /\ ctx[t].stack \in Seq(FrameType) BY <3>1 DEF ContextType
      <3>3. DOMAIN ctx[t].log = Fields BY <3>2 DEF LogType
      <3>4. DOMAIN ctx[t].stack = 1 .. Len(ctx[t].stack) BY <3>2, LenProperties
      <3> QED BY <3>1, <3>3, <3>4 DEF TaskInv
    <2>2. alive \subseteq Tasks /\ stray \subseteq Tasks /\ scopes \in 0 .. MaxScopes BY DEF ContextInv
    <2> QED BY <2>1, <2>2 DEF TypeOK, TokenSound
  <1>2. NoFrameLeaks
    <2>1. Main \in Tasks BY HeaderTypes
    <2>2. TaskInv(Main, ctx[Main], open[Main], alive, stray, scopes) BY <2>1, TaskFacts
    <2> QED BY <2>2 DEF NoFrameLeaks, TaskInv
  <1>3. Correlated
    <2>1. ASSUME sdk, NEW t \in alive \ stray PROVE Agree(ctx[t].ids, ctx[t].otel)
      <3>1. t \in Tasks BY DEF ContextInv
      <3>2. TaskInv(t, ctx[t], open[t], alive, stray, scopes) BY <3>1, TaskFacts
      <3> QED BY <2>1, <3>2 DEF TaskInv
    <2> QED BY <2>1 DEF Correlated, Agree
  <1> QED BY <1>1, <1>2, <1>3 DEF ContextSound

\* Whatever the tasks of a program bind, spawn, abandon and clear: a restore frame's token
\* belongs to a task, the stack of restore frames of a long-lived task (TelemetryMiddleware)
\* holds one frame for every bind and request it still has open, and the trace id that log
\* records carry is that of the OpenTelemetry context, which is empty under a traceparent that
\* only _parse_traceparent takes.
THEOREM ContextIsAccountedFor == Spec => []ContextSound
  BY ContextAlways, ContextIsSound, PTL
-----------------------------------------------------------------------------
(* The ends of scopes                                                      *)

\* Only the end of a scope makes the scopes of a task that goes on fewer.
LEMMA OnlyEnds ==
  ASSUME ContextInv, Next, NEW t \in Tasks, Closes(t)
  PROVE  ClearBind(t) \/ EndRequest(t) \/ EndWebSocket(t) \/ EndSpan(t)
  <1>1. /\ open \in [Tasks -> Seq(ScopeType)] /\ Len(open'[t]) < Len(open[t]) /\ t \in alive'
        /\ open[t] \in Seq(ScopeType) /\ Len(open[t]) \in Nat /\ stray' = stray
    BY TaskFacts, LenProperties DEF ContextInv, Closes
  <1>2. PICK a \in Tasks :
          \/ \E h \in Headers : Bind(a, h) \/ Request(a, h) \/ WebSocket(a, h)
          \/ ClearBind(a) \/ EndRequest(a) \/ EndRequestRaises(a) \/ EndWebSocket(a)
          \/ Span(a) \/ EndSpan(a)
          \/ BindOwn(a) \/ StrayClear(a) \/ End(a)
          \/ \E u \in Tasks : Spawn(a, u) \/ Abandon(a, u)
    BY DEF Next
  <1>3. open'[t] # open[t]
    <2> DEFINE p == Len(open'[t])
               n == Len(open[t])
    <2>1. p < n /\ n \in Nat BY <1>1
    <2> HIDE DEF p, n
    <2>2. p # n BY <2>1
    <2> QED BY <2>2 DEF p, n
  <1>4. ASSUME NEW x, NEW d PROVE ~Enter(a, x, d)
    <2> SUFFICES ASSUME Enter(a, x, d) PROVE FALSE OBVIOUS
    <2>1. open' = [open EXCEPT ![a] = Append(open[a], x)] BY DEF Enter
    <2>2. t = a BY <1>1, <1>3, <2>1
    <2>3. open'[t] = Append(open[t], x) BY <1>1, <2>1, <2>2
    <2>4. Len(Append(open[t], x)) = Len(open[t]) + 1 BY <1>1
    <2> QED BY <1>1, <2>3, <2>4
  <1>5. ~(\E h \in Headers : Bind(a, h) \/ Request(a, h) \/ WebSocket(a, h)) /\ ~Span(a)
    BY <1>4 DEF Bind, Request, WebSocket, Span
  <1>6. ~BindOwn(a) /\ ~End(a) BY <1>3 DEF BindOwn, End
  <1>7. ~StrayClear(a)
    <2> SUFFICES ASSUME StrayClear(a) PROVE FALSE OBVIOUS
    <2>1. open' = [open EXCEPT ![a] = Unclean(open[a])] BY DEF StrayClear
    <2>2. t = a /\ open'[t] = Unclean(open[t]) BY <1>1, <1>3, <2>1
    <2>3. Len(Unclean(open[t])) = Len(open[t]) BY <1>1, MarkedFacts
    <2> QED BY <1>1, <2>2, <2>3
  <1>8. ASSUME NEW u \in Tasks PROVE ~Spawn(a, u)
    <2> SUFFICES ASSUME Spawn(a, u) PROVE FALSE OBVIOUS
    <2>1. u \notin alive /\ open' = [open EXCEPT ![u] = <<>>] BY DEF Spawn
    <2>2. t = u /\ open'[t] = <<>> BY <1>1, <1>3, <2>1
    <2>3. TaskInv(t, ctx[t], open[t], alive, stray, scopes) BY TaskFacts
    <2>4. open[t] = <<>> BY <2>1, <2>2, <2>3 DEF TaskInv
    <2> QED BY <1>3, <2>2, <2>4
  <1>9. ASSUME NEW u \in Tasks PROVE ~Abandon(a, u)
    <2> SUFFICES ASSUME Abandon(a, u) PROVE FALSE OBVIOUS
    <2>1. a # u /\ alive' = alive \ {a} BY DEF Abandon
    <2>2. open' = [open EXCEPT ![a] = <<>>, ![u] = Unclean(open[u])] BY <1>1, <2>1 DEF Abandon
    <2>3. t = u /\ open'[t] = Unclean(open[t]) BY <1>1, <1>3, <2>1, <2>2
    <2>4. Len(Unclean(open[t])) = Len(open[t]) BY <1>1, MarkedFacts
    <2> QED BY <1>1, <2>3, <2>4
  <1>10. ASSUME NEW kind, NEW d, Leave(a, kind, d) PROVE a = t
    <2>1. open' = [open EXCEPT ![a] = Front(open[a])] BY <1>10 DEF Leave
    <2> QED BY <1>1, <1>3, <2>1
  <1>11. CASE ClearBind(a) BY <1>10, <1>11 DEF ClearBind
  <1>12. CASE EndRequest(a) BY <1>10, <1>12 DEF EndRequest
  <1>13. CASE EndWebSocket(a) BY <1>10, <1>13 DEF EndWebSocket
  <1>14. CASE EndSpan(a) BY <1>10, <1>14 DEF EndSpan
  <1>15. ~EndRequestRaises(a) BY <1>1 DEF EndRequestRaises
  <1> QED BY <1>2, <1>5, <1>6, <1>7, <1>8, <1>9, <1>11, <1>12, <1>13, <1>14, <1>15

\* What the end of each kind of scope gives back.
LEMMA EndsGiveBack ==
  ASSUME ContextInv, Next, NEW t \in Tasks, Closes(t)
  PROVE  /\ Top(t).clean /\ Top(t).kind # "websocket" =>
              /\ ctx'[t].ids = Top(t).ids /\ ctx'[t].otel = Top(t).otel
              /\ Top(t).kind = "bind" =>
                   \A f \in Inbound \cup {"entry"} : ctx'[t].log[f] = Top(t).log[f]
         /\ Top(t).kind \in {"request", "websocket"} => ctx'[t].log = Top(t).log
  <1> DEFINE c == ctx[t]
             x == Top(t)
  <1>1. /\ c \in ContextType /\ TaskSound(t, c, open[t]) /\ open[t] \in Seq(ScopeType)
        /\ ctx \in [Tasks -> ContextType]
    BY TaskFacts DEF ContextInv
  <1>2. ASSUME NEW kind, NEW d, Leave(t, kind, d)
        PROVE  ctx'[t] = d /\ open[t] # <<>> /\ x.kind = kind /\ x \in ScopeType
    <2>1. open[t] # <<>> /\ x.kind = kind /\ ctx' = [ctx EXCEPT ![t] = d] BY <1>2 DEF Leave, Innermost
    <2>2. x \in ScopeType BY <1>1, <2>1, FrontFacts DEF Top
    <2> QED BY <1>1, <2>1, <2>2
  <1>3. CASE ClearBind(t)
    <2>1. ctx'[t] = Cleared(t, c) /\ open[t] # <<>> /\ x.kind = "bind" BY <1>2, <1>3 DEF ClearBind
    <2>2. x.clean => /\ ctx'[t].ids = x.ids /\ ctx'[t].otel = x.otel
                     /\ \A k \in Saved : ctx'[t].log[k] = x.log[k]
      BY <1>1, <2>1, FrameCloses DEF Top
    <2> HIDE DEF x
    <2> QED BY <2>1, <2>2 DEF Saved, x
  <1>4. CASE EndRequest(t)
    <2> DEFINE e == Cleared(t, c)
    <2>1. ctx'[t] = [e EXCEPT !.log = x.log] /\ open[t] # <<>> /\ x.kind = "request"
      BY <1>2, <1>4 DEF EndRequest
    <2>2. e \in ContextType BY <1>1, ClearedFacts
    <2>3. x.clean => e.ids = x.ids /\ e.otel = x.otel BY <1>1, <2>1, FrameCloses DEF Top
    <2> HIDE DEF e
    <2>4. ctx'[t].ids = e.ids /\ ctx'[t].otel = e.otel /\ ctx'[t].log = x.log BY <2>1, <2>2 DEF ContextType
    <2> HIDE DEF x
    <2> QED BY <2>1, <2>3, <2>4 DEF x
  <1>5. CASE EndWebSocket(t)
    <2>1. ctx'[t] = [c EXCEPT !.log = x.log] /\ x.kind = "websocket" BY <1>2, <1>5 DEF EndWebSocket
    <2>2. ctx'[t].log = x.log BY <1>1, <2>1 DEF ContextType
    <2> QED BY <2>1, <2>2
  <1>6. CASE EndSpan(t)
    <2>1. ctx'[t] = Ended(t, c, x) /\ open[t] # <<>> /\ x.kind = "span" /\ x \in ScopeType
      BY <1>2, <1>6 DEF EndSpan
    <2>2. x.clean => DetachToken(t, c.otel, x.token) = x.otel BY <1>1, <2>1, LocalCloses DEF Top
    <2>3. ctx'[t].ids = x.ids /\ ctx'[t].otel = DetachToken(t, c.otel, x.token) BY <1>1, <2>1, EndedFacts
    <2> QED BY <2>1, <2>2, <2>3
  <1> QED BY <1>3, <1>4, <1>5, <1>6, OnlyEnds

\* However scopes nest and tasks interleave: clear_propagation_context after a bind gives back
\* the inbound fields, the baggage entries, the ids and the OpenTelemetry context that the bind
\* found, the end of a span its ids and OpenTelemetry context, and a request or a WebSocket
\* through the middleware leaves the logger context exactly as it found it.
THEOREM ScopesGiveBack == Spec => ScopesBalanced
  <1>1. ContextInv /\ [Next]_vars =>
          [\A t \in Tasks :
             Closes(t) /\ Top(t).clean /\ Top(t).kind # "websocket" =>
               /\ ctx'[t].ids = Top(t).ids /\ ctx'[t].otel = Top(t).otel
               /\ Top(t).kind = "bind" =>
                    \A f \in Inbound \cup {"entry"} : ctx'[t].log[f] = Top(t).log[f]]_vars
    BY EndsGiveBack
  <1>2. ContextInv /\ [Next]_vars =>
          [\A t \in Tasks :
             Closes(t) /\ Top(t).kind \in {"request", "websocket"} => ctx'[t].log = Top(t).log]_vars
    BY EndsGiveBack
  <1> QED BY <1>1, <1>2, ContextAlways, PTL DEF Spec, ScopesBalanced, ScopesRestore, RequestLeavesNoFields

\* A span that ends in a foreign task leaves that task's OpenTelemetry context alone.
LEMMA ForeignEnd ==
  ASSUME ContextInv, Next, NEW t \in Tasks, open'[t] # open[t], t \notin stray, t \in stray', alive' # alive
  PROVE  ctx'[t].otel = ctx[t].otel
  <1>1. PICK a \in Tasks :
          \/ \E h \in Headers : Bind(a, h) \/ Request(a, h) \/ WebSocket(a, h)
          \/ ClearBind(a) \/ EndRequest(a) \/ EndRequestRaises(a) \/ EndWebSocket(a)
          \/ Span(a) \/ EndSpan(a)
          \/ BindOwn(a) \/ StrayClear(a) \/ End(a)
          \/ \E u \in Tasks : Spawn(a, u) \/ Abandon(a, u)
    BY DEF Next
  <1>2. \A x, d : ~Enter(a, x, d) BY DEF Enter
  <1>3. \A kind, d : ~Leave(a, kind, d) BY DEF Leave
  <1>4. ~(\E h \in Headers : Bind(a, h) \/ Request(a, h) \/ WebSocket(a, h)) /\ ~Span(a)
    BY <1>2 DEF Bind, Request, WebSocket, Span
  <1>5. ~ClearBind(a) /\ ~EndRequest(a) /\ ~EndWebSocket(a) /\ ~EndSpan(a)
    BY <1>3 DEF ClearBind, EndRequest, EndWebSocket, EndSpan
  <1>6. ~BindOwn(a) /\ ~StrayClear(a) /\ ~EndRequestRaises(a) BY DEF BindOwn, StrayClear, EndRequestRaises
  <1>7. ~End(a) BY DEF End
  <1>8. ctx \in [Tasks -> ContextType] /\ open \in [Tasks -> Seq(ScopeType)] BY DEF ContextInv
  <1>9. ASSUME NEW u \in Tasks, Spawn(a, u) PROVE FALSE
    <2>1. u \notin alive /\ open' = [open EXCEPT ![u] = <<>>] BY <1>9 DEF Spawn
    <2>2. t = u /\ open'[t] = <<>> BY <1>8, <2>1
    <2>3. TaskInv(t, ctx[t], open[t], alive, stray, scopes) BY TaskFacts
    <2>4. open[t] = <<>> BY <2>1, <2>2, <2>3 DEF TaskInv
    <2> QED BY <2>2, <2>4
  <1>10. ASSUME NEW u \in Tasks, Abandon(a, u) PROVE ctx'[t].otel = ctx[t].otel
    <2>1. t = u /\ a # u /\ open[a] # <<>> BY <1>10 DEF Abandon, Innermost
    <2>2. ctx' = [ctx EXCEPT ![u] = Ended(u, ctx[u], Top(a)), ![a] = ctx[Main]] BY <1>10 DEF Abandon
    <2>3. ctx'[t] = Ended(t, ctx[t], Top(a)) BY <1>8, <2>1, <2>2
    <2>4. TaskSound(a, ctx[a], open[a]) /\ open[a] \in Seq(ScopeType) /\ ctx[t] \in ContextType BY TaskFacts
    <2>5. /\ Len(open[a]) \in Nat \ {0} /\ Top(a) = open[a][Len(open[a])] /\ Top(a) \in ScopeType
      BY <2>1, <2>4, FrontFacts DEF Top
    <2>6. OwnToken(a, Top(a))
      <3>1. Len(open[a]) \in 1 .. Len(open[a]) BY <2>5
      <3> QED BY <2>4, <2>5, <3>1 DEF TaskSound
    <2>7. DetachToken(t, ctx[t].otel, Top(a).token) = ctx[t].otel
      BY <2>1, <2>6 DEF OwnToken, DetachToken, Reset
    <2>8. ctx'[t].otel = DetachToken(t, ctx[t].otel, Top(a).token) BY <2>3, <2>4, <2>5, EndedFacts
    <2> QED BY <2>7, <2>8
  <1> QED BY <1>1, <1>4, <1>5, <1>6, <1>7, <1>9, <1>10

\* When the generator that holds a span is closed from another task, that task keeps its
\* OpenTelemetry context: _SafeContextVarsRuntimeContext ignores the foreign token.
THEOREM ForeignSpansDetachNothing == Spec => OtelContextIsOwn
  <1>1. ContextInv /\ [Next]_vars =>
          [\A t \in Tasks : open'[t] # open[t] /\ t \notin stray /\ t \in stray' /\ alive' # alive
             => ctx'[t].otel = ctx[t].otel]_vars
    BY ForeignEnd
  <1> QED BY <1>1, ContextAlways, PTL DEF Spec, OtelContextIsOwn
-----------------------------------------------------------------------------
(* The output: its inductive invariant                                     *)

Handlers == Fanouts \cup {HostHandler}
ChildType == [target : Targets, serial : Nat]
WriteType == [fanout : Fanouts, serial : Nat, target : Targets]
LocalType == [force : BOOLEAN, claim : BOOLEAN, writer : Targets, dest : Targets,
              at : Nat \ {0}, ticket : BOOLEAN, writes : Seq(WriteType)]
CountType == [logged : Nat, emitted : Nat, freed : Nat, escaped : Nat, missed : Nat]

InPass == {"build", "install", "render"}
InWrite == {"write", "nested"}
OnRecord == {"emit"} \cup InWrite

\* Where fan-out handlers stand in r; r has at most one; f is the only one of r.
At(r) == {i \in DOMAIN r : r[i] # HostHandler}
AtMostOne(r) == \A i, j \in At(r) : i = j
Sole(r, f) == \E i \in DOMAIN r : At(r) = {i} /\ r[i] = f

TypeInv ==
  /\ slot \in Targets /\ colour \in Targets /\ lock \in Threads \cup {"free"}
  /\ configured \in BOOLEAN /\ active \in BOOLEAN /\ chain \in BOOLEAN
  /\ raced \in BOOLEAN /\ torn \in BOOLEAN
  /\ root \in Seq(Handlers) /\ child \in [Fanouts -> ChildType]
  /\ pc \in [Threads -> Steps] /\ loc \in [Threads -> LocalType]
  /\ ops \in 0 .. MaxOps /\ counts \in CountType /\ released \subseteq Targets

\* A thread holds core._lock exactly during its pass.
LockInv == \A t \in Threads : pc[t] \in InPass <=> lock = t

\* Local variables l of a thread at a step.
LocalOk(step, l) ==
  /\ step = "idle" => l = NoLocals
  /\ l.ticket => step \in OnRecord
  /\ step \in OnRecord => l.ticket \/ l.at > 1
  /\ IF step \in InWrite THEN Len(l.writes) = 1 ELSE l.writes = <<>>
LocalInv == \A t \in Threads : LocalOk(pc[t], loc[t])

\* Every record is on its way, freed its ticket, or was missed.
Tickets == {t \in Threads : loc[t].ticket}
Nested == {t \in Threads : pc[t] = "nested"}
CountInv ==
  /\ counts.emitted + counts.escaped = counts.freed
  /\ counts.freed + Cardinality(Tickets) + Cardinality(Nested) + counts.missed = counts.logged

\* There is a fan-out handler left for every pass that may attach one.
Used == {f \in Fanouts : child[f].serial # 0}
MayAttach == {"reapply", "configure", "build", "install"}
Attaching == {t \in Threads : pc[t] \in MayAttach}
SpareInv == Cardinality(Used) + Cardinality(Attaching) <= ops

\* One fan-out handler; before the first pass is done, only that pass can have attached it.
OneInv ==
  ~torn => /\ AtMostOne(root)
           /\ ~configured /\ At(root) # {} => \E t \in Threads : pc[t] = "render"

\* Where a writer that was let go may still be.
ReleaseInv ==
  /\ slot \notin released /\ Stderr \notin released
  /\ ~raced =>
       /\ \A t \in Threads : pc[t] = "install" => loc[t].writer \notin released
       /\ (\A t \in Threads : pc[t] # "detach") =>
            \A f \in Fanouts : Sole(root, f) => child[f].target \notin released

\* Somebody changed the destination and has not rebuilt or torn down yet.
Owes(step, l) == step \in {"reapply", "detach", "teardown"} \/ (step = "configure" /\ l.force)

\* Otherwise the pipeline, or the pass under way, is for the slot's writer.
SettleInv ==
  (\A t \in Threads : ~Owes(pc[t], loc[t])) =>
    /\ lock = "free" /\ configured /\ active =>
         \A f \in Fanouts : Sole(root, f) => child[f].target = slot /\ colour = slot
    /\ \A t \in Threads :
         /\ pc[t] \in InPass => loc[t].dest = slot
         /\ pc[t] = "install" => loc[t].writer = slot
         /\ pc[t] = "render" => \A f \in Fanouts : Sole(root, f) => child[f].target = slot

OutputInv ==
  TypeInv /\ LockInv /\ LocalInv /\ CountInv /\ SpareInv /\ OneInv /\ ReleaseInv /\ SettleInv
-----------------------------------------------------------------------------
(* The list of handlers                                                    *)

\* The numeric facts of the assumption.
LEMMA OutputBounds ==
  /\ MaxOps \in Nat /\ MaxRecords \in Nat /\ IsFiniteSet(Threads) /\ "free" \notin Threads
  /\ IsFiniteSet(Fanouts) /\ Cardinality(Fanouts) = MaxOps /\ HostHandler \notin Fanouts
  <1>1. MaxOps \in Nat /\ MaxRecords \in Nat /\ IsFiniteSet(Threads) /\ "free" \notin Threads
    BY LogOutputAssumption
  <1>2. PICK a \in Int, b \in Int : a = 1 /\ b = MaxOps BY <1>1
  <1>3. IsFiniteSet(a .. b) /\ Cardinality(a .. b) = IF a > b THEN 0 ELSE b - a + 1 BY FS_Interval
  <1>4. Cardinality(1 .. MaxOps) = MaxOps /\ IsFiniteSet(1 .. MaxOps) BY <1>1, <1>2, <1>3
  <1>5. HostHandler \notin Fanouts BY <1>1 DEF HostHandler, Fanouts
  <1> QED BY <1>1, <1>4, <1>5 DEF Fanouts

LEMMA Positions ==
  /\ OursAt = At(root) /\ OursAt' = At(root')
  BY DEF OursAt, At

\* The first of one.
LEMMA FirstSole == ASSUME NEW f, root \in Seq(Handlers), Sole(root, f) PROVE First = f
  <1>1. PICK i \in DOMAIN root : At(root) = {i} /\ root[i] = f BY DEF Sole
  <1>2. i \in Nat
    <2>1. DOMAIN root = 1 .. Len(root) /\ Len(root) \in Nat BY LenProperties
    <2> QED BY <2>1
  <1>3. OursAt = {i} BY <1>1, Positions
  <1>4. (CHOOSE k \in OursAt : \A j \in OursAt : k <= j) = i BY <1>2, <1>3
  <1> QED BY <1>1, <1>4 DEF First

\* A handler of ours at the end of the list.
LEMMA AtAppend ==
  ASSUME NEW r \in Seq(Handlers), NEW f \in Handlers
  PROVE  /\ Append(r, f) \in Seq(Handlers) /\ Len(r) + 1 \notin At(r)
         /\ At(Append(r, f)) = At(r) \cup (IF f = HostHandler THEN {} ELSE {Len(r) + 1})
         /\ \A i \in At(r) : Append(r, f)[i] = r[i]
         /\ Append(r, f)[Len(r) + 1] = f
  <1> DEFINE q == Append(r, f)
             n == Len(r)
  <1>1. n \in Nat /\ DOMAIN r = 1 .. n BY LenProperties
  <1>2. q \in Seq(Handlers) /\ Len(q) = n + 1 /\ q[n + 1] = f /\ \A i \in 1 .. n : q[i] = r[i] BY AppendProperties
  <1>3. DOMAIN q = 1 .. n + 1 BY <1>2, LenProperties
  <1> HIDE DEF q, n
  <1>4. At(r) \subseteq 1 .. n BY <1>1 DEF At
  <1>5. n + 1 \notin At(r) BY <1>1, <1>4
  <1>6. 1 .. n + 1 = (1 .. n) \cup {n + 1} BY <1>1
  <1>7. \A i \in 1 .. n : i \in At(q) <=> i \in At(r) BY <1>1, <1>2, <1>3, <1>6 DEF At
  <1>8. n + 1 \in At(q) <=> f # HostHandler BY <1>2, <1>3, <1>6 DEF At
  <1>9. At(q) \subseteq 1 .. n + 1 BY <1>3 DEF At
  <1>10. At(q) = At(r) \cup (IF f = HostHandler THEN {} ELSE {n + 1})
    <2>1. CASE f = HostHandler BY <1>4, <1>6, <1>7, <1>8, <1>9, <2>1
    <2>2. CASE f # HostHandler BY <1>4, <1>6, <1>7, <1>8, <1>9, <2>2
    <2> QED BY <2>1, <2>2
  <1> QED BY <1>2, <1>4, <1>5, <1>10 DEF q, n

\* The lists that a step makes: a new handler of ours at the end, or alone, ...
LEMMA OursAdded ==
  ASSUME NEW r \in Seq(Handlers), NEW f \in Fanouts, NEW q, q = <<f>> \/ q = Append(r, f)
  PROVE  /\ q \in Seq(Handlers) /\ At(q) # {} /\ \A g : Sole(q, g) => g = f
         /\ q = <<f>> \/ At(r) = {} => AtMostOne(q)
  <1>1. f \in Handlers /\ f # HostHandler BY OutputBounds DEF Handlers
  <1>2. CASE q = <<f>>
    <2>1. q \in Seq(Handlers) /\ DOMAIN q = {1} /\ q[1] = f BY <1>1, <1>2
    <2>2. At(q) = {1} BY <1>1, <2>1 DEF At
    <2> QED BY <2>1, <2>2 DEF Sole, AtMostOne
  <1>3. CASE q = Append(r, f)
    <2>1. /\ q \in Seq(Handlers) /\ Len(r) + 1 \notin At(r) /\ q[Len(r) + 1] = f
          /\ At(q) = At(r) \cup {Len(r) + 1}
      BY <1>1, <1>3, AtAppend
    <2>2. ASSUME NEW g, Sole(q, g) PROVE g = f
      <3>1. PICK i \in DOMAIN q : At(q) = {i} /\ q[i] = g BY <2>2 DEF Sole
      <3>2. i = Len(r) + 1 BY <2>1, <3>1
      <3> QED BY <2>1, <3>1, <3>2
    <2>3. At(r) = {} => AtMostOne(q) BY <2>1 DEF AtMostOne
    <2>4. q = <<f>> => AtMostOne(q)
      <3>1. ASSUME q = <<f>> PROVE AtMostOne(q)
        <4>1. DOMAIN q = {1} BY <3>1
        <4> QED BY <4>1 DEF AtMostOne, At
      <3> QED BY <3>1
    <2> QED BY <2>1, <2>2, <2>3, <2>4
  <1> QED BY <1>2, <1>3

\* ... a handler of the host's at the end, ...
LEMMA HostAdded ==
  ASSUME NEW r \in Seq(Handlers), NEW q, q = Append(r, HostHandler)
  PROVE  /\ q \in Seq(Handlers) /\ At(q) = At(r) /\ \A g : Sole(q, g) => Sole(r, g)
         /\ AtMostOne(r) => AtMostOne(q)
  <1>1. HostHandler \in Handlers BY DEF Handlers
  <1>2. q \in Seq(Handlers) /\ At(q) = At(r) /\ \A i \in At(r) : q[i] = r[i]
    <2>1. PICK f \in Handlers : f = HostHandler BY <1>1
    <2>2. /\ Append(r, f) \in Seq(Handlers) /\ \A i \in At(r) : Append(r, f)[i] = r[i]
          /\ At(Append(r, f)) = At(r) \cup (IF f = HostHandler THEN {} ELSE {Len(r) + 1})
      BY AtAppend
    <2>3. q = Append(r, f) BY <2>1
    <2>4. At(q) = At(r) BY <2>1, <2>2, <2>3
    <2> QED BY <2>2, <2>3, <2>4
  <1>3. ASSUME NEW g, Sole(q, g) PROVE Sole(r, g)
    <2>1. PICK i \in DOMAIN q : At(q) = {i} /\ q[i] = g BY <1>3 DEF Sole
    <2>2. i \in At(r) /\ r[i] = g BY <1>2, <2>1
    <2>3. i \in DOMAIN r BY <2>2 DEF At
    <2> QED BY <1>2, <2>1, <2>2, <2>3 DEF Sole
  <1> QED BY <1>2, <1>3 DEF AtMostOne

\* ... or nothing of ours.
LEMMA OursGone ==
  ASSUME NEW q, q = <<>> \/ q = <<HostHandler>>
  PROVE  q \in Seq(Handlers) /\ At(q) = {} /\ AtMostOne(q) /\ \A g : ~Sole(q, g)
  <1>1. HostHandler \in Handlers BY DEF Handlers
  <1>2. q \in Seq(Handlers)
    <2>1. CASE q = <<>> BY <2>1
    <2>2. CASE q = <<HostHandler>>
      <3>1. PICK f \in Handlers : f = HostHandler BY <1>1
      <3>2. q = <<f>> BY <2>2, <3>1
      <3> QED BY <3>2
    <2> QED BY <2>1, <2>2
  <1>3. At(q) = {}
    <2>1. CASE q = <<>>
      <3>1. DOMAIN q = {} BY <2>1
      <3> QED BY <3>1 DEF At
    <2>2. CASE q = <<HostHandler>>
      <3>1. DOMAIN q = {1} /\ q[1] = HostHandler BY <2>2
      <3> QED BY <3>1 DEF At
    <2> QED BY <2>1, <2>2
  <1> QED BY <1>2, <1>3 DEF AtMostOne, Sole

\* One handler in three readings.
LEMMA SoleFacts ==
  ASSUME NEW r \in Seq(Handlers)
  PROVE  /\ Cardinality(At(r)) \in Nat /\ (AtMostOne(r) => Cardinality(At(r)) <= 1)
         /\ \A i \in At(r) : r[i] \in Fanouts /\ (Cardinality(At(r)) <= 1 => Sole(r, r[i]))
  <1>1. Len(r) \in Nat /\ DOMAIN r = 1 .. Len(r) BY LenProperties
  <1>2. \A i \in 1 .. Len(r) : r[i] \in Handlers BY ElementOfSeq
  <1>3. At(r) \subseteq 1 .. Len(r) BY <1>1 DEF At
  <1>4. IsFiniteSet(1 .. Len(r))
    <2>1. Len(r) \in Nat BY <1>1
    <2> QED BY <2>1, SegmentFinite
  <1>5. IsFiniteSet(At(r)) /\ Cardinality(At(r)) \in Nat BY <1>3, <1>4, FS_Subset, FS_CardinalityType
  <1>6. ASSUME AtMostOne(r) PROVE Cardinality(At(r)) <= 1
    <2>1. CASE At(r) = {}
      <3>1. Cardinality(At(r)) = 0 BY <2>1, FS_EmptySet
      <3> QED BY <3>1
    <2>2. CASE At(r) # {}
      <3>1. PICK i \in At(r) : TRUE BY <2>2
      <3>2. At(r) = {i} BY <1>6, <3>1 DEF AtMostOne
      <3>3. Cardinality(At(r)) = 1 BY <3>2, FS_Singleton
      <3> QED BY <3>3
    <2> QED BY <2>1, <2>2
  <1>7. ASSUME NEW i \in At(r) PROVE r[i] \in Fanouts /\ (Cardinality(At(r)) <= 1 => Sole(r, r[i]))
    <2>1. r[i] \in Fanouts BY <1>1, <1>2, <1>3, <1>7 DEF At, Handlers
    <2>2. ASSUME Cardinality(At(r)) <= 1 PROVE Sole(r, r[i])
      <3>1. Cardinality(At(r)) # 0 BY <1>5, <1>7, FS_EmptySet
      <3>2. Cardinality(At(r)) = 1 BY <1>5, <2>2, <3>1
      <3>3. \E x : At(r) = {x} BY <1>5, <3>2, FS_Singleton
      <3>4. At(r) = {i} BY <1>7, <3>3
      <3>5. i \in DOMAIN r BY <1>7 DEF At
      <3> QED BY <3>4, <3>5 DEF Sole
    <2> QED BY <2>1, <2>2
  <1> QED BY <1>5, <1>6, <1>7
-----------------------------------------------------------------------------
(* Steps of one thread                                                     *)

\* Thread t goes on to a step, with local variables l.
Move(t, step, l) == pc' = [pc EXCEPT ![t] = step] /\ loc' = [loc EXCEPT ![t] = l]

LEMMA Moved ==
  ASSUME TypeInv, NEW t \in Threads, NEW step, NEW l, Move(t, step, l)
  PROVE  /\ pc'[t] = step /\ loc'[t] = l
         /\ \A u \in Threads : u # t => pc'[u] = pc[u] /\ loc'[u] = loc[u]
  BY DEF TypeInv, Move

LEMMA LocalMove ==
  ASSUME TypeInv, LocalInv, NEW t \in Threads, NEW step \in Steps, NEW l \in LocalType,
         Move(t, step, l), LocalOk(step, l)
  PROVE  pc' \in [Threads -> Steps] /\ loc' \in [Threads -> LocalType] /\ LocalInv'
  <1>1. pc' \in [Threads -> Steps] /\ loc' \in [Threads -> LocalType] BY DEF TypeInv, Move
  <1>2. ASSUME NEW u \in Threads PROVE LocalOk(pc'[u], loc'[u])
    <2>1. CASE u = t BY <2>1, Moved
    <2>2. CASE u # t BY <2>2, Moved DEF LocalInv
    <2> QED BY <2>1, <2>2
  <1> QED BY <1>1, <1>2 DEF LocalInv

LEMMA LockMove ==
  ASSUME TypeInv, LockInv, NEW t \in Threads, NEW step, NEW l, Move(t, step, l),
         \/ lock' = lock /\ (pc[t] \in InPass <=> step \in InPass)
         \/ lock = "free" /\ lock' = t /\ step \in InPass
         \/ lock = t /\ lock' = "free" /\ step \notin InPass
  PROVE  LockInv'
  <1>1. "free" \notin Threads BY OutputBounds
  <1>2. ASSUME NEW u \in Threads PROVE pc'[u] \in InPass <=> lock' = u
    <2>1. CASE u = t
      <3>1. pc'[u] = step BY <2>1, Moved
      <3> QED BY <1>1, <2>1, <3>1 DEF LockInv
    <2>2. CASE u # t
      <3>1. pc'[u] = pc[u] BY <2>2, Moved
      <3> QED BY <1>1, <2>2, <3>1 DEF LockInv
    <2> QED BY <2>1, <2>2
  <1> QED BY <1>2 DEF LockInv

\* Threads, and the ways their number changes.
LEMMA SomeThreads == ASSUME NEW S, S \subseteq Threads PROVE IsFiniteSet(S) /\ Cardinality(S) \in Nat
  BY OutputBounds, FS_Subset, FS_CardinalityType

LEMMA UsedFinite == IsFiniteSet(Used) /\ Cardinality(Used) \in Nat
  <1>1. Used \subseteq Fanouts BY DEF Used
  <1> QED BY <1>1, OutputBounds, FS_Subset, FS_CardinalityType

\* The fan-out handlers and the passes that may attach one.
LEMMA SpareMove ==
  ASSUME TypeInv, SpareInv, NEW t \in Threads, NEW step, NEW l, Move(t, step, l),
         \A f \in Fanouts : child'[f].serial = child[f].serial,
         \/ ops' = ops /\ (step \in MayAttach => pc[t] \in MayAttach)
         \/ ops' = ops + 1
  PROVE  SpareInv'
  <1>1. Used' = Used BY DEF Used
  <1>2. /\ IsFiniteSet(Attaching) /\ Cardinality(Attaching) \in Nat
        /\ IsFiniteSet(Attaching') /\ Cardinality(Attaching') \in Nat
    <2>1. Attaching \subseteq Threads /\ Attaching' \subseteq Threads BY DEF Attaching
    <2> QED BY <2>1, SomeThreads
  <1>3. Attaching' \subseteq Attaching \cup {t} BY Moved DEF Attaching
  <1>4. Cardinality(Used) \in Nat BY UsedFinite
  <1>5. ops \in Nat BY OutputBounds DEF TypeInv
  <1>6. Cardinality(Used) + Cardinality(Attaching) <= ops BY DEF SpareInv
  <1>7. CASE ops' = ops /\ (step \in MayAttach => pc[t] \in MayAttach)
    <2>1. Attaching' \subseteq Attaching
      <3>1. t \in Attaching' => t \in Attaching BY <1>7, Moved DEF Attaching
      <3> QED BY <1>3, <3>1
    <2>2. Cardinality(Attaching') <= Cardinality(Attaching) BY <1>2, <2>1, FS_Subset
    <2>3. Cardinality(Used) + Cardinality(Attaching') <= ops' BY <1>2, <1>4, <1>5, <1>6, <1>7, <2>2
    <2> QED BY <1>1, <2>3 DEF SpareInv
  <1>8. CASE ops' = ops + 1
    <2>1. /\ IsFiniteSet(Attaching \cup {t})
          /\ Cardinality(Attaching \cup {t}) = IF t \in Attaching THEN Cardinality(Attaching) ELSE Cardinality(Attaching) + 1
      BY <1>2, FS_AddElement
    <2>2. Cardinality(Attaching') <= Cardinality(Attaching \cup {t}) BY <1>2, <1>3, <2>1, FS_Subset
    <2>3. Cardinality(Attaching \cup {t}) <= Cardinality(Attaching) + 1 BY <1>2, <2>1
    <2>4. Cardinality(Attaching') <= Cardinality(Attaching) + 1 BY <1>2, <2>1, <2>2, <2>3
    <2>5. Cardinality(Used) + Cardinality(Attaching') <= ops' BY <1>2, <1>4, <1>5, <1>6, <1>8, <2>4
    <2> QED BY <1>1, <2>5 DEF SpareInv
  <1> QED BY <1>7, <1>8

\* A pass that attaches its handler finds one that nobody used.
LEMMA UnusedExists ==
  ASSUME TypeInv, SpareInv, NEW t \in Threads, pc[t] = "install"
  PROVE  Unused \in Fanouts /\ child[Unused].serial = 0 /\ Cardinality(Used) + 1 <= ops
  <1>1. t \in Attaching BY DEF Attaching, MayAttach
  <1>2. IsFiniteSet(Attaching) /\ Cardinality(Attaching) \in Nat
    <2>1. Attaching \subseteq Threads BY DEF Attaching
    <2> QED BY <2>1, SomeThreads
  <1>3. Cardinality(Attaching) # 0 BY <1>1, <1>2, FS_EmptySet
  <1>4. Cardinality(Used) \in Nat /\ ops \in 0 .. MaxOps /\ MaxOps \in Nat BY UsedFinite, OutputBounds DEF TypeInv
  <1>5. Cardinality(Used) + Cardinality(Attaching) <= ops BY DEF SpareInv
  <1>6. Cardinality(Used) + 1 <= ops /\ Cardinality(Used) # MaxOps
    <2> DEFINE a == Cardinality(Used)
               b == Cardinality(Attaching)
    <2>1. a \in Nat /\ b \in Nat /\ b # 0 /\ a + b <= ops BY <1>2, <1>3, <1>4, <1>5
    <2> HIDE DEF a, b
    <2>2. a + 1 <= ops /\ a # MaxOps BY <1>4, <2>1
    <2> QED BY <2>2 DEF a
  <1>7. Used # Fanouts BY <1>6, OutputBounds
  <1>8. \E f \in Fanouts : child[f].serial = 0 BY <1>7 DEF Used
  <1> QED BY <1>6, <1>8 DEF Unused

\* A move that no ticket is affected by.
LEMMA CountMove ==
  ASSUME TypeInv, CountInv, NEW t \in Threads, NEW step, NEW l, Move(t, step, l),
         l.ticket <=> loc[t].ticket, step # "nested" /\ pc[t] # "nested", counts' = counts
  PROVE  CountInv'
  <1>1. Tickets' = Tickets /\ Nested' = Nested BY Moved DEF Tickets, Nested
  <1> QED BY <1>1 DEF CountInv

\* A move that attaches nothing and tears nothing down.
LEMMA OneMove ==
  ASSUME TypeInv, OneInv, NEW t \in Threads, NEW step, NEW l, Move(t, step, l), root' = root, torn' = torn,
         configured' \/ (configured' = configured /\ pc[t] # "render")
  PROVE  OneInv'
  <1>1. ASSUME ~torn', ~configured', At(root') # {} PROVE \E u \in Threads : pc'[u] = "render"
    <2>1. PICK u \in Threads : pc[u] = "render" BY <1>1 DEF OneInv
    <2>2. u # t BY <1>1, <2>1
    <2> QED BY <2>1, <2>2, Moved
  <1> QED BY <1>1 DEF OneInv

\* A move that installs no writer that was let go.
LEMMA ReleaseMove ==
  ASSUME TypeInv, ReleaseInv, NEW t \in Threads, NEW step, NEW l, Move(t, step, l),
         slot' \notin released', released' \subseteq released, raced' = raced, root' = root,
         \A f \in Fanouts : child'[f].target = child[f].target,
         pc[t] # "detach", step = "install" => l.writer = slot'
  PROVE  ReleaseInv'
  <1>1. ASSUME ~raced', NEW u \in Threads, pc'[u] = "install" PROVE loc'[u].writer \notin released'
    <2>1. CASE u = t
      <3>1. pc'[u] = step /\ loc'[u] = l BY <2>1, Moved
      <3> QED BY <1>1, <3>1
    <2>2. CASE u # t BY <1>1, <2>2, Moved DEF ReleaseInv
    <2> QED BY <2>1, <2>2
  <1>2. ASSUME ~raced', \A u \in Threads : pc'[u] # "detach", NEW f \in Fanouts, Sole(root', f)
        PROVE  child'[f].target \notin released'
    <2>1. \A u \in Threads : pc[u] # "detach" BY <1>2, Moved
    <2> QED BY <1>2, <2>1 DEF ReleaseInv
  <1>3. Stderr \notin released' BY DEF ReleaseInv
  <1> QED BY <1>1, <1>2, <1>3 DEF ReleaseInv

\* Who owes a rebuild or a teardown excuses the pipeline, ...
LEMMA SettleOwes ==
  ASSUME TypeInv, NEW t \in Threads, NEW step, NEW l, Move(t, step, l), Owes(step, l)
  PROVE  SettleInv'
  <1>1. Owes(pc'[t], loc'[t]) BY Moved
  <1> QED BY <1>1 DEF SettleInv

\* ... and a move outside the passes that pays nothing off leaves it as it was.
LEMMA SettleMove ==
  ASSUME TypeInv, SettleInv, NEW t \in Threads, NEW step, NEW l, Move(t, step, l),
         slot' = slot, root' = root, \A f \in Fanouts : child'[f].target = child[f].target, colour' = colour,
         lock' = lock, configured' = configured, active' = active,
         pc[t] \notin InPass, step \notin InPass, Owes(pc[t], loc[t]) => Owes(step, l)
  PROVE  SettleInv'
  <1> SUFFICES ASSUME \A u \in Threads : ~Owes(pc'[u], loc'[u])
               PROVE  /\ lock' = "free" /\ configured' /\ active' =>
                           \A f \in Fanouts : Sole(root', f) => child'[f].target = slot' /\ colour' = slot'
                      /\ \A u \in Threads :
                           /\ pc'[u] \in InPass => loc'[u].dest = slot'
                           /\ pc'[u] = "install" => loc'[u].writer = slot'
                           /\ pc'[u] = "render" => \A f \in Fanouts : Sole(root', f) => child'[f].target = slot'
    BY DEF SettleInv
  <1>1. ASSUME NEW u \in Threads PROVE ~Owes(pc[u], loc[u])
    <2>1. CASE u = t
      <3>1. ~Owes(step, l) BY Moved
      <3> QED BY <2>1, <3>1
    <2>2. CASE u # t BY <2>2, Moved
    <2> QED BY <2>1, <2>2
  <1>2. ASSUME NEW u \in Threads
        PROVE  /\ pc'[u] \in InPass => loc'[u].dest = slot'
               /\ pc'[u] = "install" => loc'[u].writer = slot'
               /\ pc'[u] = "render" => \A f \in Fanouts : Sole(root', f) => child'[f].target = slot'
    <2>1. CASE u = t
      <3>1. pc'[u] = step BY <2>1, Moved
      <3> QED BY <3>1 DEF InPass
    <2>2. CASE u # t
      <3>1. pc'[u] = pc[u] /\ loc'[u] = loc[u] BY <2>2, Moved
      <3> QED BY <1>1, <3>1 DEF SettleInv
    <2> QED BY <2>1, <2>2
  <1>3. lock' = "free" /\ configured' /\ active' =>
          \A f \in Fanouts : Sole(root', f) => child'[f].target = slot' /\ colour' = slot'
    BY <1>1 DEF SettleInv
  <1> QED BY <1>2, <1>3

LEMMA NoLocalsType ==
  /\ NoLocals \in LocalType /\ LocalOk("idle", NoLocals) /\ ~NoLocals.ticket /\ NoLocals.writes = <<>>
  /\ NoLocals.force = FALSE /\ NoLocals.claim = FALSE /\ NoLocals.at = 1 /\ "idle" \in Steps
  <1>1. Stderr \in Targets /\ <<>> \in Seq(WriteType) BY DEF Targets
  <1>2. NoLocals \in LocalType BY <1>1 DEF NoLocals, LocalType
  <1>3. /\ ~NoLocals.ticket /\ NoLocals.writes = <<>> /\ NoLocals.force = FALSE /\ NoLocals.claim = FALSE
        /\ NoLocals.at = 1
    BY DEF NoLocals
  <1>4. LocalOk("idle", NoLocals) BY <1>3 DEF LocalOk, OnRecord, InWrite
  <1> QED BY <1>2, <1>3, <1>4 DEF Steps

\* Outside a log call a thread has no ticket and no write.
LEMMA NoRecord ==
  ASSUME TypeInv, LocalInv, NEW t \in Threads
  PROVE  /\ loc[t] \in LocalType /\ pc[t] \in Steps
         /\ pc[t] \notin OnRecord => ~loc[t].ticket /\ loc[t].writes = <<>>
         /\ pc[t] = "idle" => loc[t] = NoLocals
  <1>1. LocalOk(pc[t], loc[t]) BY DEF LocalInv
  <1>2. loc[t] \in LocalType /\ pc[t] \in Steps BY DEF TypeInv
  <1> QED BY <1>1, <1>2 DEF LocalOk, OnRecord, InWrite

\* A step of a log call disturbs only the counts and the thread's own locals.
LEMMA RecordMove ==
  ASSUME OutputInv, NEW t \in Threads, NEW step \in {"idle", "emit", "write", "nested"}, NEW l \in LocalType, Move(t, step, l),
         LocalOk(step, l), pc[t] \in {"idle", "emit", "write", "nested"}, counts' \in CountType, CountInv',
         UNCHANGED <<slot, lock, conf, pipe, ops, hist>>
  PROVE  OutputInv'
  <1>1. TypeInv /\ LockInv /\ LocalInv /\ CountInv /\ SpareInv /\ OneInv /\ ReleaseInv /\ SettleInv
    BY DEF OutputInv
  <1>2. /\ slot' = slot /\ lock' = lock /\ configured' = configured /\ active' = active /\ root' = root
        /\ child' = child /\ colour' = colour /\ chain' = chain /\ ops' = ops /\ released' = released
        /\ raced' = raced /\ torn' = torn
    BY DEF conf, pipe, hist
  <1>3. step \in Steps /\ step \notin InPass /\ pc[t] \notin InPass /\ step \notin MayAttach
        /\ ~Owes(pc[t], loc[t]) /\ pc[t] # "render" /\ pc[t] # "detach" /\ step # "install"
    BY DEF Steps, InPass, MayAttach, Owes
  <1>4. pc' \in [Threads -> Steps] /\ loc' \in [Threads -> LocalType] /\ LocalInv'
    BY <1>1, <1>3, LocalMove
  <1>5. TypeInv' BY <1>1, <1>2, <1>4 DEF TypeInv
  <1>6. LockInv' BY <1>1, <1>2, <1>3, LockMove
  <1>7. SpareInv' BY <1>1, <1>2, <1>3, SpareMove
  <1>8. OneInv' BY <1>1, <1>2, <1>3, OneMove
  <1>9. ReleaseInv'
    <2>1. slot' \notin released' /\ released' \subseteq released BY <1>1, <1>2 DEF ReleaseInv
    <2> QED BY <1>1, <1>2, <1>3, <2>1, ReleaseMove
  <1>10. SettleInv' BY <1>1, <1>2, <1>3, SettleMove
  <1> QED BY <1>4, <1>5, <1>6, <1>7, <1>8, <1>9, <1>10 DEF OutputInv
-----------------------------------------------------------------------------
(* Log calls                                                               *)

LEMMA TicketMove ==
  ASSUME TypeInv, NEW t \in Threads, NEW step, NEW l, Move(t, step, l)
  PROVE  /\ Cardinality(Tickets) \in Nat /\ Cardinality(Tickets') \in Nat
         /\ ~l.ticket => Cardinality(Tickets') + Ticket(t) = Cardinality(Tickets)
         /\ l.ticket /\ ~loc[t].ticket => Cardinality(Tickets') = Cardinality(Tickets) + 1
  <1>1. Tickets \subseteq Threads /\ Tickets' \subseteq Threads BY DEF Tickets
  <1>2. /\ IsFiniteSet(Tickets) /\ Cardinality(Tickets) \in Nat
        /\ IsFiniteSet(Tickets') /\ Cardinality(Tickets') \in Nat
    BY <1>1, SomeThreads
  <1>3. ASSUME ~l.ticket PROVE Cardinality(Tickets') + Ticket(t) = Cardinality(Tickets)
    <2>1. Tickets' = Tickets \ {t} BY <1>3, Moved DEF Tickets
    <2>2. Cardinality(Tickets') = IF t \in Tickets THEN Cardinality(Tickets) - 1 ELSE Cardinality(Tickets)
      BY <1>2, <2>1, FS_RemoveElement
    <2>3. t \in Tickets <=> loc[t].ticket BY DEF Tickets
    <2>4. CASE loc[t].ticket
      <3>1. Ticket(t) = 1 BY <2>4 DEF Ticket
      <3> QED BY <1>2, <2>2, <2>3, <2>4, <3>1
    <2>5. CASE ~loc[t].ticket
      <3>1. Ticket(t) = 0 BY <2>5 DEF Ticket
      <3> QED BY <1>2, <2>2, <2>3, <2>5, <3>1
    <2> QED BY <2>4, <2>5
  <1>4. ASSUME l.ticket, ~loc[t].ticket PROVE Cardinality(Tickets') = Cardinality(Tickets) + 1
    <2>1. Tickets' = Tickets \cup {t} /\ t \notin Tickets BY <1>4, Moved DEF Tickets
    <2> QED BY <1>2, <2>1, FS_AddElement
  <1> QED BY <1>2, <1>3, <1>4

LEMMA NestedMove ==
  ASSUME TypeInv, NEW t \in Threads, NEW step, NEW l, Move(t, step, l)
  PROVE  /\ Cardinality(Nested) \in Nat /\ Cardinality(Nested') \in Nat
         /\ step # "nested" /\ pc[t] # "nested" => Cardinality(Nested') = Cardinality(Nested)
         /\ step = "nested" /\ pc[t] # "nested" => Cardinality(Nested') = Cardinality(Nested) + 1
         /\ step # "nested" /\ pc[t] = "nested" => Cardinality(Nested') = Cardinality(Nested) - 1
  <1>1. Nested \subseteq Threads /\ Nested' \subseteq Threads BY DEF Nested
  <1>2. /\ IsFiniteSet(Nested) /\ Cardinality(Nested) \in Nat
        /\ IsFiniteSet(Nested') /\ Cardinality(Nested') \in Nat
    BY <1>1, SomeThreads
  <1>3. ASSUME step # "nested", pc[t] # "nested" PROVE Nested' = Nested BY <1>3, Moved DEF Nested
  <1>4. ASSUME step = "nested", pc[t] # "nested" PROVE Cardinality(Nested') = Cardinality(Nested) + 1
    <2>1. Nested' = Nested \cup {t} /\ t \notin Nested BY <1>4, Moved DEF Nested
    <2> QED BY <1>2, <2>1, FS_AddElement
  <1>5. ASSUME step # "nested", pc[t] = "nested" PROVE Cardinality(Nested') = Cardinality(Nested) - 1
    <2>1. Nested' = Nested \ {t} /\ t \in Nested BY <1>5, Moved DEF Nested
    <2> QED BY <1>2, <2>1, FS_RemoveElement
  <1> QED BY <1>2, <1>3, <1>4, <1>5

\* What a step of a log call must give.
LEMMA CountsMove ==
  ASSUME CountInv, counts' \in CountType, counts \in CountType,
         Cardinality(Tickets) \in Nat, Cardinality(Tickets') \in Nat,
         Cardinality(Nested) \in Nat, Cardinality(Nested') \in Nat,
         counts'.emitted + counts'.escaped = counts'.freed,
         counts'.freed + Cardinality(Tickets') + Cardinality(Nested') + counts'.missed + counts.logged
           = counts.freed + Cardinality(Tickets) + Cardinality(Nested) + counts.missed + counts'.logged
  PROVE  CountInv'
  <1>1. /\ counts.freed \in Nat /\ counts.missed \in Nat /\ counts.logged \in Nat
        /\ counts'.freed \in Nat /\ counts'.missed \in Nat /\ counts'.logged \in Nat
    BY DEF CountType
  <1>2. counts.freed + Cardinality(Tickets) + Cardinality(Nested) + counts.missed = counts.logged BY DEF CountInv
  <1>3. counts'.freed + Cardinality(Tickets') + Cardinality(Nested') + counts'.missed = counts'.logged BY <1>1, <1>2
  <1> QED BY <1>3 DEF CountInv

LEMMA LogStep == ASSUME OutputInv, NEW t \in Threads, Log(t) PROVE OutputInv'
  <1> DEFINE l == [loc[t] EXCEPT !.ticket = TRUE]
  <1>1. TypeInv /\ LocalInv /\ CountInv /\ pc[t] = "idle" BY DEF OutputInv, Log
  <1>2. loc[t] = NoLocals BY <1>1, NoRecord
  <1>3. /\ counts' = [counts EXCEPT !.logged = @ + 1] /\ counts \in CountType
        /\ UNCHANGED <<slot, lock, conf, pipe, ops, hist>>
    BY <1>1 DEF Log, TypeInv
  <1>4. Move(t, "emit", l) BY <1>1 DEF Log, Move, TypeInv
  <1>5. l \in LocalType /\ l.ticket /\ l.writes = <<>> /\ ~loc[t].ticket
    BY <1>2, NoLocalsType DEF LocalType
  <1> HIDE DEF l
  <1>6. LocalOk("emit", l) BY <1>5 DEF LocalOk, OnRecord, InWrite
  <1>7. counts' \in CountType /\ CountInv'
    <2>1. /\ Cardinality(Tickets') = Cardinality(Tickets) + 1 /\ Cardinality(Nested') = Cardinality(Nested)
          /\ Cardinality(Nested) \in Nat /\ Cardinality(Tickets) \in Nat
      BY <1>1, <1>4, <1>5, TicketMove, NestedMove
    <2>2. PICK a \in Nat, b \in Nat, d \in Nat, e \in Nat, m \in Nat :
            /\ a = counts.logged + 1 /\ b = counts.emitted /\ d = counts.freed /\ e = counts.escaped
            /\ m = counts.missed
      BY <1>3 DEF CountType
    <2>3. counts' = [counts EXCEPT !.logged = a, !.emitted = b, !.freed = d, !.escaped = e, !.missed = m]
      BY <1>3, <2>2 DEF CountType
    <2>4. b + e = d BY <1>1, <2>2 DEF CountInv
    <2>5. counts.logged \in Nat BY <1>3 DEF CountType
    <2>r. /\ counts' \in CountType /\ counts'.logged = a /\ counts'.emitted = b /\ counts'.freed = d
          /\ counts'.escaped = e /\ counts'.missed = m
      BY <1>3, <2>3 DEF CountType
    <2>s. counts'.emitted + counts'.escaped = counts'.freed BY <2>4, <2>r
    <2>t. Cardinality(Tickets) \in Nat /\ Cardinality(Tickets') \in Nat /\ Cardinality(Nested) \in Nat
          /\ Cardinality(Nested') \in Nat
      BY <1>1, <1>4, TicketMove, NestedMove
    <2>u. counts'.freed + Cardinality(Tickets') + Cardinality(Nested') + counts'.missed + counts.logged
           = counts.freed + Cardinality(Tickets) + Cardinality(Nested) + counts.missed + counts'.logged
      BY <2>1, <2>2, <2>5, <2>r, <2>t
    <2> QED BY <1>1, <1>3, <2>r, <2>s, <2>t, <2>u, CountsMove
  <1> QED BY <1>1, <1>3, <1>4, <1>5, <1>6, <1>7, RecordMove

LEMMA EmitStep == ASSUME OutputInv, NEW t \in Threads, Emit(t) PROVE OutputInv'
  <1> DEFINE f == root[loc[t].at]
             w == [fanout |-> f, serial |-> child[f].serial, target |-> child[f].target]
             l == [loc[t] EXCEPT !.writes = <<w>>]
  <1>1. TypeInv /\ LocalInv /\ CountInv /\ pc[t] = "emit" BY DEF OutputInv, Emit
  <1>2. /\ counts' = counts /\ counts \in CountType /\ loc[t] \in LocalType /\ LocalOk("emit", loc[t])
        /\ UNCHANGED <<slot, lock, conf, pipe, ops, hist>>
    BY <1>1 DEF Emit, TypeInv, LocalInv
  <1>3. Move(t, "write", l) BY <1>1 DEF Emit, Move, TypeInv
  <1>4. f \in Fanouts
    <2>1. loc[t].at \in Nat \ {0} /\ loc[t].at <= Len(root) /\ f # HostHandler
      BY <1>2 DEF Emit, AtHandler, LocalType
    <2>2. root \in Seq(Handlers) /\ Len(root) \in Nat BY <1>1, LenProperties DEF TypeInv
    <2>3. loc[t].at \in 1 .. Len(root) BY <2>1, <2>2
    <2>4. f \in Handlers BY <2>2, <2>3, ElementOfSeq
    <2> QED BY <2>1, <2>4 DEF Handlers
  <1>5. w \in WriteType BY <1>1, <1>4 DEF TypeInv, ChildType, WriteType
  <1>6. <<w>> \in Seq(WriteType) /\ Len(<<w>>) = 1
    <2> HIDE DEF w
    <2> QED BY <1>5
  <1> DEFINE s == <<w>>
  <1>7. l = [loc[t] EXCEPT !.writes = s] /\ s \in Seq(WriteType) /\ Len(s) = 1 BY <1>6
  <1> HIDE DEF s, l
  <1>8. l \in LocalType /\ l.ticket = loc[t].ticket /\ l.at = loc[t].at /\ l.writes = s
    BY <1>2, <1>7 DEF LocalType
  <1>9. LocalOk("write", l) BY <1>2, <1>7, <1>8 DEF LocalOk, OnRecord, InWrite
  <1>10. CountInv' BY <1>1, <1>2, <1>3, <1>8, CountMove
  <1> QED BY <1>1, <1>2, <1>3, <1>8, <1>9, <1>10, RecordMove

LEMMA SkipHostStep == ASSUME OutputInv, NEW t \in Threads, SkipHost(t) PROVE OutputInv'
  <1> DEFINE l == [loc[t] EXCEPT !.at = @ + 1]
  <1>1. TypeInv /\ LocalInv /\ CountInv /\ pc[t] = "emit" BY DEF OutputInv, SkipHost
  <1>2. /\ counts' = counts /\ counts \in CountType /\ loc[t] \in LocalType /\ LocalOk("emit", loc[t])
        /\ UNCHANGED <<slot, lock, conf, pipe, ops, hist>>
    BY <1>1 DEF SkipHost, TypeInv, LocalInv
  <1>3. Move(t, "emit", l) BY <1>1 DEF SkipHost, Move, TypeInv
  <1>4. /\ l \in LocalType /\ l.ticket = loc[t].ticket /\ l.writes = loc[t].writes /\ l.at = loc[t].at + 1
        /\ loc[t].at \in Nat \ {0}
    BY <1>2 DEF LocalType
  <1> HIDE DEF l
  <1>5. l.at > 1 BY <1>4
  <1>6. LocalOk("emit", l) BY <1>2, <1>4, <1>5 DEF LocalOk, OnRecord, InWrite
  <1>7. CountInv' BY <1>1, <1>2, <1>3, <1>4, CountMove
  <1> QED BY <1>1, <1>2, <1>3, <1>4, <1>6, <1>7, RecordMove

LEMMA ReenterStep == ASSUME OutputInv, NEW t \in Threads, Reenter(t) PROVE OutputInv'
  <1>1. TypeInv /\ LocalInv /\ CountInv /\ pc[t] = "write" BY DEF OutputInv, Reenter
  <1>2. /\ counts' = [counts EXCEPT !.logged = @ + 1]
        /\ counts \in CountType /\ loc[t] \in LocalType /\ LocalOk("write", loc[t])
        /\ pc' = [pc EXCEPT ![t] = "nested"] /\ loc' = loc /\ UNCHANGED <<slot, lock, conf, pipe, ops, hist>>
    BY <1>1 DEF Reenter, TypeInv, LocalInv
  <1>3. Move(t, "nested", loc[t]) BY <1>1, <1>2 DEF Move, TypeInv
  <1>4. LocalOk("nested", loc[t]) BY <1>2 DEF LocalOk, OnRecord, InWrite
  <1>5. counts' \in CountType /\ CountInv'
    <2>1. /\ Cardinality(Nested') = Cardinality(Nested) + 1 /\ Cardinality(Tickets) \in Nat
          /\ Cardinality(Nested) \in Nat /\ Tickets' = Tickets
      BY <1>1, <1>2, <1>3, TicketMove, NestedMove DEF Tickets
    <2>2. PICK a \in Nat, b \in Nat, d \in Nat, e \in Nat, m \in Nat :
            /\ a = counts.logged + 1 /\ b = counts.emitted /\ d = counts.freed /\ e = counts.escaped
            /\ m = counts.missed
      BY <1>2 DEF CountType
    <2>3. counts' = [counts EXCEPT !.logged = a, !.emitted = b, !.freed = d, !.escaped = e, !.missed = m]
      BY <1>2, <2>2 DEF CountType
    <2>4. b + e = d BY <1>1, <2>2 DEF CountInv
    <2>5. counts.logged \in Nat BY <1>2 DEF CountType
    <2>6. Cardinality(Tickets') = Cardinality(Tickets) /\ Cardinality(Nested') = Cardinality(Nested) + 1 BY <2>1
    <2>7. d + m = counts.freed + counts.missed /\ a = counts.logged + 1 BY <2>2
    <2>8. counts.freed \in Nat /\ counts.missed \in Nat /\ counts.logged \in Nat BY <1>2 DEF CountType
    <2>r. /\ counts' \in CountType /\ counts'.logged = a /\ counts'.emitted = b /\ counts'.freed = d
          /\ counts'.escaped = e /\ counts'.missed = m
      BY <1>2, <2>3 DEF CountType
    <2>s. counts'.emitted + counts'.escaped = counts'.freed BY <2>4, <2>r
    <2>t. Cardinality(Tickets) \in Nat /\ Cardinality(Tickets') \in Nat /\ Cardinality(Nested) \in Nat
          /\ Cardinality(Nested') \in Nat
      BY <1>1, <1>3, TicketMove, NestedMove
    <2>u. counts'.freed + Cardinality(Tickets') + Cardinality(Nested') + counts'.missed + counts.logged
           = counts.freed + Cardinality(Tickets) + Cardinality(Nested) + counts.missed + counts'.logged
      <3>1. PICK x \in Nat, y \in Nat : x = Cardinality(Tickets) /\ y = Cardinality(Nested) BY <2>t
      <3>2. Cardinality(Tickets') = x /\ Cardinality(Nested') = y + 1 BY <2>6, <3>1
      <3>3. d + x + (y + 1) + m + counts.logged = counts.freed + x + y + counts.missed + a BY <2>7, <2>8
      <3>4. counts'.freed = d /\ counts'.missed = m /\ counts'.logged = a BY <2>r
      <3> QED BY <3>1, <3>2, <3>3, <3>4
    <2> QED BY <1>1, <1>2, <2>r, <2>s, <2>t, <2>u, CountsMove
  <1> QED BY <1>1, <1>2, <1>3, <1>4, <1>5, RecordMove

LEMMA RefuseStep == ASSUME OutputInv, NEW t \in Threads, Refuse(t) PROVE OutputInv'
  <1>1. TypeInv /\ LocalInv /\ CountInv /\ pc[t] = "nested" BY DEF OutputInv, Refuse
  <1>2. /\ counts \in CountType /\ loc[t] \in LocalType /\ LocalOk("nested", loc[t])
        /\ pc' = [pc EXCEPT ![t] = "write"] /\ loc' = loc /\ UNCHANGED <<slot, lock, conf, pipe, ops, hist>>
    BY <1>1 DEF Refuse, TypeInv, LocalInv
  <1>3. Move(t, "write", loc[t]) BY <1>1, <1>2 DEF Move, TypeInv
  <1>4. LocalOk("write", loc[t]) BY <1>2 DEF LocalOk, OnRecord, InWrite
  <1>5. PICK one \in {0, 1}, b \in Nat, d \in Nat, m \in Nat :
          /\ counts' = [counts EXCEPT !.emitted = b, !.freed = d, !.missed = m]
          /\ b = counts.emitted + one /\ d = counts.freed + one /\ m = counts.missed + (1 - one)
    <2>0. counts.emitted \in Nat /\ counts.freed \in Nat /\ counts.missed \in Nat BY <1>2 DEF CountType
    <2>1. CASE OursAt = {}
      <3>1. PICK b \in Nat, d \in Nat, m \in Nat : b = counts.emitted /\ d = counts.freed /\ m = counts.missed + 1
        BY <2>0
      <3>2. counts' = [counts EXCEPT !.missed = m] BY <2>1, <3>1 DEF Refuse
      <3>3. counts' = [counts EXCEPT !.emitted = b, !.freed = d, !.missed = m] BY <1>2, <3>1, <3>2 DEF CountType
      <3>4. PICK one \in {0, 1} : one = 0 OBVIOUS
      <3>5. b = counts.emitted + one /\ d = counts.freed + one /\ m = counts.missed + (1 - one) BY <2>0, <3>1, <3>4
      <3> QED BY <3>3, <3>5
    <2>2. CASE OursAt # {}
      <3>1. PICK b \in Nat, d \in Nat, m \in Nat : b = counts.emitted + 1 /\ d = counts.freed + 1 /\ m = counts.missed
        BY <2>0
      <3>2. counts' = [counts EXCEPT !.emitted = b, !.freed = d] BY <2>2, <3>1 DEF Refuse
      <3>3. counts' = [counts EXCEPT !.emitted = b, !.freed = d, !.missed = m] BY <1>2, <3>1, <3>2 DEF CountType
      <3>4. PICK one \in {0, 1} : one = 1 OBVIOUS
      <3>5. b = counts.emitted + one /\ d = counts.freed + one /\ m = counts.missed + (1 - one) BY <2>0, <3>1, <3>4
      <3> QED BY <3>3, <3>5
    <2> QED BY <2>1, <2>2
  <1>6. counts' \in CountType /\ CountInv'
    <2>1. /\ Cardinality(Nested') = Cardinality(Nested) - 1 /\ Cardinality(Tickets) \in Nat
          /\ Cardinality(Nested) \in Nat /\ Tickets' = Tickets
      BY <1>1, <1>2, <1>3, TicketMove, NestedMove DEF Tickets
    <2>2. PICK a \in Nat, e \in Nat : a = counts.logged /\ e = counts.escaped BY <1>2 DEF CountType
    <2>3. counts' = [counts EXCEPT !.logged = a, !.emitted = b, !.freed = d, !.escaped = e, !.missed = m]
      BY <1>2, <1>5, <2>2 DEF CountType
    <2>4. counts.logged \in Nat /\ counts.freed \in Nat /\ counts.missed \in Nat
          /\ counts.emitted \in Nat /\ counts.escaped \in Nat
      BY <1>2 DEF CountType
    <2>5. counts.emitted + counts.escaped = counts.freed BY <1>1 DEF CountInv
    <2>a. b = counts.emitted + one /\ d = counts.freed + one /\ m = counts.missed + (1 - one) BY <1>5
    <2>c. Cardinality(Tickets') = Cardinality(Tickets) BY <2>1
    <2>b. one \in {0, 1} BY <1>5
    <2>d. d + m = counts.freed + counts.missed + 1 BY <2>4, <2>a, <2>b
    <2>e. Cardinality(Nested') = Cardinality(Nested) - 1 BY <2>1
    <2>6. b + e = d BY <2>2, <2>4, <2>5, <2>a
    <2>r. /\ counts' \in CountType /\ counts'.logged = a /\ counts'.emitted = b /\ counts'.freed = d
          /\ counts'.escaped = e /\ counts'.missed = m
      BY <1>2, <2>3 DEF CountType
    <2>s. counts'.emitted + counts'.escaped = counts'.freed BY <2>6, <2>r
    <2>t. Cardinality(Tickets) \in Nat /\ Cardinality(Tickets') \in Nat /\ Cardinality(Nested) \in Nat
          /\ Cardinality(Nested') \in Nat
      BY <1>1, <1>3, TicketMove, NestedMove
    <2>u. counts'.freed + Cardinality(Tickets') + Cardinality(Nested') + counts'.missed + counts.logged
           = counts.freed + Cardinality(Tickets) + Cardinality(Nested) + counts.missed + counts'.logged
      BY <2>2, <2>4, <2>c, <2>d, <2>e, <2>r, <2>t
    <2> QED BY <1>1, <1>2, <2>r, <2>s, <2>t, <2>u, CountsMove
  <1> QED BY <1>1, <1>2, <1>3, <1>4, <1>6, RecordMove

\* The record frees its ticket, counted as emitted or lost, and leaves the handler.
LEMMA FreeMove ==
  ASSUME TypeInv, CountInv, NEW t \in Threads, NEW step, NEW l, Move(t, step, l),
         ~l.ticket, pc[t] # "nested", step # "nested",
         NEW b \in Nat, NEW e \in Nat, NEW d \in Nat,
         counts' = [counts EXCEPT !.emitted = b, !.escaped = e, !.freed = d],
         d = counts.freed + Ticket(t), b + e = counts.emitted + counts.escaped + Ticket(t)
  PROVE  counts' \in CountType /\ CountInv'
  <1>1. counts \in CountType BY DEF TypeInv
  <1>2. PICK one \in {0, 1} : one = Ticket(t) BY DEF Ticket
  <1>3. /\ Cardinality(Tickets') + one = Cardinality(Tickets) /\ Cardinality(Tickets') \in Nat
        /\ Cardinality(Nested') = Cardinality(Nested) /\ Cardinality(Nested) \in Nat
        /\ Cardinality(Tickets) \in Nat
    BY <1>2, TicketMove, NestedMove
  <1>4. PICK a \in Nat, m \in Nat : a = counts.logged /\ m = counts.missed BY <1>1 DEF CountType
  <1>5. counts' = [counts EXCEPT !.logged = a, !.emitted = b, !.freed = d, !.escaped = e, !.missed = m]
    BY <1>1, <1>4 DEF CountType
  <1>6. counts.freed \in Nat BY <1>1 DEF CountType
  <1>7. counts.emitted + counts.escaped = counts.freed BY DEF CountInv
  <1>8. d = counts.freed + one /\ b + e = d BY <1>2, <1>7
  <1>d. counts.logged \in Nat /\ counts.missed \in Nat BY <1>1 DEF CountType
  <1>r. /\ counts' \in CountType /\ counts'.logged = a /\ counts'.emitted = b /\ counts'.freed = d
        /\ counts'.escaped = e /\ counts'.missed = m
    BY <1>1, <1>5 DEF CountType
  <1>s. counts'.emitted + counts'.escaped = counts'.freed BY <1>8, <1>r
  <1>t. Cardinality(Tickets) \in Nat /\ Cardinality(Tickets') \in Nat /\ Cardinality(Nested) \in Nat
        /\ Cardinality(Nested') \in Nat
    BY <1>1, TicketMove, NestedMove
  <1>u. counts'.freed + Cardinality(Tickets') + Cardinality(Nested') + counts'.missed + counts.logged
         = counts.freed + Cardinality(Tickets) + Cardinality(Nested) + counts.missed + counts'.logged
    BY <1>2, <1>3, <1>4, <1>6, <1>8, <1>d, <1>r, <1>t
  <1> QED BY <1>1, <1>r, <1>s, <1>t, <1>u, CountsMove

LEMMA WrittenStep == ASSUME OutputInv, NEW t \in Threads, Written(t) PROVE OutputInv'
  <1> DEFINE l == [loc[t] EXCEPT !.at = @ + 1, !.ticket = FALSE, !.writes = <<>>]
  <1>1. TypeInv /\ LocalInv /\ CountInv /\ pc[t] = "write" BY DEF OutputInv, Written
  <1>2. /\ counts' = [counts EXCEPT !.emitted = @ + Ticket(t), !.freed = @ + Ticket(t)]
        /\ counts \in CountType /\ loc[t] \in LocalType /\ UNCHANGED <<slot, lock, conf, pipe, ops, hist>>
    BY <1>1 DEF Written, TypeInv
  <1>3. Move(t, "emit", l) BY <1>1 DEF Written, Move, TypeInv
  <1>4. l \in LocalType /\ l.ticket = FALSE /\ l.writes = <<>> /\ l.at = loc[t].at + 1 /\ loc[t].at \in Nat \ {0}
    <2>0. <<>> \in Seq(WriteType) OBVIOUS
    <2>1. PICK s \in Seq(WriteType) : s = <<>> BY <2>0
    <2>2. loc[t].at \in Nat \ {0} BY <1>2 DEF LocalType
    <2>3. PICK n \in Nat \ {0} : n = loc[t].at + 1 BY <2>2
    <2>4. l = [loc[t] EXCEPT !.at = n, !.ticket = FALSE, !.writes = s] BY <2>1, <2>3
    <2> HIDE DEF l
    <2>5. l \in LocalType /\ l.ticket = FALSE /\ l.writes = s /\ l.at = n
      <3>1. loc[t] \in LocalType BY <1>2
      <3> QED BY <2>4, <3>1 DEF LocalType
    <2> QED BY <2>1, <2>2, <2>3, <2>5
  <1> HIDE DEF l
  <1>5. l.at > 1 BY <1>4
  <1>6. LocalOk("emit", l) BY <1>4, <1>5 DEF LocalOk, OnRecord, InWrite
  <1>7. counts' \in CountType /\ CountInv'
    <2>1. counts.emitted \in Nat /\ counts.escaped \in Nat /\ counts.freed \in Nat BY <1>2 DEF CountType
    <2>2. Ticket(t) \in Nat BY DEF Ticket
    <2>3. PICK b \in Nat, e \in Nat, d \in Nat :
            b = counts.emitted + Ticket(t) /\ e = counts.escaped /\ d = counts.freed + Ticket(t)
      BY <2>1, <2>2
    <2>4. counts' = [counts EXCEPT !.emitted = b, !.escaped = e, !.freed = d] BY <1>2, <2>3 DEF CountType
    <2>5. b + e = counts.emitted + counts.escaped + Ticket(t) BY <2>1, <2>2, <2>3
    <2>6. ~l.ticket BY <1>4
    <2> QED BY <1>1, <1>3, <2>3, <2>4, <2>5, <2>6, FreeMove
  <1> QED BY <1>1, <1>2, <1>3, <1>4, <1>6, <1>7, RecordMove

LEMMA WriteEscapesStep == ASSUME OutputInv, NEW t \in Threads, WriteEscapes(t) PROVE OutputInv'
  <1>1. TypeInv /\ LocalInv /\ CountInv /\ pc[t] = "write" BY DEF OutputInv, WriteEscapes
  <1>2. /\ counts' = [counts EXCEPT !.escaped = @ + Ticket(t), !.freed = @ + Ticket(t)]
        /\ counts \in CountType /\ UNCHANGED <<slot, lock, conf, pipe, ops, hist>>
    BY <1>1 DEF WriteEscapes, TypeInv
  <1>3. Move(t, "idle", NoLocals) BY DEF WriteEscapes, Return, Move
  <1>4. counts' \in CountType /\ CountInv'
    <2>1. counts.emitted \in Nat /\ counts.escaped \in Nat /\ counts.freed \in Nat BY <1>2 DEF CountType
    <2>2. Ticket(t) \in Nat BY DEF Ticket
    <2>3. PICK b \in Nat, e \in Nat, d \in Nat :
            b = counts.emitted /\ e = counts.escaped + Ticket(t) /\ d = counts.freed + Ticket(t)
      BY <2>1, <2>2
    <2>4. counts' = [counts EXCEPT !.emitted = b, !.escaped = e, !.freed = d] BY <1>2, <2>3 DEF CountType
    <2>5. b + e = counts.emitted + counts.escaped + Ticket(t) BY <2>1, <2>2, <2>3
    <2> QED BY <1>1, <1>3, <2>3, <2>4, <2>5, NoLocalsType, FreeMove
  <1> QED BY <1>1, <1>2, <1>3, <1>4, NoLocalsType, RecordMove

LEMMA LoggedStep == ASSUME OutputInv, NEW t \in Threads, Logged(t) PROVE OutputInv'
  <1> DEFINE one == Ticket(t)
  <1>1. TypeInv /\ LocalInv /\ CountInv /\ pc[t] = "emit" BY DEF OutputInv, Logged
  <1>2. /\ counts' = [counts EXCEPT !.missed = @ + one]
        /\ counts \in CountType /\ UNCHANGED <<slot, lock, conf, pipe, ops, hist>>
    BY <1>1 DEF Logged, TypeInv
  <1>3. Move(t, "idle", NoLocals) BY DEF Logged, Return, Move
  <1>4. one \in {0, 1} BY DEF Ticket
  <1>5. counts' \in CountType /\ CountInv'
    <2>1. /\ Cardinality(Tickets') + one = Cardinality(Tickets) /\ Cardinality(Tickets') \in Nat
          /\ Cardinality(Nested') = Cardinality(Nested) /\ Cardinality(Nested) \in Nat
          /\ Cardinality(Tickets) \in Nat
      BY <1>1, <1>3, NoLocalsType, TicketMove, NestedMove
    <2> HIDE DEF one
    <2>2. PICK a \in Nat, b \in Nat, d \in Nat, e \in Nat, m \in Nat :
            /\ a = counts.logged /\ b = counts.emitted /\ d = counts.freed /\ e = counts.escaped
            /\ m = counts.missed + one
      BY <1>2, <1>4 DEF CountType
    <2>3. counts' = [counts EXCEPT !.logged = a, !.emitted = b, !.freed = d, !.escaped = e, !.missed = m]
      BY <1>2, <2>2 DEF CountType
    <2>4. b + e = d BY <1>1, <2>2 DEF CountInv
    <2>5. counts.logged \in Nat /\ counts.freed \in Nat /\ counts.missed \in Nat BY <1>2 DEF CountType
    <2>r. /\ counts' \in CountType /\ counts'.logged = a /\ counts'.emitted = b /\ counts'.freed = d
          /\ counts'.escaped = e /\ counts'.missed = m
      BY <1>2, <2>3 DEF CountType
    <2>s. counts'.emitted + counts'.escaped = counts'.freed BY <2>4, <2>r
    <2>t. Cardinality(Tickets) \in Nat /\ Cardinality(Tickets') \in Nat /\ Cardinality(Nested) \in Nat
          /\ Cardinality(Nested') \in Nat
      BY <1>1, <1>3, TicketMove, NestedMove
    <2>u. counts'.freed + Cardinality(Tickets') + Cardinality(Nested') + counts'.missed + counts.logged
           = counts.freed + Cardinality(Tickets) + Cardinality(Nested) + counts.missed + counts'.logged
      BY <1>4, <2>1, <2>2, <2>5, <2>r, <2>t
    <2> QED BY <1>1, <1>2, <2>r, <2>s, <2>t, <2>u, CountsMove
  <1> QED BY <1>1, <1>2, <1>3, <1>5, NoLocalsType, RecordMove
-----------------------------------------------------------------------------
(* Operations begin                                                        *)

\* Locals of an operation.
LEMMA OperationLocals ==
  ASSUME NEW step \in Steps \ {"idle", "emit", "write", "nested"}, NEW l \in LocalType, ~l.ticket, l.writes = <<>>
  PROVE  LocalOk(step, l)
  BY DEF LocalOk, OnRecord, InWrite, Steps

LEMMA BeginFacts ==
  ASSUME OutputInv, NEW t \in Threads, NEW step, Begin(t, step)
  PROVE  /\ pc[t] = "idle" /\ loc[t] = NoLocals /\ loc[t] \in LocalType /\ ops' = ops + 1 /\ ops' \in 0 .. MaxOps
         /\ pc' = [pc EXCEPT ![t] = step]
  <1>1. pc[t] = "idle" /\ ops < MaxOps /\ ops' = ops + 1 /\ pc' = [pc EXCEPT ![t] = step] BY DEF Begin
  <1>2. ops \in 0 .. MaxOps /\ MaxOps \in Nat BY OutputBounds DEF OutputInv, TypeInv
  <1>3. ops' \in 0 .. MaxOps BY <1>1, <1>2
  <1>4. TypeInv /\ LocalInv BY DEF OutputInv
  <1> QED BY <1>1, <1>3, <1>4, NoRecord, NoLocalsType

LEMMA SetOutputStep == ASSUME OutputInv, NEW t \in Threads, NEW w \in Targets, SetOutput(t, w) PROVE OutputInv'
  <1>1. TypeInv /\ LockInv /\ LocalInv /\ CountInv /\ SpareInv /\ OneInv /\ ReleaseInv /\ SettleInv
    BY DEF OutputInv
  <1>2. /\ pc[t] = "idle" /\ loc[t] = NoLocals /\ loc[t] \in LocalType /\ ops' = ops + 1 /\ ops' \in 0 .. MaxOps
        /\ pc' = [pc EXCEPT ![t] = "reapply"]
    BY BeginFacts DEF SetOutput
  <1>3. /\ slot' = w /\ released' = released \ {w} /\ lock' = lock /\ configured' = configured /\ active' = active
        /\ root' = root /\ child' = child /\ colour' = colour /\ chain' = chain /\ loc' = loc
        /\ counts' = counts /\ raced' = raced /\ torn' = torn
    BY DEF SetOutput, conf, pipe
  <1>4. Move(t, "reapply", loc[t]) BY <1>1, <1>2, <1>3 DEF Move, TypeInv
  <1>5. /\ "reapply" \in Steps \ {"idle", "emit", "write", "nested"} /\ "reapply" \notin InPass /\ pc[t] \notin InPass
        /\ Owes("reapply", loc[t])
    BY <1>2 DEF Steps, InPass, Owes
  <1>6. LocalOk("reapply", loc[t]) BY <1>2, <1>5, NoLocalsType, OperationLocals
  <1>7. pc' \in [Threads -> Steps] /\ loc' \in [Threads -> LocalType] /\ LocalInv'
    BY <1>1, <1>2, <1>4, <1>5, <1>6, LocalMove
  <1>8. released' \subseteq released /\ released' \subseteq Targets /\ slot' \notin released' BY <1>1, <1>3 DEF TypeInv
  <1>9. TypeInv' BY <1>1, <1>2, <1>3, <1>7, <1>8 DEF TypeInv
  <1>10. LockInv' BY <1>1, <1>3, <1>4, <1>5, LockMove
  <1>11. CountInv' BY <1>1, <1>2, <1>3, <1>4, CountMove
  <1>12. SpareInv' BY <1>1, <1>2, <1>3, <1>4, SpareMove
  <1>13. OneInv' BY <1>1, <1>2, <1>3, <1>4, OneMove
  <1>14. ReleaseInv' BY <1>1, <1>2, <1>3, <1>4, <1>8, ReleaseMove
  <1>15. SettleInv' BY <1>1, <1>4, <1>5, SettleOwes
  <1> QED BY <1>7, <1>9, <1>10, <1>11, <1>12, <1>13, <1>14, <1>15 DEF OutputInv

LEMMA ConfigureStep ==
  ASSUME OutputInv, NEW t \in Threads, NEW force \in BOOLEAN, NEW claim \in BOOLEAN, Configure(t, force, claim)
  PROVE  OutputInv'
  <1> DEFINE l == [loc[t] EXCEPT !.force = force, !.claim = claim]
  <1>1. TypeInv /\ LockInv /\ LocalInv /\ CountInv /\ SpareInv /\ OneInv /\ ReleaseInv /\ SettleInv
    BY DEF OutputInv
  <1>2. /\ pc[t] = "idle" /\ loc[t] = NoLocals /\ loc[t] \in LocalType /\ ops' = ops + 1 /\ ops' \in 0 .. MaxOps
        /\ pc' = [pc EXCEPT ![t] = "configure"]
    BY BeginFacts DEF Configure
  <1>3. /\ slot' = slot /\ released' = released /\ lock' = lock /\ configured' = configured /\ active' = active
        /\ root' = root /\ child' = child /\ colour' = colour /\ chain' = chain
        /\ counts' = counts /\ raced' = raced /\ torn' = torn
    BY DEF Configure, conf, pipe, hist
  <1>4. Move(t, "configure", l) BY <1>1, <1>2 DEF Move, TypeInv, Configure
  <1>5. /\ "configure" \in Steps \ {"idle", "emit", "write", "nested"} /\ "configure" \notin InPass /\ pc[t] \notin InPass
        /\ ~Owes(pc[t], loc[t])
    BY <1>2 DEF Steps, InPass, Owes
  <1>6. l \in LocalType /\ l.ticket = loc[t].ticket /\ l.writes = loc[t].writes BY <1>2 DEF LocalType
  <1>7. ~l.ticket /\ l.writes = <<>> BY <1>2, <1>6, NoLocalsType
  <1> HIDE DEF l
  <1>8. LocalOk("configure", l) BY <1>5, <1>6, <1>7, OperationLocals
  <1>9. pc' \in [Threads -> Steps] /\ loc' \in [Threads -> LocalType] /\ LocalInv'
    BY <1>1, <1>4, <1>5, <1>6, <1>8, LocalMove
  <1>10. released' \subseteq released /\ slot' \notin released' BY <1>1, <1>3 DEF ReleaseInv
  <1>11. TypeInv' BY <1>1, <1>2, <1>3, <1>9 DEF TypeInv
  <1>12. LockInv' BY <1>1, <1>3, <1>4, <1>5, LockMove
  <1>13. CountInv' BY <1>1, <1>2, <1>3, <1>4, <1>6, CountMove
  <1>14. SpareInv' BY <1>1, <1>2, <1>3, <1>4, SpareMove
  <1>15. OneInv' BY <1>1, <1>2, <1>3, <1>4, OneMove
  <1>16. ReleaseInv' BY <1>1, <1>2, <1>3, <1>4, <1>10, ReleaseMove
  <1>17. SettleInv' BY <1>1, <1>3, <1>4, <1>5, SettleMove
  <1> QED BY <1>9, <1>11, <1>12, <1>13, <1>14, <1>15, <1>16, <1>17 DEF OutputInv

LEMMA ReleaseStep == ASSUME OutputInv, NEW t \in Threads, Release(t) PROVE OutputInv'
  <1> DEFINE l == [loc[t] EXCEPT !.writer = slot]
             step == IF slot = Stderr THEN "teardown" ELSE "detach"
  <1>1. TypeInv /\ LockInv /\ LocalInv /\ CountInv /\ SpareInv /\ OneInv /\ ReleaseInv /\ SettleInv
    BY DEF OutputInv
  <1>2. /\ pc[t] = "idle" /\ loc[t] = NoLocals /\ loc[t] \in LocalType /\ ops' = ops + 1 /\ ops' \in 0 .. MaxOps
        /\ pc' = [pc EXCEPT ![t] = step]
    BY BeginFacts DEF Release
  <1>3. /\ slot' = Stderr /\ released' = (released \cup {slot}) \ {Stderr} /\ lock' = lock
        /\ configured' = configured /\ active' = active /\ root' = root /\ child' = child /\ colour' = colour
        /\ chain' = chain /\ counts' = counts /\ torn' = torn
        /\ raced' = (raced \/ lock # "free" \/ \E u \in Threads : pc[u] = "configure")
    BY DEF Release, conf, pipe
  <1>4. Move(t, step, l) BY <1>1, <1>2 DEF Move, TypeInv, Release
  <1>5. /\ step \in Steps \ {"idle", "emit", "write", "nested"} /\ step \notin InPass /\ pc[t] \notin InPass
        /\ step # "install" /\ (slot # Stderr => step = "detach")
    BY <1>2 DEF Steps, InPass
  <1>s. Owes(step, l) BY DEF Owes
  <1>6. slot \in Targets BY <1>1 DEF TypeInv
  <1>7. l \in LocalType /\ l.ticket = loc[t].ticket /\ l.writes = loc[t].writes BY <1>2, <1>6 DEF LocalType
  <1>8. ~l.ticket /\ l.writes = <<>> BY <1>2, <1>7, NoLocalsType
  <1> HIDE DEF l, step
  <1>9. LocalOk(step, l) BY <1>5, <1>7, <1>8, OperationLocals
  <1>10. pc' \in [Threads -> Steps] /\ loc' \in [Threads -> LocalType] /\ LocalInv'
    BY <1>1, <1>4, <1>5, <1>7, <1>9, LocalMove
  <1>11. raced' \in BOOLEAN /\ released' \subseteq Targets /\ Stderr \in Targets /\ (~raced' => ~raced /\ lock = "free")
    BY <1>1, <1>3, <1>6 DEF TypeInv, Targets
  <1>12. TypeInv' BY <1>1, <1>2, <1>3, <1>10, <1>11 DEF TypeInv
  <1>13. LockInv' BY <1>1, <1>3, <1>4, <1>5, LockMove
  <1>14. CountInv' BY <1>1, <1>2, <1>3, <1>4, <1>5, <1>7, CountMove
  <1>15. SpareInv' BY <1>1, <1>2, <1>3, <1>4, SpareMove
  <1>16. OneInv' BY <1>1, <1>2, <1>3, <1>4, OneMove
  <1>17. ReleaseInv'
    <2>1. slot' \notin released' /\ Stderr \notin released' BY <1>3
    <2>2. ASSUME ~raced', NEW u \in Threads PROVE pc'[u] # "install"
      <3>1. lock' = "free" /\ u # lock' BY <1>3, <1>11, <2>2, OutputBounds
      <3> QED BY <1>13, <3>1 DEF LockInv, InPass
    <2>3. ASSUME ~raced', \A u \in Threads : pc'[u] # "detach", NEW f \in Fanouts, Sole(root', f)
          PROVE  child'[f].target \notin released'
      <3>1. pc'[t] = step BY <1>1, <1>4, Moved
      <3>2. slot = Stderr BY <1>5, <2>3, <3>1
      <3>3. released' \subseteq released BY <1>3, <3>2
      <3>4. \A u \in Threads : pc[u] # "detach" BY <1>1, <1>2, <1>4, <2>3, Moved
      <3>5. child[f].target \notin released BY <1>1, <1>3, <1>11, <2>3, <3>4 DEF ReleaseInv
      <3> QED BY <1>3, <3>3, <3>5
    <2> QED BY <2>1, <2>2, <2>3 DEF ReleaseInv
  <1>18. SettleInv' BY <1>1, <1>4, <1>s, SettleOwes
  <1> QED BY <1>10, <1>12, <1>13, <1>14, <1>15, <1>16, <1>17, <1>18 DEF OutputInv
-----------------------------------------------------------------------------
(* A configuration pass                                                    *)

\* Who has the lock is in a pass, and nobody else is.
LEMMA OnePass ==
  ASSUME LockInv, NEW t \in Threads
  PROVE  /\ pc[t] \in InPass => lock = t /\ \A u \in Threads : u # t => pc[u] \notin InPass
         /\ lock = "free" => pc[t] \notin InPass
  BY OutputBounds DEF LockInv

LEMMA ReapplyStep == ASSUME OutputInv, NEW t \in Threads, Reapply(t) PROVE OutputInv'
  <1>1. TypeInv /\ LockInv /\ LocalInv /\ CountInv /\ SpareInv /\ OneInv /\ ReleaseInv /\ SettleInv
    BY DEF OutputInv
  <1>2. pc[t] = "reapply" /\ lock = "free" BY DEF Reapply, Waits
  <1>3. /\ slot' = slot /\ released' = released /\ lock' = lock /\ configured' = configured /\ active' = active
        /\ root' = root /\ child' = child /\ colour' = colour /\ chain' = chain /\ ops' = ops
        /\ counts' = counts /\ raced' = raced /\ torn' = torn
    BY DEF Reapply, conf, pipe, hist
  <1>4. loc[t] \in LocalType /\ ~loc[t].ticket /\ loc[t].writes = <<>> BY <1>1, <1>2, NoRecord DEF OnRecord, InWrite
  <1>5. PICK step \in Steps, l \in LocalType :
          /\ Move(t, step, l) /\ LocalOk(step, l) /\ ~l.ticket
          /\ \/ step = "configure" /\ l.force
             \/ step = "idle" /\ ~(configured /\ active)
    <2>1. CASE configured /\ active
      <3> DEFINE l == [loc[t] EXCEPT !.force = TRUE]
      <3>1. Move(t, "configure", l) BY <1>1, <2>1 DEF Reapply, Move, TypeInv
      <3>2. l \in LocalType /\ ~l.ticket /\ l.writes = <<>> /\ l.force BY <1>4 DEF LocalType
      <3>3. "configure" \in Steps \ {"idle", "emit", "write", "nested"} BY DEF Steps
      <3> HIDE DEF l
      <3>4. LocalOk("configure", l) BY <3>2, <3>3, OperationLocals
      <3> QED BY <3>1, <3>2, <3>3, <3>4
    <2>2. CASE ~(configured /\ active)
      <3>1. Move(t, "idle", NoLocals) BY <2>2 DEF Reapply, Return, Move
      <3> QED BY <2>2, <3>1, NoLocalsType
    <2> QED BY <2>1, <2>2
  <1>6. step \notin InPass /\ pc[t] \notin InPass /\ pc[t] \in MayAttach /\ step # "install" /\ pc[t] # "detach"
    BY <1>2, <1>5 DEF InPass, MayAttach
  <1>7. pc' \in [Threads -> Steps] /\ loc' \in [Threads -> LocalType] /\ LocalInv'
    BY <1>1, <1>5, LocalMove
  <1>8. released' \subseteq released /\ slot' \notin released' BY <1>1, <1>3 DEF ReleaseInv
  <1>9. TypeInv' BY <1>1, <1>3, <1>7 DEF TypeInv
  <1>10. LockInv' BY <1>1, <1>3, <1>5, <1>6, LockMove
  <1>11. CountInv' BY <1>1, <1>2, <1>3, <1>4, <1>5, CountMove
  <1>12. SpareInv' BY <1>1, <1>3, <1>5, <1>6, SpareMove
  <1>13. OneInv' BY <1>1, <1>2, <1>3, <1>5, OneMove
  <1>14. ReleaseInv' BY <1>1, <1>3, <1>5, <1>6, <1>8, ReleaseMove
  <1>15. SettleInv'
    <2>1. CASE step = "configure" /\ l.force
      <3>1. Owes(step, l) BY <2>1 DEF Owes
      <3> QED BY <1>1, <1>5, <3>1, SettleOwes
    <2>2. CASE ~(configured /\ active)
      <3>1. \A u \in Threads : pc'[u] \notin InPass
        <4>1. lock' = "free" BY <1>2, <1>3
        <4> QED BY <1>10, <4>1, OutputBounds DEF LockInv
      <3> QED BY <1>3, <2>2, <3>1 DEF SettleInv, InPass
    <2> QED BY <1>5, <2>1, <2>2
  <1> QED BY <1>7, <1>9, <1>10, <1>11, <1>12, <1>13, <1>14, <1>15 DEF OutputInv

LEMMA EnterPassStep == ASSUME OutputInv, NEW t \in Threads, EnterPass(t) PROVE OutputInv'
  <1>1. TypeInv /\ LockInv /\ LocalInv /\ CountInv /\ SpareInv /\ OneInv /\ ReleaseInv /\ SettleInv
    BY DEF OutputInv
  <1>2. pc[t] = "configure" /\ lock = "free" BY DEF EnterPass, Waits
  <1>3. /\ slot' = slot /\ released' = released /\ configured' = configured /\ active' = active
        /\ root' = root /\ child' = child /\ colour' = colour /\ chain' = chain /\ ops' = ops
        /\ counts' = counts /\ raced' = raced /\ torn' = torn
    BY DEF EnterPass, conf, pipe, hist
  <1>4. loc[t] \in LocalType /\ ~loc[t].ticket /\ loc[t].writes = <<>> BY <1>1, <1>2, NoRecord DEF OnRecord, InWrite
  <1>5. PICK step \in Steps, l \in LocalType :
          /\ Move(t, step, l) /\ LocalOk(step, l) /\ ~l.ticket
          /\ \/ step = "build" /\ lock' = t /\ l.dest = slot
             \/ step = "idle" /\ lock' = lock /\ ~loc[t].force
    <2>1. CASE configured /\ active /\ ~loc[t].force
      <3>1. Move(t, "idle", NoLocals) /\ lock' = lock BY <2>1 DEF EnterPass, Return, Move
      <3> QED BY <2>1, <3>1, NoLocalsType
    <2>2. CASE ~(configured /\ active /\ ~loc[t].force)
      <3> DEFINE l == [loc[t] EXCEPT !.dest = slot]
      <3>1. Move(t, "build", l) /\ lock' = t BY <1>1, <2>2 DEF EnterPass, Move, TypeInv
      <3>2. slot \in Targets BY <1>1 DEF TypeInv
      <3>3. l \in LocalType /\ ~l.ticket /\ l.writes = <<>> /\ l.dest = slot BY <1>4, <3>2 DEF LocalType
      <3>4. "build" \in Steps \ {"idle", "emit", "write", "nested"} BY DEF Steps
      <3> HIDE DEF l
      <3>5. LocalOk("build", l) BY <3>3, <3>4, OperationLocals
      <3> QED BY <3>1, <3>3, <3>4, <3>5
    <2> QED BY <2>1, <2>2
  <1>6. /\ pc[t] \notin InPass /\ pc[t] \in MayAttach /\ step # "install" /\ pc[t] # "detach"
        /\ (step = "build" => step \in InPass) /\ (step = "idle" => step \notin InPass)
    BY <1>2, <1>5 DEF InPass, MayAttach
  <1>7. pc' \in [Threads -> Steps] /\ loc' \in [Threads -> LocalType] /\ LocalInv'
    BY <1>1, <1>5, LocalMove
  <1>8. released' \subseteq released /\ slot' \notin released' BY <1>1, <1>3 DEF ReleaseInv
  <1>9. TypeInv' BY <1>1, <1>3, <1>5, <1>7 DEF TypeInv
  <1>10. LockInv' BY <1>1, <1>2, <1>5, <1>6, LockMove
  <1>11. CountInv' BY <1>1, <1>2, <1>3, <1>4, <1>5, CountMove
  <1>12. SpareInv' BY <1>1, <1>3, <1>5, <1>6, SpareMove
  <1>13. OneInv' BY <1>1, <1>2, <1>3, <1>5, OneMove
  <1>14. ReleaseInv' BY <1>1, <1>3, <1>5, <1>6, <1>8, ReleaseMove
  <1>15. SettleInv'
    <2>1. CASE step = "build" /\ lock' = t /\ l.dest = slot
      <3>1. lock' # "free" BY <2>1, OutputBounds
      <3>2. pc'[t] = "build" /\ loc'[t].dest = slot' BY <1>1, <1>3, <1>5, <2>1, Moved
      <3>3. ASSUME NEW u \in Threads, u # t PROVE pc'[u] \notin InPass
        <4>1. lock' # u BY <2>1, <3>3
        <4> QED BY <1>10, <4>1 DEF LockInv
      <3> QED BY <3>1, <3>2, <3>3 DEF SettleInv, InPass
    <2>2. CASE step = "idle" /\ lock' = lock /\ ~loc[t].force
      <3>1. ~Owes(pc[t], loc[t]) BY <1>2, <2>2 DEF Owes
      <3> QED BY <1>1, <1>3, <1>5, <1>6, <2>2, <3>1, SettleMove
    <2> QED BY <1>5, <2>1, <2>2
  <1> QED BY <1>7, <1>9, <1>10, <1>11, <1>12, <1>13, <1>14, <1>15 DEF OutputInv

LEMMA BuildStep == ASSUME OutputInv, NEW t \in Threads, Build(t) PROVE OutputInv'
  <1> DEFINE l == [loc[t] EXCEPT !.writer = slot]
  <1>1. TypeInv /\ LockInv /\ LocalInv /\ CountInv /\ SpareInv /\ OneInv /\ ReleaseInv /\ SettleInv
    BY DEF OutputInv
  <1>2. pc[t] = "build" BY DEF Build
  <1>3. /\ slot' = slot /\ released' = released /\ configured' = configured /\ active' = active /\ lock' = lock
        /\ root' = root /\ child' = child /\ colour' = colour /\ chain' = chain /\ ops' = ops
        /\ counts' = counts /\ raced' = raced /\ torn' = torn
    BY DEF Build, conf, pipe, hist
  <1>4. loc[t] \in LocalType /\ ~loc[t].ticket /\ loc[t].writes = <<>> BY <1>1, <1>2, NoRecord DEF OnRecord, InWrite
  <1>5. Move(t, "install", l) BY <1>1 DEF Build, Move, TypeInv
  <1>6. slot \in Targets BY <1>1 DEF TypeInv
  <1>7. l \in LocalType /\ ~l.ticket /\ l.writes = <<>> /\ l.writer = slot /\ l.dest = loc[t].dest
    BY <1>4, <1>6 DEF LocalType
  <1>8. /\ "install" \in Steps \ {"idle", "emit", "write", "nested"} /\ pc[t] \in InPass /\ "install" \in InPass
        /\ pc[t] \in MayAttach /\ pc[t] # "detach"
    BY <1>2 DEF Steps, InPass, MayAttach
  <1> HIDE DEF l
  <1>9. LocalOk("install", l) BY <1>7, <1>8, OperationLocals
  <1>10. pc' \in [Threads -> Steps] /\ loc' \in [Threads -> LocalType] /\ LocalInv'
    BY <1>1, <1>5, <1>7, <1>8, <1>9, LocalMove
  <1>11. released' \subseteq released /\ slot' \notin released' BY <1>1, <1>3 DEF ReleaseInv
  <1>12. TypeInv' BY <1>1, <1>3, <1>10 DEF TypeInv
  <1>13. LockInv' BY <1>1, <1>3, <1>5, <1>8, LockMove
  <1>14. CountInv' BY <1>1, <1>2, <1>3, <1>4, <1>5, <1>7, CountMove
  <1>15. SpareInv' BY <1>1, <1>3, <1>5, <1>8, SpareMove
  <1>16. OneInv' BY <1>1, <1>2, <1>3, <1>5, OneMove
  <1>17. ReleaseInv' BY <1>1, <1>3, <1>5, <1>7, <1>8, <1>11, ReleaseMove
  <1>18. SettleInv'
    <2>1. lock = t /\ \A u \in Threads : u # t => pc[u] \notin InPass BY <1>1, <1>8, OnePass
    <2>2. lock' # "free" BY <1>3, <2>1, OutputBounds
    <2>3. pc'[t] = "install" /\ loc'[t] = l /\ \A u \in Threads : u # t => pc'[u] = pc[u] /\ loc'[u] = loc[u]
      BY <1>1, <1>5, Moved
    <2>4. ASSUME \A u \in Threads : ~Owes(pc'[u], loc'[u]) PROVE loc[t].dest = slot
      <3>1. \A u \in Threads : ~Owes(pc[u], loc[u]) BY <1>2, <2>3, <2>4 DEF Owes
      <3> QED BY <1>1, <1>8, <3>1 DEF SettleInv
    <2> QED BY <1>3, <1>7, <2>1, <2>2, <2>3, <2>4 DEF SettleInv, InPass
  <1> QED BY <1>10, <1>12, <1>13, <1>14, <1>15, <1>16, <1>17, <1>18 DEF OutputInv

\* What a pass installs: a child for its writer on a fan-out handler f, and no other
\* fan-out handler can then be the only one on the root logger.
LEMMA Installed ==
  ASSUME OutputInv, NEW t \in Threads, Install(t)
  PROVE  \E f : /\ child' = [child EXCEPT ![f] = [target |-> loc[t].writer, serial |-> child[f].serial + 1]]
                /\ root' \in Seq(Handlers) /\ (~torn => AtMostOne(root'))
                /\ \A g \in Fanouts : Sole(root', g) => g = f
  <1>1. TypeInv /\ LockInv /\ SpareInv /\ OneInv /\ pc[t] = "install" BY DEF OutputInv, Install
  <1>2. root \in Seq(Handlers) BY <1>1 DEF TypeInv
  <1>3. CASE Reusable
    <2>1. child' = [child EXCEPT ![First] = [target |-> loc[t].writer, serial |-> child[First].serial + 1]] /\ root' = root
      BY <1>3 DEF Install, Children
    <2>2. \A g \in Fanouts : Sole(root', g) => g = First BY <1>2, <2>1, FirstSole
    <2>3. ~torn => AtMostOne(root') BY <1>1, <2>1 DEF OneInv
    <2> QED BY <1>2, <2>1, <2>2, <2>3
  <1>4. CASE ~Reusable
    <2>1. Unused \in Fanouts BY <1>1, UnusedExists
    <2>2. child' = [child EXCEPT ![Unused] = [target |-> loc[t].writer, serial |-> child[Unused].serial + 1]]
      BY <1>4 DEF Install, Children
    <2>3. root' = <<Unused>> \/ root' = Append(root, Unused) BY <1>4 DEF Install
    <2>4. ~torn => At(root) = {}
      <3>1. ~configured \/ At(root) = {} BY <1>4, Positions DEF Reusable
      <3>2. ASSUME NEW u \in Threads PROVE pc[u] # "render"
        <4>1. u # t => pc[u] \notin InPass BY <1>1, OnePass DEF InPass
        <4> QED BY <1>1, <4>1 DEF InPass
      <3> QED BY <1>1, <3>1, <3>2 DEF OneInv
    <2> DEFINE q == root'
               f == Unused
    <2>5. f \in Fanouts /\ (q = <<f>> \/ q = Append(root, f)) BY <2>1, <2>3
    <2> HIDE DEF q, f
    <2>6. /\ q \in Seq(Handlers) /\ \A g : Sole(q, g) => g = f
          /\ q = <<f>> \/ At(root) = {} => AtMostOne(q)
      BY <1>2, <2>5, OursAdded
    <2> QED BY <2>2, <2>4, <2>6 DEF q, f
  <1> QED BY <1>3, <1>4

LEMMA InstallStep == ASSUME OutputInv, NEW t \in Threads, Install(t) PROVE OutputInv'
  <1>1. TypeInv /\ LockInv /\ LocalInv /\ CountInv /\ SpareInv /\ OneInv /\ ReleaseInv /\ SettleInv
    BY DEF OutputInv
  <1>2. pc[t] = "install" BY DEF Install
  <1>3. /\ slot' = slot /\ released' = released /\ configured' = configured /\ active' = active /\ lock' = lock
        /\ colour' = colour /\ chain' = chain /\ ops' = ops /\ loc' = loc
        /\ counts' = counts /\ raced' = raced /\ torn' = torn
    BY DEF Install, conf, hist
  <1>4. loc[t] \in LocalType /\ ~loc[t].ticket /\ loc[t].writes = <<>> BY <1>1, <1>2, NoRecord DEF OnRecord, InWrite
  <1>5. Move(t, "render", loc[t]) BY <1>1, <1>3 DEF Install, Move, TypeInv
  <1>6. /\ "render" \in Steps \ {"idle", "emit", "write", "nested"} /\ pc[t] \in InPass /\ "render" \in InPass
        /\ "render" \notin MayAttach /\ pc[t] \in MayAttach
    BY <1>2 DEF Steps, InPass, MayAttach
  <1>7. /\ pc'[t] = "render" /\ loc'[t] = loc[t]
        /\ \A u \in Threads : u # t => pc'[u] = pc[u] /\ loc'[u] = loc[u] /\ pc[u] \notin InPass
    BY <1>1, <1>5, <1>6, Moved, OnePass
  <1>8. PICK f : /\ child' = [child EXCEPT ![f] = [target |-> loc[t].writer, serial |-> child[f].serial + 1]]
                 /\ root' \in Seq(Handlers) /\ (~torn => AtMostOne(root'))
                 /\ \A g \in Fanouts : Sole(root', g) => g = f
    BY Installed
  <1>9. /\ child' \in [Fanouts -> ChildType]
        /\ \A g \in Fanouts : IF g = f THEN child'[g].target = loc[t].writer ELSE child'[g] = child[g]
    <2>1. loc[t].writer \in Targets BY <1>4 DEF LocalType
    <2>2. child \in [Fanouts -> ChildType] BY <1>1 DEF TypeInv
    <2>3. CASE f \in Fanouts
      <3>1. child[f].serial + 1 \in Nat BY <2>2, <2>3 DEF ChildType
      <3>2. [target |-> loc[t].writer, serial |-> child[f].serial + 1] \in ChildType BY <2>1, <3>1 DEF ChildType
      <3> QED BY <1>8, <2>2, <2>3, <3>2
    <2>4. CASE f \notin Fanouts BY <1>8, <2>2, <2>4
    <2> QED BY <2>3, <2>4
  <1>10. LocalOk("render", loc[t]) BY <1>4, <1>6, OperationLocals
  <1>11. pc' \in [Threads -> Steps] /\ loc' \in [Threads -> LocalType] /\ LocalInv'
    BY <1>1, <1>4, <1>5, <1>6, <1>10, LocalMove
  <1>12. TypeInv' BY <1>1, <1>3, <1>8, <1>9, <1>11 DEF TypeInv
  <1>13. LockInv' BY <1>1, <1>3, <1>5, <1>6, LockMove
  <1>14. CountInv' BY <1>1, <1>2, <1>3, <1>5, CountMove
  <1>15. SpareInv'
    <2>1. Attaching' = Attaching \ {t} /\ t \in Attaching /\ Attaching \subseteq Threads
      BY <1>6, <1>7 DEF Attaching
    <2>2. /\ Cardinality(Attaching) \in Nat /\ Cardinality(Attaching') \in Nat
          /\ Cardinality(Attaching') = Cardinality(Attaching) - 1
      <3>1. IsFiniteSet(Attaching) /\ Cardinality(Attaching) \in Nat BY <2>1, SomeThreads
      <3>2. Attaching' \subseteq Threads BY <2>1
      <3>3. Cardinality(Attaching') \in Nat BY <3>2, SomeThreads
      <3> QED BY <2>1, <3>1, <3>3, FS_RemoveElement
    <2>3. IsFiniteSet(Used) /\ Cardinality(Used) \in Nat BY UsedFinite
    <2>4. /\ IsFiniteSet(Used \cup {f})
          /\ Cardinality(Used \cup {f}) = IF f \in Used THEN Cardinality(Used) ELSE Cardinality(Used) + 1
      BY <2>3, FS_AddElement
    <2>5. Used' \subseteq Used \cup {f} BY <1>9 DEF Used
    <2>6. Cardinality(Used') <= Cardinality(Used \cup {f}) /\ Cardinality(Used') \in Nat
      BY <2>4, <2>5, FS_Subset, FS_CardinalityType
    <2>7. Cardinality(Used') <= Cardinality(Used) + 1
      <3>1. Cardinality(Used \cup {f}) <= Cardinality(Used) + 1 /\ Cardinality(Used \cup {f}) \in Nat BY <2>3, <2>4
      <3> QED BY <2>3, <2>6, <3>1
    <2>8. Cardinality(Used) + Cardinality(Attaching) <= ops /\ ops \in Nat BY <1>1, OutputBounds DEF SpareInv, TypeInv
    <2>9. Cardinality(Used') + Cardinality(Attaching') <= ops BY <2>2, <2>3, <2>6, <2>7, <2>8
    <2> QED BY <1>3, <2>9 DEF SpareInv
  <1>16. OneInv' BY <1>3, <1>7, <1>8 DEF OneInv
  <1>17. ReleaseInv'
    <2>1. slot' \notin released' /\ Stderr \notin released' BY <1>1, <1>3 DEF ReleaseInv
    <2>2. ASSUME NEW u \in Threads PROVE pc'[u] # "install"
      <3>1. CASE u = t BY <1>7, <3>1
      <3>2. CASE u # t BY <1>7, <3>2 DEF InPass
      <3> QED BY <3>1, <3>2
    <2>3. ASSUME ~raced', NEW g \in Fanouts, Sole(root', g) PROVE child'[g].target \notin released'
      <3>1. child'[g].target = loc[t].writer BY <1>8, <1>9, <2>3
      <3>2. loc[t].writer \notin released BY <1>1, <1>2, <1>3, <2>3 DEF ReleaseInv
      <3> QED BY <1>3, <3>1, <3>2
    <2> QED BY <2>1, <2>2, <2>3 DEF ReleaseInv
  <1>18. SettleInv'
    <2>1. lock' # "free"
      <3>1. lock = t BY <1>1, <1>6, OnePass
      <3> QED BY <1>3, <3>1, OutputBounds
    <2>2. ASSUME \A u \in Threads : ~Owes(pc'[u], loc'[u])
          PROVE  /\ loc[t].dest = slot
                 /\ \A g \in Fanouts : Sole(root', g) => child'[g].target = slot
      <3>1. \A u \in Threads : ~Owes(pc[u], loc[u]) BY <1>2, <1>7, <2>2 DEF Owes
      <3>2. loc[t].dest = slot /\ loc[t].writer = slot BY <1>1, <1>2, <1>6, <3>1 DEF SettleInv
      <3> QED BY <1>8, <1>9, <3>2
    <2> QED BY <1>3, <1>7, <2>1, <2>2 DEF SettleInv, InPass
  <1> QED BY <1>11, <1>12, <1>13, <1>14, <1>15, <1>16, <1>17, <1>18 DEF OutputInv

\* The pass ends, well or in the emergency fallback.
LEMMA PassEnds ==
  ASSUME OutputInv, NEW t \in Threads, pc[t] \in InPass, lock' = "free", Return(t),
         configured' = TRUE, active' \in BOOLEAN, chain' \in BOOLEAN, colour' \in Targets,
         active' => pc[t] = "render" /\ colour' = loc[t].dest,
         UNCHANGED <<slot, root, child, ops, counts, hist>>
  PROVE  OutputInv'
  <1>1. TypeInv /\ LockInv /\ LocalInv /\ CountInv /\ SpareInv /\ OneInv /\ ReleaseInv /\ SettleInv
    BY DEF OutputInv
  <1>2. /\ slot' = slot /\ released' = released /\ root' = root /\ child' = child /\ ops' = ops
        /\ counts' = counts /\ raced' = raced /\ torn' = torn
    BY DEF hist
  <1>3. Move(t, "idle", NoLocals) BY DEF Return, Move
  <1>4. /\ "idle" \notin InPass /\ "idle" \notin MayAttach /\ "idle" # "install" /\ pc[t] # "detach"
        /\ pc[t] \notin OnRecord /\ pc[t] # "nested"
    BY DEF InPass, MayAttach, OnRecord, InWrite
  <1>5. ~loc[t].ticket BY <1>1, <1>4, NoRecord
  <1>6. lock = t BY <1>1, OnePass
  <1>7. pc' \in [Threads -> Steps] /\ loc' \in [Threads -> LocalType] /\ LocalInv'
    BY <1>1, <1>3, NoLocalsType, LocalMove
  <1>8. released' \subseteq released /\ slot' \notin released' BY <1>1, <1>2 DEF ReleaseInv
  <1>9. TypeInv' BY <1>1, <1>2, <1>7 DEF TypeInv
  <1>10. LockInv' BY <1>1, <1>3, <1>4, <1>6, LockMove
  <1>11. CountInv' BY <1>1, <1>2, <1>3, <1>4, <1>5, NoLocalsType, CountMove
  <1>12. SpareInv' BY <1>1, <1>2, <1>3, <1>4, SpareMove
  <1>13. OneInv' BY <1>1, <1>2, <1>3, OneMove
  <1>14. ReleaseInv' BY <1>1, <1>2, <1>3, <1>4, <1>8, ReleaseMove
  <1>15. SettleInv'
    <2>1. ASSUME NEW u \in Threads PROVE pc'[u] \notin InPass
      <3>1. lock' # u BY OutputBounds
      <3> QED BY <1>10, <3>1 DEF LockInv
    <2>2. ASSUME active', \A u \in Threads : ~Owes(pc'[u], loc'[u]), NEW f \in Fanouts, Sole(root', f)
          PROVE  child'[f].target = slot' /\ colour' = slot'
      <3>1. pc[t] = "render" /\ colour' = loc[t].dest BY <2>2
      <3>2. \A u \in Threads : u # t => pc'[u] = pc[u] /\ loc'[u] = loc[u] BY <1>1, <1>3, Moved
      <3>3. \A u \in Threads : ~Owes(pc[u], loc[u]) BY <2>2, <3>1, <3>2 DEF Owes
      <3>4. loc[t].dest = slot /\ child[f].target = slot BY <1>1, <1>2, <2>2, <3>1, <3>3 DEF SettleInv
      <3> QED BY <1>2, <3>1, <3>4
    <2> QED BY <2>1, <2>2 DEF SettleInv, InPass
  <1> QED BY <1>7, <1>9, <1>10, <1>11, <1>12, <1>13, <1>14, <1>15 DEF OutputInv

LEMMA RenderStep == ASSUME OutputInv, NEW t \in Threads, Render(t) PROVE OutputInv'
  <1>1. pc[t] \in InPass /\ pc[t] = "render" BY DEF Render, InPass
  <1>2. loc[t].dest \in Targets BY DEF OutputInv, TypeInv, LocalType
  <1> QED BY <1>1, <1>2, PassEnds DEF Render

LEMMA EmergencyStep == ASSUME OutputInv, NEW t \in Threads, Emergency(t) PROVE OutputInv'
  <1>1. pc[t] \in InPass BY DEF Emergency, InPass
  <1>2. colour' \in Targets BY DEF OutputInv, TypeInv, Emergency
  <1> QED BY <1>1, <1>2, PassEnds DEF Emergency
-----------------------------------------------------------------------------
(* Shutdown                                                                *)

LEMMA DetachStep == ASSUME OutputInv, NEW t \in Threads, Detach(t) PROVE OutputInv'
  <1>1. TypeInv /\ LockInv /\ LocalInv /\ CountInv /\ SpareInv /\ OneInv /\ ReleaseInv /\ SettleInv
    BY DEF OutputInv
  <1>2. pc[t] = "detach" BY DEF Detach
  <1>3. /\ slot' = slot /\ released' = released /\ configured' = configured /\ active' = active /\ lock' = lock
        /\ root' = root /\ colour' = colour /\ chain' = chain /\ ops' = ops /\ loc' = loc
        /\ counts' = counts /\ raced' = raced /\ torn' = torn
    BY DEF Detach, conf, hist
  <1>4. loc[t] \in LocalType /\ ~loc[t].ticket /\ loc[t].writes = <<>> BY <1>1, <1>2, NoRecord DEF OnRecord, InWrite
  <1>5. Move(t, "teardown", loc[t]) BY <1>1, <1>3 DEF Detach, Move, TypeInv
  <1>6. /\ "teardown" \in Steps \ {"idle", "emit", "write", "nested"} /\ pc[t] \notin InPass /\ "teardown" \notin InPass
        /\ "teardown" \notin MayAttach /\ Owes("teardown", loc[t])
    BY <1>2 DEF Steps, InPass, MayAttach, Owes
  <1>7. root \in Seq(Handlers) /\ child \in [Fanouts -> ChildType] /\ Stderr \in Targets
    BY <1>1 DEF TypeInv, Targets
  <1>8. /\ child' \in [Fanouts -> ChildType]
        /\ \A g \in Fanouts : child'[g].serial = child[g].serial
        /\ \A g \in Fanouts : Sole(root, g) => child'[g].target = Stderr
    <2>1. CASE OursAt = {}
      <3>1. child' = child BY <2>1 DEF Detach
      <3>2. \A g : ~Sole(root, g) BY <2>1, Positions DEF Sole
      <3> QED BY <1>7, <3>1, <3>2
    <2>2. CASE OursAt # {}
      <3> DEFINE f == First
      <3>1. child' = [child EXCEPT ![f].target = Stderr] BY <2>2 DEF Detach
      <3>2. \A g : Sole(root, g) => g = f BY <1>7, FirstSole
      <3> HIDE DEF f
      <3>3. CASE f \in Fanouts
        <4>1. child[f] \in ChildType BY <1>7, <3>3
        <4>2. PICK c \in ChildType : c = [child[f] EXCEPT !.target = Stderr] BY <1>7, <4>1 DEF ChildType
        <4>3. c.target = Stderr /\ c.serial = child[f].serial BY <4>1, <4>2 DEF ChildType
        <4>4. child' = [child EXCEPT ![f] = c] BY <3>1, <4>2
        <4>5. child' \in [Fanouts -> ChildType] /\ \A g \in Fanouts : child'[g] = IF g = f THEN c ELSE child[g]
          BY <1>7, <3>3, <4>4
        <4> QED BY <3>2, <4>3, <4>5
      <3>4. CASE f \notin Fanouts
        <4>1. child' = child BY <1>7, <3>1, <3>4
        <4> QED BY <1>7, <3>2, <3>4, <4>1
      <3> QED BY <3>3, <3>4
    <2> QED BY <2>1, <2>2
  <1>9. LocalOk("teardown", loc[t]) BY <1>4, <1>6, OperationLocals
  <1>10. pc' \in [Threads -> Steps] /\ loc' \in [Threads -> LocalType] /\ LocalInv'
    BY <1>1, <1>4, <1>5, <1>6, <1>9, LocalMove
  <1>11. TypeInv' BY <1>1, <1>3, <1>8, <1>10 DEF TypeInv
  <1>12. LockInv' BY <1>1, <1>3, <1>5, <1>6, LockMove
  <1>13. CountInv' BY <1>1, <1>2, <1>3, <1>5, CountMove
  <1>14. SpareInv' BY <1>1, <1>3, <1>5, <1>6, <1>8, SpareMove
  <1>15. OneInv' BY <1>1, <1>2, <1>3, <1>5, OneMove
  <1>16. ReleaseInv'
    <2>1. slot' \notin released' /\ Stderr \notin released' BY <1>1, <1>3 DEF ReleaseInv
    <2>2. pc'[t] = "teardown" /\ \A u \in Threads : u # t => pc'[u] = pc[u] /\ loc'[u] = loc[u]
      BY <1>1, <1>5, Moved
    <2>3. ASSUME ~raced', NEW u \in Threads, pc'[u] = "install" PROVE loc'[u].writer \notin released'
      <3>1. u # t BY <2>2, <2>3
      <3> QED BY <1>1, <1>3, <2>2, <2>3, <3>1 DEF ReleaseInv
    <2> QED BY <1>3, <1>8, <2>1, <2>3 DEF ReleaseInv
  <1>17. SettleInv' BY <1>1, <1>5, <1>6, SettleOwes
  <1> QED BY <1>10, <1>11, <1>12, <1>13, <1>14, <1>15, <1>16, <1>17 DEF OutputInv

LEMMA TeardownStep == ASSUME OutputInv, NEW t \in Threads, Teardown(t) PROVE OutputInv'
  <1>1. TypeInv /\ LockInv /\ LocalInv /\ CountInv /\ SpareInv /\ OneInv /\ ReleaseInv /\ SettleInv
    BY DEF OutputInv
  <1>2. pc[t] = "teardown" /\ lock = "free" BY DEF Teardown, Waits
  <1>3. /\ slot' = slot /\ released' = released /\ lock' = lock /\ root' = root /\ child' = child
        /\ colour' = colour /\ chain' = chain /\ ops' = ops /\ counts' = counts /\ raced' = raced
        /\ torn' = TRUE /\ configured' = FALSE /\ active' = FALSE
    BY DEF Teardown, pipe
  <1>4. Move(t, "idle", NoLocals) BY DEF Teardown, Return, Move
  <1>5. /\ "idle" \notin InPass /\ pc[t] \notin InPass /\ "idle" \notin MayAttach /\ pc[t] # "detach"
        /\ "idle" # "install" /\ pc[t] \notin OnRecord
    BY <1>2 DEF InPass, MayAttach, OnRecord, InWrite
  <1>6. ~loc[t].ticket BY <1>1, <1>5, NoRecord
  <1>7. pc' \in [Threads -> Steps] /\ loc' \in [Threads -> LocalType] /\ LocalInv'
    BY <1>1, <1>4, NoLocalsType, LocalMove
  <1>8. released' \subseteq released /\ slot' \notin released' BY <1>1, <1>3 DEF ReleaseInv
  <1>9. TypeInv' BY <1>1, <1>3, <1>7 DEF TypeInv
  <1>10. LockInv' BY <1>1, <1>3, <1>4, <1>5, LockMove
  <1>11. CountInv' BY <1>1, <1>2, <1>3, <1>4, <1>6, NoLocalsType, CountMove
  <1>12. SpareInv' BY <1>1, <1>3, <1>4, <1>5, SpareMove
  <1>13. OneInv' BY <1>3 DEF OneInv
  <1>14. ReleaseInv' BY <1>1, <1>3, <1>4, <1>5, <1>8, ReleaseMove
  <1>15. SettleInv'
    <2>1. ASSUME NEW u \in Threads PROVE pc'[u] \notin InPass
      <3>1. lock' # u BY <1>2, <1>3, OutputBounds
      <3> QED BY <1>10, <3>1 DEF LockInv
    <2> QED BY <1>3, <2>1 DEF SettleInv, InPass
  <1> QED BY <1>7, <1>9, <1>10, <1>11, <1>12, <1>13, <1>14, <1>15 DEF OutputInv
-----------------------------------------------------------------------------
(* The host, and every step                                                *)

\* The host changes the list of handlers and nothing else.
LEMMA HostStep ==
  ASSUME OutputInv, ops < MaxOps, ops' = ops + 1, root' \in Seq(Handlers),
         AtMostOne(root) => AtMostOne(root'), At(root') # {} => At(root) # {},
         \A f \in Fanouts : Sole(root', f) => Sole(root, f),
         UNCHANGED <<slot, lock, conf, child, colour, chain, pc, loc, counts, hist>>
  PROVE  OutputInv'
  <1>1. TypeInv /\ LockInv /\ LocalInv /\ CountInv /\ SpareInv /\ OneInv /\ ReleaseInv /\ SettleInv
    BY DEF OutputInv
  <1>2. /\ slot' = slot /\ lock' = lock /\ configured' = configured /\ active' = active /\ child' = child
        /\ colour' = colour /\ chain' = chain /\ pc' = pc /\ loc' = loc /\ counts' = counts
        /\ released' = released /\ raced' = raced /\ torn' = torn
    BY DEF conf, hist
  <1>3. ops \in 0 .. MaxOps /\ MaxOps \in Nat BY <1>1, OutputBounds DEF TypeInv
  <1>4. ops' \in 0 .. MaxOps BY <1>3
  <1>5. TypeInv' BY <1>1, <1>2, <1>4 DEF TypeInv
  <1>6. LockInv' /\ LocalInv' BY <1>1, <1>2 DEF LockInv, LocalInv
  <1>7. CountInv'
    <2>1. Tickets' = Tickets /\ Nested' = Nested BY <1>2 DEF Tickets, Nested
    <2> QED BY <1>1, <1>2, <2>1 DEF CountInv
  <1>8. SpareInv'
    <2>1. Used' = Used /\ Attaching' = Attaching BY <1>2 DEF Used, Attaching
    <2>2. Cardinality(Used) \in Nat /\ Cardinality(Attaching) \in Nat
      <3>1. Attaching \subseteq Threads BY DEF Attaching
      <3> QED BY <3>1, UsedFinite, SomeThreads
    <2>3. Cardinality(Used) + Cardinality(Attaching) <= ops BY <1>1 DEF SpareInv
    <2>4. Cardinality(Used) + Cardinality(Attaching) <= ops' BY <1>3, <2>2, <2>3
    <2> QED BY <2>1, <2>4 DEF SpareInv
  <1>9. OneInv' BY <1>1, <1>2 DEF OneInv
  <1>10. ReleaseInv' BY <1>1, <1>2 DEF ReleaseInv
  <1>11. SettleInv' BY <1>1, <1>2 DEF SettleInv
  <1> QED BY <1>5, <1>6, <1>7, <1>8, <1>9, <1>10, <1>11 DEF OutputInv

LEMMA HostAddsStep == ASSUME OutputInv, HostAdds PROVE OutputInv'
  <1>1. root \in Seq(Handlers) BY DEF OutputInv, TypeInv
  <1> DEFINE q == root'
  <1>2. q = Append(root, HostHandler) BY DEF HostAdds
  <1> HIDE DEF q
  <1>3. /\ q \in Seq(Handlers) /\ At(q) = At(root) /\ \A g : Sole(q, g) => Sole(root, g)
        /\ AtMostOne(root) => AtMostOne(q)
    BY <1>1, <1>2, HostAdded
  <1> QED BY <1>3, HostStep DEF HostAdds, q

LEMMA HostRemovesOursStep == ASSUME OutputInv, HostRemovesOurs PROVE OutputInv'
  <1> DEFINE q == root'
  <1>1. q = <<>> \/ q = <<HostHandler>> BY DEF HostRemovesOurs
  <1> HIDE DEF q
  <1>2. q \in Seq(Handlers) /\ At(q) = {} /\ AtMostOne(q) /\ \A g : ~Sole(q, g) BY <1>1, OursGone
  <1> QED BY <1>2, HostStep DEF HostRemovesOurs, q

LEMMA OutputInitInv == ASSUME OutputInit PROVE OutputInv
  <1>1. /\ slot = Stderr /\ lock = "free" /\ configured = FALSE /\ active = FALSE /\ colour = Stderr /\ chain = FALSE
        /\ child = [f \in Fanouts |-> [target |-> Stderr, serial |-> 0]]
        /\ pc = [t \in Threads |-> "idle"] /\ loc = [t \in Threads |-> NoLocals] /\ ops = 0
        /\ counts = [logged |-> 0, emitted |-> 0, freed |-> 0, escaped |-> 0, missed |-> 0]
        /\ released = {} /\ raced = FALSE /\ torn = FALSE
    BY DEF OutputInit
  <1>2. root \in Seq(Handlers) /\ At(root) = {} /\ AtMostOne(root) /\ \A g : ~Sole(root, g)
    <2>1. root = <<>> \/ root = <<HostHandler>> BY DEF OutputInit
    <2> QED BY <2>1, OursGone
  <1>3. \A t \in Threads : pc[t] = "idle" /\ loc[t] = NoLocals BY <1>1
  <1>4. Stderr \in Targets /\ 0 \in 0 .. MaxOps
    <2>1. MaxOps \in Nat BY OutputBounds
    <2> QED BY <2>1 DEF Targets
  <1>5. child \in [Fanouts -> ChildType] /\ \A f \in Fanouts : child[f].serial = 0
    <2>1. [target |-> Stderr, serial |-> 0] \in ChildType BY <1>4 DEF ChildType
    <2> QED BY <1>1, <2>1
  <1>6. counts \in CountType /\ counts.emitted = 0 /\ counts.freed = 0 /\ counts.missed = 0
        /\ counts.escaped = 0 /\ counts.logged = 0
    BY <1>1 DEF CountType
  <1>7. pc \in [Threads -> Steps] /\ loc \in [Threads -> LocalType] BY <1>1, NoLocalsType
  <1>8. TypeInv BY <1>1, <1>2, <1>4, <1>5, <1>6, <1>7 DEF TypeInv
  <1>9. LockInv BY <1>1, <1>3, OutputBounds DEF LockInv, InPass
  <1>10. LocalInv BY <1>3, NoLocalsType DEF LocalInv
  <1>11. CountInv
    <2>1. Tickets = {} /\ Nested = {} BY <1>3, NoLocalsType DEF Tickets, Nested
    <2>2. Cardinality(Tickets) = 0 /\ Cardinality(Nested) = 0 BY <2>1, FS_EmptySet
    <2> QED BY <1>6, <2>2 DEF CountInv
  <1>12. SpareInv
    <2>1. Used = {} /\ Attaching = {} BY <1>3, <1>5 DEF Used, Attaching, MayAttach
    <2>2. Cardinality(Used) = 0 /\ Cardinality(Attaching) = 0 BY <2>1, FS_EmptySet
    <2> QED BY <1>1, <2>2 DEF SpareInv
  <1>13. OneInv BY <1>2 DEF OneInv
  <1>14. ReleaseInv BY <1>1, <1>3 DEF ReleaseInv
  <1>15. SettleInv BY <1>1, <1>3 DEF SettleInv, InPass
  <1> QED BY <1>8, <1>9, <1>10, <1>11, <1>12, <1>13, <1>14, <1>15 DEF OutputInv

LEMMA OutputStep == ASSUME OutputInv, [OutputNext]_outputVars PROVE OutputInv'
  <1>1. CASE HostAdds BY <1>1, HostAddsStep
  <1>2. CASE HostRemovesOurs BY <1>2, HostRemovesOursStep
  <1>3. ASSUME NEW t \in Threads, NEW w \in Targets, SetOutput(t, w) PROVE OutputInv' BY <1>3, SetOutputStep
  <1>4. ASSUME NEW t \in Threads, NEW force \in BOOLEAN, NEW claim \in BOOLEAN, Configure(t, force, claim)
        PROVE  OutputInv'
    BY <1>4, ConfigureStep
  <1>5. ASSUME NEW t \in Threads, Release(t) PROVE OutputInv' BY <1>5, ReleaseStep
  <1>6. ASSUME NEW t \in Threads, Log(t) PROVE OutputInv' BY <1>6, LogStep
  <1>7. ASSUME NEW t \in Threads, Pass(t) PROVE OutputInv'
    BY <1>7, ReapplyStep, EnterPassStep, BuildStep, InstallStep, RenderStep, EmergencyStep DEF Pass
  <1>8. ASSUME NEW t \in Threads, Shutdown(t) PROVE OutputInv' BY <1>8, DetachStep, TeardownStep DEF Shutdown
  <1>9. ASSUME NEW t \in Threads, Record(t) PROVE OutputInv'
    BY <1>9, EmitStep, SkipHostStep, LoggedStep, WrittenStep, WriteEscapesStep, ReenterStep, RefuseStep DEF Record
  <1>10. CASE UNCHANGED outputVars
    <2>1. /\ slot' = slot /\ lock' = lock /\ configured' = configured /\ active' = active /\ root' = root
          /\ child' = child /\ colour' = colour /\ chain' = chain /\ pc' = pc /\ loc' = loc /\ ops' = ops
          /\ counts' = counts /\ released' = released /\ raced' = raced /\ torn' = torn
      BY <1>10 DEF outputVars
    <2>2. TypeInv' /\ LockInv' /\ LocalInv' BY <2>1 DEF OutputInv, TypeInv, LockInv, LocalInv
    <2>3. CountInv' /\ SpareInv' BY <2>1 DEF OutputInv, CountInv, SpareInv, Tickets, Nested, Used, Attaching
    <2>4. OneInv' /\ ReleaseInv' /\ SettleInv' BY <2>1 DEF OutputInv, OneInv, ReleaseInv, SettleInv
    <2> QED BY <2>2, <2>3, <2>4 DEF OutputInv
  <1> QED BY <1>1, <1>2, <1>3, <1>4, <1>5, <1>6, <1>7, <1>8, <1>9, <1>10 DEF OutputNext

LEMMA OutputAlways == OutputSpec => []OutputInv
  BY OutputInitInv, OutputStep, PTL DEF OutputSpec
-----------------------------------------------------------------------------
(* What the invariant gives                                                *)

LEMMA SoundTypes == ASSUME OutputInv PROVE OutputTypes
  <1>1. TypeInv /\ LockInv /\ LocalInv BY DEF OutputInv
  <1>2. ToSet(root) \subseteq Handlers
    <2>1. root \in Seq(Handlers) BY <1>1 DEF TypeInv
    <2>2. DOMAIN root = 1 .. Len(root) BY <2>1, LenProperties
    <2>3. \A i \in 1 .. Len(root) : root[i] \in Handlers BY <2>1, ElementOfSeq
    <2> QED BY <2>2, <2>3 DEF ToSet
  <1>3. ASSUME NEW t \in Threads PROVE Len(loc[t].writes) <= 1
    <2>1. LocalOk(pc[t], loc[t]) BY <1>1 DEF LocalInv
    <2>2. CASE Len(loc[t].writes) = 1 BY <2>2
    <2>3. CASE loc[t].writes = <<>>
      <3>1. Len(loc[t].writes) = 0 BY <2>3
      <3> QED BY <3>1
    <2> QED BY <2>1, <2>2, <2>3 DEF LocalOk
  <1>4. lock # "free" => pc[lock] \in {"build", "install", "render"} BY <1>1 DEF TypeInv, LockInv, InPass
  <1>5. \A f \in Fanouts : child[f].target \in Targets BY <1>1 DEF TypeInv, ChildType
  <1> QED BY <1>1, <1>2, <1>3, <1>4, <1>5 DEF OutputTypes, TypeInv, Handlers

LEMMA SoundReleases == ASSUME OutputInv PROVE ReleasedNotTargeted
  <1> SUFFICES ASSUME ~raced, Cardinality(OursAt) <= 1, \A t \in Threads : pc[t] # "detach",
                      NEW i \in OursAt, NEW w \in released
               PROVE  child[root[i]].target # w
    BY DEF ReleasedNotTargeted
  <1>1. root \in Seq(Handlers) /\ ReleaseInv BY DEF OutputInv, TypeInv
  <1>2. root[i] \in Fanouts /\ Sole(root, root[i]) BY <1>1, Positions, SoleFacts
  <1> QED BY <1>1, <1>2 DEF ReleaseInv

LEMMA SoundCounts == ASSUME OutputInv PROVE OneFanout /\ CountedOnce
  <1>1. TypeInv /\ LocalInv /\ CountInv /\ OneInv BY DEF OutputInv
  <1>2. OneFanout
    <2>1. root \in Seq(Handlers) BY <1>1 DEF TypeInv
    <2>2. AtMostOne(root) => Cardinality(OursAt) <= 1 BY <2>1, Positions, SoleFacts
    <2> QED BY <1>1, <2>2 DEF OneFanout, OneInv
  <1>3. \A t \in Threads : pc[t] \in {"write", "nested"} => loc[t].ticket \/ loc[t].at > 1
    BY <1>1 DEF LocalInv, LocalOk, OnRecord, InWrite
  <1> QED BY <1>1, <1>2, <1>3 DEF CountedOnce, CountInv, Tickets, Nested

\* The lock is held by a thread in a pass, which waits for nobody; a handler is held by
\* a thread inside a write, which waits for nobody, or that logs there and then waits
\* for nobody if the handler is the only one; and nothing else blocks.
LEMMA SoundWaiting == ASSUME OutputInv PROVE NotStuck
  <1>1. TypeInv /\ LockInv /\ LocalInv BY DEF OutputInv
  <1> SUFFICES ASSUME NEW t \in Threads, pc[t] # "idle", ~(Cardinality(OursAt) > 1)
               PROVE  \E u \in Threads : pc[u] # "idle" /\ ~Waits(u)
    BY DEF NotStuck, WritersMayLog, Quiet
  <1>2. CASE lock # "free"
    <2>1. lock \in Threads /\ pc[lock] \in InPass BY <1>1, <1>2 DEF TypeInv, LockInv
    <2> QED BY <2>1 DEF InPass, Waits
  <1>3. CASE lock = "free" /\ \E u \in Threads : pc[u] = "write" BY <1>3 DEF Waits
  <1>4. CASE lock = "free" /\ (\A u \in Threads : pc[u] # "write") /\ \E u \in Threads : pc[u] = "nested"
    <2>1. PICK u \in Threads : pc[u] = "nested" BY <1>4
    <2>2. CASE ~Waits(u) BY <2>1, <2>2
    <2>3. CASE Waits(u)
      <3>1. PICK i \in OursAt : Held(root[i]) BY <2>1, <2>3 DEF Waits
      <3>v. PICK v \in Threads : \E j \in DOMAIN loc[v].writes : loc[v].writes[j].fanout = root[i]
        BY <3>1 DEF Held
      <3>2. PICK k \in DOMAIN loc[v].writes : loc[v].writes[k].fanout = root[i] BY <3>v
      <3>3. loc[v] \in LocalType /\ LocalOk(pc[v], loc[v]) BY <1>1 DEF TypeInv, LocalInv
      <3>4. loc[v].writes # <<>> BY <3>2
      <3>5. pc[v] = "nested" /\ Len(loc[v].writes) = 1 BY <1>4, <3>3, <3>4 DEF LocalOk, InWrite
      <3>6. k = 1
        <4>1. loc[v].writes \in Seq(WriteType) BY <3>3 DEF LocalType
        <4>2. DOMAIN loc[v].writes = 1 .. Len(loc[v].writes) BY <4>1, LenProperties
        <4>3. k \in 1 .. 1 BY <3>2, <3>5, <4>2
        <4> QED BY <4>3
      <3>7. \A j \in OursAt : j = i
        <4>1. root \in Seq(Handlers) BY <1>1 DEF TypeInv
        <4>2. OursAt = At(root) /\ i \in At(root) BY <3>1, Positions
        <4>3. Cardinality(At(root)) \in Nat BY <4>1, SoleFacts
        <4>4. Cardinality(At(root)) <= 1 BY <4>2, <4>3
        <4>5. Sole(root, root[i]) BY <4>1, <4>2, <4>4, SoleFacts
        <4> QED BY <4>2, <4>5 DEF Sole
      <3>8. ~Waits(v) BY <3>2, <3>5, <3>6, <3>7 DEF Waits
      <3> QED BY <3>5, <3>8
    <2> QED BY <2>2, <2>3
  <1>5. CASE lock = "free" /\ \A u \in Threads : pc[u] \notin InWrite
    <2>1. \A u \in Threads : loc[u].writes = <<>> BY <1>1, <1>5 DEF LocalInv, LocalOk
    <2>2. \A u \in Threads : DOMAIN loc[u].writes = {}
      <3>1. ASSUME NEW u \in Threads PROVE DOMAIN loc[u].writes = {}
        <4>1. loc[u].writes = <<>> BY <2>1
        <4> QED BY <4>1
      <3> QED BY <3>1
    <2>3. (\A u \in Threads : \A f : ~Writing(u, f)) /\ \A f : ~Held(f) BY <2>2 DEF Writing, Held
    <2>4. ~Waits(t) BY <1>5, <2>3 DEF Waits
    <2> QED BY <2>4
  <1> QED BY <1>2, <1>3, <1>4, <1>5 DEF InWrite

LEMMA SoundSettles == ASSUME OutputInv PROVE OutputSettles
  <1> SUFFICES ASSUME Quiet, configured, active, Cardinality(OursAt) = 1
               PROVE  child[First].target = slot /\ colour = slot
    BY DEF OutputSettles
  <1>1. TypeInv /\ LockInv /\ SettleInv BY DEF OutputInv
  <1>2. root \in Seq(Handlers) BY <1>1 DEF TypeInv
  <1>3. \A t \in Threads : ~Owes(pc[t], loc[t]) /\ pc[t] \notin InPass BY DEF Quiet, Owes, InPass
  <1>4. lock = "free" BY <1>1, <1>3 DEF TypeInv, LockInv
  <1>5. PICK i \in At(root) : TRUE
    <2>1. OursAt # {} BY FS_EmptySet
    <2> QED BY <2>1, Positions
  <1>6. Cardinality(At(root)) <= 1 BY Positions
  <1>7. root[i] \in Fanouts /\ Sole(root, root[i]) BY <1>2, <1>5, <1>6, SoleFacts
  <1>8. First = root[i] BY <1>2, <1>7, FirstSole
  <1> QED BY <1>1, <1>3, <1>4, <1>7, <1>8 DEF SettleInv
-----------------------------------------------------------------------------
(* Theorems                                                                *)

\* However set_log_output, configuration passes, releases, shutdowns, log calls and the
\* host's own changes interleave: a writer that release_log_output let go is in no
\* handler once the release is through (if no pass raced it and no second handler is left
\* from before a shutdown), rebuilding leaves one fan-out handler until a shutdown, every
\* record that meets a fan-out handler frees its ticket exactly once, counted as emitted
\* or lost to a child that raised, and as long as there is one fan-out handler, the
\* configuration lock and the handlers' locks never leave everybody waiting.
THEOREM HandlersAreSound == OutputSpec => []HandlersSound
  <1>1. OutputInv => HandlersSound
    BY SoundTypes, SoundReleases, SoundCounts, SoundWaiting DEF HandlersSound
  <1> QED BY <1>1, OutputAlways, PTL

\* set_log_output and clear_log_output take effect whoever configures meanwhile, although
\* a pass reads the slot twice and reapply_log_output uses the config it read before it
\* gave the lock up: when all is quiet and the root logger has exactly one fan-out handler,
\* that handler and the renderer are for the slot's writer.
THEOREM OutputTakesEffect == OutputSpec => []OutputSettles
  BY SoundSettles, OutputAlways, PTL

\* The host's handler leaves the root logger only in _install_pipeline of a pass that
\* claims the root and has no fan-out handler to reuse.
THEOREM HostHandlerStays == OutputSpec => HostHandlerKept
  <1> DEFINE Kept == (HostHandler \in ToSet(root) /\ HostHandler \notin ToSet(root')) =>
                       (\E t \in Threads :
                          pc[t] = "install" /\ loc[t].claim /\ (~configured \/ OursAt = {}))
  <1>1. ASSUME OutputInv, [OutputNext]_outputVars PROVE [Kept]_outputVars
    <2>1. CASE root' = root BY <2>1
    <2>2. CASE HostAdds BY <2>2 DEF HostAdds
    <2>3. CASE HostRemovesOurs
      <3>1. ASSUME HostHandler \in ToSet(root) PROVE HostHandler \in ToSet(root')
        <4>1. root' = <<HostHandler>> BY <2>3, <3>1 DEF HostRemovesOurs
        <4>2. 1 \in DOMAIN root' /\ root'[1] = HostHandler BY <4>1
        <4> QED BY <4>2 DEF ToSet
      <3> QED BY <3>1
    <2>4. ASSUME NEW t \in Threads, Install(t), ~Reusable PROVE Kept
      <3>1. pc[t] = "install" /\ (~configured \/ OursAt = {}) BY <2>4 DEF Install, Reusable
      <3>2. CASE Claims(t) BY <3>1, <3>2 DEF Claims
      <3>3. CASE ~Claims(t)
        <4>1. root' = Append(root, Unused) /\ root \in Seq(Handlers) BY <1>1, <2>4, <3>3 DEF Install, OutputInv, TypeInv
        <4>2. Unused \in Handlers BY <1>1, <3>1, UnusedExists DEF OutputInv, Handlers
        <4> DEFINE q == root'
                   f == Unused
        <4>4. q = Append(root, f) /\ f \in Handlers BY <4>1, <4>2
        <4> HIDE DEF q, f
        <4>5. Len(q) = Len(root) + 1 /\ q \in Seq(Handlers) /\ \A i \in 1 .. Len(root) : q[i] = root[i]
          BY <4>1, <4>4, AppendProperties
        <4>6. Len(root) \in Nat /\ DOMAIN root = 1 .. Len(root) BY <4>1, LenProperties
        <4>7. DOMAIN q = 1 .. Len(q) BY <4>5, LenProperties
        <4>8. DOMAIN root \subseteq DOMAIN q BY <4>5, <4>6, <4>7
        <4>9. ToSet(root) \subseteq ToSet(q) BY <4>5, <4>6, <4>8 DEF ToSet
        <4> QED BY <4>9 DEF q
      <3> QED BY <3>2, <3>3
    <2>5. ASSUME NEW t \in Threads, Install(t) PROVE root' = root \/ ~Reusable BY <2>5 DEF Install
    <2>6. ASSUME NEW t \in Threads,
                 \/ \E w \in Targets : SetOutput(t, w)
                 \/ \E force, claim \in BOOLEAN : Configure(t, force, claim)
                 \/ Release(t) \/ Log(t) \/ Shutdown(t) \/ Record(t)
          PROVE  root' = root
      BY <2>6 DEF SetOutput, Configure, Release, Log, Shutdown, Detach, Teardown, Record, Emit, SkipHost,
                  Logged, Written, WriteEscapes, Reenter, Refuse, pipe
    <2>7. ASSUME NEW t \in Threads, Reapply(t) \/ EnterPass(t) \/ Build(t) \/ Render(t) \/ Emergency(t)
          PROVE  root' = root
      BY <2>7 DEF Reapply, EnterPass, Build, Render, Emergency, pipe
    <2>8. CASE UNCHANGED outputVars BY <2>8 DEF outputVars
    <2> QED BY <1>1, <2>1, <2>2, <2>3, <2>4, <2>5, <2>6, <2>7, <2>8 DEF OutputNext, Pass
  <1>2. OutputSpec => [][Kept]_outputVars BY <1>1, OutputAlways, PTL DEF OutputSpec
  <1> QED BY <1>2 DEF HostHandlerKept
=============================================================================
