--------------------------- MODULE EmissionProofs ---------------------------
(***************************************************************************)
(* Theorems about Emission, for any finite set of threads, any limits,     *)
(* attribute values and bounds.                                            *)
(*                                                                         *)
(* Four independent inductive invariants: calls and counters (a call that  *)
(* is not in progress has nothing left to decide), slots (Core, what the   *)
(* steps of Backpressure keep whoever loses a ticket, with the tokens that *)
(* log records strand), attribute values (the clock a caller read is never *)
(* ahead of the clock) and the series of a gauge.  Core adds to the        *)
(* properties of the queue that a ticket of the current epoch carries a    *)
(* token the counter has already handed out, which makes the next one new. *)
(***************************************************************************)
EXTENDS Emission, FiniteSetTheorems, SequenceTheorems, TLAPS

(* The queue                                                               *)

\* Tickets come from the present or the past, and their tokens too.
TokensHandedOut ==
  \A t \in Holding : epoch[t] <= resets /\ (epoch[t] = resets => ticket[t] <= tokens)

Core == TypeOK /\ TokensHandedOut /\ TicketsDistinct /\ WithinLargestLimit

\* The numeric facts of the assumption.
LEMMA Bounds == Limits \subseteq Nat /\ 0 \in Limits /\ MaxTokens \in Nat /\ MaxResets \in Nat
  BY BackpressureAssumption

\* The queue is finite, so its length is a number.
LEMMA QueueFinite ==
  ASSUME TypeOK
  PROVE  IsFiniteSet(queue) /\ Cardinality(queue) \in Nat
  <1>1. tokens \in Nat BY Bounds DEF TypeOK
  <1>2. IsFiniteSet(1..tokens) BY <1>1, FS_Interval
  <1>3. IsFiniteSet(queue) BY <1>2, FS_Subset DEF TypeOK
  <1> QED BY <1>3, FS_CardinalityType

\* The initial state satisfies the invariant, whatever the first limit.
LEMMA InitCore ==
  ASSUME NEW m \in Limits, Queues(m)
  PROVE  Core /\ queue = {}
  <1>1. TypeOK BY Bounds DEF Queues, TypeOK
  <1>2. TokensHandedOut /\ TicketsDistinct
    BY DEF Queues, TokensHandedOut, TicketsDistinct, Holding
  <1>3. WithinLargestLimit BY FS_EmptySet DEF Queues, WithinLargestLimit
  <1> QED BY <1>1, <1>2, <1>3 DEF Core, Queues

\* A thread that holds no token may move and change its limit.
LEMMA NoTicketStep ==
  ASSUME Core, NEW t \in Threads, pc[t] # "holding",
         UNCHANGED <<queue, tokens, resets, epoch, highest>>,
         pc' \in [Threads -> {"idle", "read", "holding"}],
         ticket' \in [Threads -> 0..MaxTokens],
         \A u \in Threads : u # t => pc'[u] = pc[u] /\ ticket'[u] = ticket[u],
         pc'[t] # "holding" \/ ticket'[t] = 0
  PROVE  TokensHandedOut' /\ TicketsDistinct' /\ WithinLargestLimit'
  <1>1. Holding' = Holding
    BY DEF Holding
  <1>2. \A u \in Holding : u # t
    BY DEF Holding
  <1>3. TokensHandedOut' BY <1>1, <1>2 DEF Core, TokensHandedOut, Holding
  <1>4. TicketsDistinct' BY <1>1, <1>2 DEF Core, TicketsDistinct, Holding
  <1>5. WithinLargestLimit' BY DEF Core, WithinLargestLimit
  <1> QED BY <1>3, <1>4, <1>5

\* Every step keeps the core of the invariant.
LEMMA CoreStep == Core /\ [Next]_vars => Core'
  <1> SUFFICES ASSUME Core, [Next]_vars PROVE Core' OBVIOUS
  <1>t. TypeOK BY DEF Core
  <1>q. IsFiniteSet(queue) /\ Cardinality(queue) \in Nat BY <1>t, QueueFinite
  <1>0. CASE UNCHANGED vars
    <2>1. TypeOK' BY <1>0, <1>t DEF vars, TypeOK
    <2>2. Holding' = Holding BY <1>0 DEF vars, Holding
    <2> QED
      BY <1>0, <2>1, <2>2
      DEF vars, Core, TokensHandedOut, TicketsDistinct, WithinLargestLimit
  <1>1. ASSUME NEW t \in Threads, ReadLimit(t) PROVE Core'
    <2>1. TypeOK' BY <1>1, <1>t DEF ReadLimit, TypeOK
    <2>2. TokensHandedOut' /\ TicketsDistinct' /\ WithinLargestLimit'
      BY <1>1, <2>1, <1>t, NoTicketStep DEF ReadLimit, TypeOK
    <2> QED BY <2>1, <2>2 DEF Core
  <1>2. ASSUME NEW t \in Threads, AcquireUnlimited(t) PROVE Core'
    <2>1. TypeOK' BY <1>2, <1>t, Bounds DEF AcquireUnlimited, TypeOK
    <2>2. TokensHandedOut' /\ TicketsDistinct' /\ WithinLargestLimit'
      BY <1>2, <2>1, <1>t, NoTicketStep DEF AcquireUnlimited, TypeOK
    <2> QED BY <2>1, <2>2 DEF Core
  <1>3. ASSUME NEW t \in Threads, Drop(t) PROVE Core'
    <2>1. TypeOK' BY <1>3, <1>t DEF Drop, TypeOK
    <2>2. TokensHandedOut' /\ TicketsDistinct' /\ WithinLargestLimit'
      BY <1>3, <2>1, <1>t, NoTicketStep DEF Drop, TypeOK
    <2> QED BY <2>1, <2>2 DEF Core
  <1>4. ASSUME NEW t \in Threads, Acquire(t) PROVE Core'
    <2>a1. tokens \in 0..MaxTokens /\ MaxTokens \in Nat /\ tokens < MaxTokens
      BY <1>4, <1>t, Bounds DEF Acquire, TypeOK
    <2>a2. tokens \in Nat /\ tokens + 1 \in 1..MaxTokens BY <2>a1
    <2>a3. seen[t] \in Limits /\ highest \in Limits BY <1>t DEF TypeOK
    <2>a4. seen[t] \in Nat /\ highest \in Nat BY <2>a3, Bounds
    <2>a5. resets \in Nat BY <1>t, Bounds DEF TypeOK
    <2>a. /\ tokens \in Nat /\ tokens + 1 \in 1..MaxTokens /\ seen[t] \in Limits
          /\ seen[t] \in Nat /\ highest \in Nat /\ resets \in Nat /\ highest \in Limits
      BY <2>a2, <2>a3, <2>a4, <2>a5
    <2>b. tokens + 1 \notin queue
      BY <1>t, <2>a DEF TypeOK
    <2>h. Holding' = Holding \cup {t} /\ t \notin Holding
      BY <1>4, <1>t, <2>a DEF Acquire, Holding, TypeOK
    <2>v. /\ \A u \in Holding : ticket'[u] = ticket[u] /\ epoch'[u] = epoch[u]
          /\ ticket'[t] = tokens + 1 /\ epoch'[t] = resets
          /\ tokens' = tokens + 1 /\ resets' = resets /\ queue' = queue \cup {tokens + 1}
      BY <1>4, <1>t, <2>h DEF Acquire, Holding, TypeOK
    <2>1. TypeOK'
      <3>1. queue' \subseteq 1..tokens' BY <1>t, <2>a, <2>v DEF TypeOK
      <3>2. highest' \in Limits BY <1>4, <2>a DEF Acquire, Larger
      <3>3. ticket' \in [Threads -> 0..MaxTokens] /\ epoch' \in [Threads -> 0..MaxResets]
        BY <1>4, <1>t, <2>a DEF Acquire, TypeOK
      <3> QED BY <1>4, <1>t, <2>a, <2>v, <3>1, <3>2, <3>3, Bounds DEF Acquire, TypeOK
    <2>i. \A u \in Holding : epoch[u] \in Int /\ ticket[u] \in Int
      BY <1>t, Bounds DEF Holding, TypeOK
    <2>2. TokensHandedOut'
      BY <2>a, <2>h, <2>v, <2>i DEF Core, TokensHandedOut
    <2>4. TicketsDistinct'
      BY <2>a, <2>h, <2>v, <2>i DEF Core, TokensHandedOut, TicketsDistinct
    <2>5. WithinLargestLimit'
      <3>1. Cardinality(queue') = Cardinality(queue) + 1
        BY <1>q, <2>b, <2>v, FS_AddElement
      <3>2. Cardinality(queue) < seen[t] /\ seen[t] <= highest'
        BY <1>4, <2>a DEF Acquire, Larger
      <3>3. highest' \in Nat BY <2>1, Bounds DEF TypeOK
      <3> QED BY <1>q, <2>a, <3>1, <3>2, <3>3 DEF WithinLargestLimit
    <2> QED BY <2>1, <2>2, <2>4, <2>5 DEF Core
  <1>5. ASSUME NEW t \in Threads, Release(t) PROVE Core'
    <2>h. Holding' \subseteq Holding /\ t \notin Holding'
      BY <1>5, <1>t DEF Release, Holding, TypeOK
    <2>g. \A u \in Holding : u # t => u \in Holding'
      BY <1>5, <1>t DEF Release, Holding, TypeOK
    <2>v. /\ \A u \in Holding' : ticket'[u] = ticket[u] /\ epoch'[u] = epoch[u]
          /\ tokens' = tokens /\ resets' = resets /\ queue' = queue \ {ticket[t]}
      BY <1>5, <1>t, <2>h DEF Release, Holding, TypeOK
    <2>1. TypeOK'
      <3>1. queue' \subseteq 1..tokens' BY <1>t, <2>v DEF TypeOK
      <3>2. 0 \in 0..MaxTokens BY Bounds
      <3>3. ticket' \in [Threads -> 0..MaxTokens] BY <1>5, <1>t, <3>2 DEF Release, TypeOK
      <3>4. pc' \in [Threads -> {"idle", "read", "holding"}] BY <1>5, <1>t DEF Release, TypeOK
      <3>5. /\ limit' \in Limits /\ highest' \in Limits
            /\ tokens' \in 0..MaxTokens /\ resets' \in 0..MaxResets
            /\ seen' \in [Threads -> Limits] /\ epoch' \in [Threads -> 0..MaxResets]
        BY <1>5, <1>t DEF Release, TypeOK
      <3> QED BY <3>1, <3>3, <3>4, <3>5 DEF TypeOK
    <2>2. TokensHandedOut' BY <2>h, <2>v DEF Core, TokensHandedOut
    <2>4. TicketsDistinct' BY <2>h, <2>v DEF Core, TicketsDistinct
    <2>5. WithinLargestLimit'
      <3>1. Cardinality(queue') <= Cardinality(queue) /\ IsFiniteSet(queue')
        BY <1>q, <2>v, FS_Subset
      <3>2. Cardinality(queue') \in Nat BY <3>1, FS_CardinalityType
      <3>3. highest' = highest /\ highest \in Nat BY <1>5, <1>t, Bounds DEF Release, TypeOK
      <3> QED BY <1>q, <3>1, <3>2, <3>3 DEF Core, WithinLargestLimit
    <2> QED BY <2>1, <2>2, <2>4, <2>5 DEF Core
  <1>6. ASSUME NEW m \in Limits, SetQueuePolicy(m) PROVE Core'
    <2>1. TypeOK' BY <1>6, <1>t DEF SetQueuePolicy, TypeOK
    <2>2. Holding' = Holding BY <1>6 DEF SetQueuePolicy, Holding
    <2> QED
      BY <1>6, <2>1, <2>2
      DEF SetQueuePolicy, Core, TokensHandedOut, TicketsDistinct, WithinLargestLimit
  <1>7. CASE Reset
    <2>1. TypeOK' BY <1>7, <1>t, Bounds DEF Reset, TypeOK
    <2>2. Holding' = Holding BY <1>7 DEF Reset, Holding
    <2>3. resets \in Nat /\ resets' = resets + 1 /\ \A u \in Holding : epoch[u] \in Int
      BY <1>7, <1>t, Bounds DEF Reset, Holding, TypeOK
    <2>4. TokensHandedOut' BY <1>7, <2>2, <2>3 DEF Reset, Core, TokensHandedOut
    <2>6. TicketsDistinct' BY <1>7, <2>2 DEF Reset, Core, TicketsDistinct
    <2>7. WithinLargestLimit' BY <1>7, FS_EmptySet DEF Reset, WithinLargestLimit
    <2> QED BY <2>1, <2>4, <2>6, <2>7 DEF Core
  <1> QED
    BY <1>0, <1>1, <1>2, <1>3, <1>4, <1>5, <1>6, <1>7 DEF Next, Emit

\* What a step does to the tokens of the queue and to the tickets that hold them.
LEMMA SlotStep ==
  ASSUME TypeOK, [Next]_vars
  PROVE  \/ queue' = {}
         \/ /\ resets' = resets
            /\ \A k \in queue' :
                 \/ \E u \in Holding' : ticket'[u] = k /\ epoch'[u] = resets'
                 \/ /\ k \in queue
                    /\ \A u \in Holding : ticket[u] = k =>
                          u \in Holding' /\ ticket'[u] = k /\ epoch'[u] = epoch[u]
  <1>0. CASE UNCHANGED vars BY <1>0 DEF vars, Holding
  <1>1. ASSUME NEW t \in Threads, ReadLimit(t) \/ Drop(t) \/ AcquireUnlimited(t)
        PROVE  /\ queue' = queue /\ resets' = resets
               /\ \A u \in Holding : u \in Holding' /\ ticket'[u] = ticket[u] /\ epoch'[u] = epoch[u]
    BY <1>1 DEF ReadLimit, Drop, AcquireUnlimited, Holding, TypeOK
  <1>2. ASSUME NEW t \in Threads, Acquire(t)
        PROVE  /\ queue' = queue \cup {tokens + 1} /\ resets' = resets
               /\ \A u \in Holding : u \in Holding' /\ ticket'[u] = ticket[u] /\ epoch'[u] = epoch[u]
               /\ t \in Holding' /\ ticket'[t] = tokens + 1 /\ epoch'[t] = resets
    <2>1. tokens + 1 # 0 BY Bounds DEF TypeOK
    <2>2. \A u \in Holding : u # t BY <1>2 DEF Acquire, Holding
    <2> QED BY <1>2, <2>1, <2>2 DEF Acquire, Holding, TypeOK
  <1>3. ASSUME NEW t \in Threads, Release(t)
        PROVE  /\ queue' = queue \ {ticket[t]} /\ resets' = resets
               /\ \A u \in Holding : u # t => u \in Holding' /\ ticket'[u] = ticket[u] /\ epoch'[u] = epoch[u]
    BY <1>3 DEF Release, Holding, TypeOK
  <1>4. ASSUME NEW m \in Limits, SetQueuePolicy(m)
        PROVE  /\ queue' = queue /\ resets' = resets
               /\ \A u \in Holding : u \in Holding' /\ ticket'[u] = ticket[u] /\ epoch'[u] = epoch[u]
    BY <1>4 DEF SetQueuePolicy, Holding
  <1>5. CASE Reset BY <1>5 DEF Reset
  <1> QED BY <1>0, <1>1, <1>2, <1>3, <1>4, <1>5 DEF Next, Emit

-----------------------------------------------------------------------------
(* Emission                                                                *)

Kinds == {"log", "span", "tally", "add", "set"}
Stages == {"idle", "consent", "sample", "queue", "work", "resolve", "bind", "guard", "finish"}
Values == AttrValues \cup {Overflow}
Left == 0 .. 2
Counts == 0 .. 3
OpType == [kind : Kinds, severity : Severities, amount : Int, value : Values, handle : Nat, more : Left]
HandleType == [resolved : BOOLEAN, handle : Nat]
HealthType == [begun : Nat, emitted : Nat, dropped : Nat]

\* Calls in progress have their local variables, and only they have writes left.
CallsSound ==
  /\ signal \in {"logs", "traces", "metrics"} /\ provider \in Nat
  /\ at \in [Threads -> Stages] /\ op \in [Threads -> OpType]
  /\ handles \in [{"tally", "gauge"} -> HandleType]
  /\ health \in HealthType /\ silent \in Nat /\ lost \in Nat
  /\ \A t \in Threads : at[t] = "idle" => op[t].more = 0

\* Whether a call's current write is still to be decided, as a number.
Owed(stage, kind) ==
  IF \/ stage \in {"consent", "sample", "queue", "work"}
     \/ kind \in {"add", "set"} /\ stage \in {"resolve", "bind", "guard"} THEN 1 ELSE 0

CallInv == CallsSound /\ AccountedOnce

SlotInv == Core /\ SlotsHeld

\* What a caller of guard_attributes holds: its reading of the clock among other things.
GuardFields == {"at", "now", "value", "expired"}
Holds(g, time) == DOMAIN g = GuardFields /\ g.now \in Nat /\ g.now <= time

\* The limit in force is one of those that count, and no caller's clock is ahead.
ValuesSound ==
  /\ maxValues \in Nat /\ largest \in Nat /\ clock \in Nat /\ maxValues <= largest
  /\ IsFiniteSet(DOMAIN lastSeen) /\ \A v \in DOMAIN lastSeen : lastSeen[v] \in Nat
  /\ DOMAIN guard = Threads /\ \A t \in Threads : Holds(guard[t], clock)

ValueInv == ValuesSound /\ WithinLimit
-----------------------------------------------------------------------------
(* Counting the writes that are still to be decided                        *)

\* There are finitely many.
LEMMA WritesFinite ==
  ASSUME NEW p
  PROVE  IsFiniteSet(Writes(p)) /\ Cardinality(Writes(p)) \in Nat
  <1>1. IsFiniteSet(1 .. 3)
    <2>1. PICK a \in Int, b \in Int : a = 1 /\ b = 3 OBVIOUS
    <2>2. IsFiniteSet(a .. b) BY FS_Interval
    <2> QED BY <2>1, <2>2
  <1>2. IsFiniteSet(Threads) BY EmissionAssumption
  <1>3. IsFiniteSet(Threads \X (1 .. 3)) BY <1>1, <1>2, FS_Product
  <1>4. Writes(p) \subseteq Threads \X (1 .. 3) BY DEF Writes
  <1>5. IsFiniteSet(Writes(p)) BY <1>3, <1>4, FS_Subset
  <1> QED BY <1>5, FS_CardinalityType

\* Deciding one write of a call leaves one less.
LEMMA OneLess ==
  ASSUME NEW p \in [Threads -> Counts], NEW q \in [Threads -> Counts], NEW t \in Threads,
         \A u \in Threads : u # t => q[u] = p[u], q[t] = p[t] - 1
  PROVE  Cardinality(Writes(q)) = Cardinality(Writes(p)) - 1
  <1> DEFINE w == <<t, p[t]>>
  <1>0. p[t] \in Int /\ q[t] \in Int /\ p[t] \in 1 .. 3 BY DEF Counts
  <1>1. w \in Writes(p) BY <1>0 DEF Writes
  <1>2. Writes(q) = Writes(p) \ {w}
    <2>1. ASSUME NEW u \in Threads, NEW i \in 1 .. 3
          PROVE  <<u, i>> \in Writes(q) <=> <<u, i>> \in Writes(p) \ {w}
      <3>1. CASE u = t
        <4>1. i <= q[t] <=> i <= p[t] /\ i # p[t] BY <1>0
        <4> QED BY <3>1, <4>1 DEF Writes
      <3>2. CASE u # t BY <3>2 DEF Writes
      <3> QED BY <3>1, <3>2
    <2>2. \A x \in Writes(q) \cup Writes(p) : \E u \in Threads, i \in 1 .. 3 : x = <<u, i>>
      BY DEF Writes
    <2> HIDE DEF w
    <2>3. ASSUME NEW x \in Writes(q) \cup Writes(p) PROVE x \in Writes(q) <=> x \in Writes(p) \ {w}
      <3>1. PICK u \in Threads, i \in 1 .. 3 : x = <<u, i>> BY <2>2
      <3>2. <<u, i>> \in Writes(q) <=> <<u, i>> \in Writes(p) \ {w} BY <2>1
      <3> QED BY ONLY <3>1, <3>2
    <2> QED BY <2>3
  <1> HIDE DEF w
  <1> QED BY <1>1, <1>2, WritesFinite, FS_RemoveElement

\* What a call in progress owes, before and after.
LEMMA PendingFacts ==
  ASSUME at \in [Threads -> Stages], op \in [Threads -> OpType]
  PROVE  /\ Pending \in [Threads -> Counts]
         /\ \A t \in Threads : /\ op[t].more \in Left
                               /\ Pending[t] = op[t].more + (IF Undecided(t) THEN 1 ELSE 0)
  <1>1. \A t \in Threads : op[t].more \in 0 .. 2 BY DEF OpType, Left
  <1>2. \A t \in Threads : op[t].more + (IF Undecided(t) THEN 1 ELSE 0) \in Counts BY <1>1 DEF Counts
  <1> QED BY <1>1, <1>2 DEF Pending, Left

\* One thread moves on with its call.
LEMMA CallMoves ==
  ASSUME CallsSound, NEW t \in Threads, at' \in [Threads -> Stages], op' \in [Threads -> OpType],
         \A u \in Threads : u # t => at'[u] = at[u] /\ op'[u] = op[u],
         at'[t] = "idle" => op'[t].more = 0
  PROVE  /\ \A u \in Threads : at'[u] = "idle" => op'[u].more = 0
         /\ Pending \in [Threads -> Counts] /\ Pending' \in [Threads -> Counts]
         /\ \A u \in Threads : u # t => Pending'[u] = Pending[u]
         /\ Pending'[t] = op'[t].more + Owed(at'[t], op'[t].kind)
  <1>2. \A u \in Threads : at'[u] = "idle" => op'[u].more = 0 BY DEF CallsSound
  <1>3. /\ Pending \in [Threads -> Counts]
        /\ \A u \in Threads : Pending[u] = op[u].more + (IF Undecided(u) THEN 1 ELSE 0)
    BY PendingFacts DEF CallsSound
  <1>4. /\ Pending' \in [Threads -> Counts]
        /\ \A u \in Threads : Pending'[u] = op'[u].more + (IF Undecided(u)' THEN 1 ELSE 0)
    <2>1. \A u \in Threads : op'[u].more \in 0 .. 2 BY DEF OpType, Left
    <2>2. \A u \in Threads : op'[u].more + (IF Undecided(u)' THEN 1 ELSE 0) \in Counts BY <2>1 DEF Counts
    <2> QED BY <2>2 DEF Pending
  <1>5. \A u \in Threads : u # t => (Undecided(u)' <=> Undecided(u)) BY DEF Undecided, IsGauge
  <1>6. \A u \in Threads : u # t => Pending'[u] = Pending[u] BY <1>3, <1>4, <1>5
  <1>7. (IF Undecided(t)' THEN 1 ELSE 0) = Owed(at'[t], op'[t].kind) BY DEF Undecided, IsGauge, Owed
  <1>8. Pending'[t] = op'[t].more + (IF Undecided(t)' THEN 1 ELSE 0) BY <1>4
  <1> QED BY <1>2, <1>3, <1>4, <1>6, <1>7, <1>8

\* The counters of a step that decides d writes.
LEMMA Decided ==
  ASSUME CallInv, NEW t \in Threads, NEW d \in {0, 1},
         Pending \in [Threads -> Counts], Pending' \in [Threads -> Counts],
         \A u \in Threads : u # t => Pending'[u] = Pending[u], Pending'[t] = Pending[t] - d,
         health' \in HealthType, silent' \in Nat, lost' \in Nat, health'.begun = health.begun,
         health'.emitted + health'.dropped + silent' + lost' = health.emitted + health.dropped + silent + lost + d
  PROVE  AccountedOnce'
  <1> DEFINE n == Cardinality(Writes(Pending))
             m == Cardinality(Writes(Pending'))
  <1>1. n \in Nat /\ m \in Nat BY WritesFinite
  <1>2. m = n - d
    <2>1. CASE d = 1 BY <2>1, OneLess
    <2>2. CASE d = 0
      <3>1. Pending[t] \in Int BY DEF Counts
      <3>2. Pending' = Pending BY <2>2, <3>1
      <3> QED BY <1>1, <2>2, <3>2
    <2> QED BY <2>1, <2>2
  <1>3. /\ health.begun = health.emitted + health.dropped + silent + lost + n
        /\ health.emitted \in Nat /\ health.dropped \in Nat /\ silent \in Nat /\ lost \in Nat
    BY DEF CallInv, CallsSound, AccountedOnce, HealthType
  <1>4. health'.emitted \in Nat /\ health'.dropped \in Nat BY DEF HealthType
  <1> HIDE DEF n, m
  <1>5. health'.begun = health'.emitted + health'.dropped + silent' + lost' + m BY <1>1, <1>2, <1>3, <1>4
  <1>6. m = Cardinality(Writes(Pending))' BY DEF m, Writes
  <1> QED BY <1>5, <1>6 DEF AccountedOnce
-----------------------------------------------------------------------------
(* Calls and counters                                                      *)

\* A call that has not begun, and the counters.
LEMMA IdleType == Idle \in OpType /\ Idle.more = 0
  BY DEF Idle, OpType, Kinds, Severities, Values, Left

LEMMA CountType ==
  ASSUME CallsSound, NEW field \in {"begun", "emitted", "dropped"}, NEW n \in Nat, Count(field, n)
  PROVE  /\ health' \in HealthType
         /\ health'.begun = IF field = "begun" THEN health.begun + n ELSE health.begun
         /\ health'.emitted = IF field = "emitted" THEN health.emitted + n ELSE health.emitted
         /\ health'.dropped = IF field = "dropped" THEN health.dropped + n ELSE health.dropped
  <1>1. /\ health \in HealthType /\ health.begun \in Nat /\ health.emitted \in Nat /\ health.dropped \in Nat
    BY DEF CallsSound, HealthType
  <1>2. CASE field = "begun" BY <1>1, <1>2 DEF Count, HealthType
  <1>3. CASE field = "emitted" BY <1>1, <1>3 DEF Count, HealthType
  <1>4. CASE field = "dropped" BY <1>1, <1>4 DEF Count, HealthType
  <1> QED BY <1>2, <1>3, <1>4

\* The end of one write of a call.
LEMMA RefusedMoves ==
  ASSUME CallsSound, NEW t \in Threads, Refused(t)
  PROVE  /\ at' \in [Threads -> Stages] /\ op' \in [Threads -> OpType]
         /\ \A u \in Threads : at'[u] = "idle" => op'[u].more = 0
         /\ Pending \in [Threads -> Counts] /\ Pending' \in [Threads -> Counts]
         /\ \A u \in Threads : u # t => Pending'[u] = Pending[u]
         /\ Pending'[t] = op[t].more
  <1>1. op[t] \in OpType /\ op[t].more \in Left /\ op[t].more \in 0 .. 2 BY DEF CallsSound, OpType, Left
  <1>2. CASE op[t].more > 0
    <2> DEFINE left == op[t].more - 1
               o == [op[t] EXCEPT !.more = left]
    <2>1. at' = [at EXCEPT ![t] = "consent"] /\ op' = [op EXCEPT ![t] = o]
      BY <1>2 DEF Refused, Goto, CallsSound
    <2>2. left \in Left /\ "consent" \in Stages /\ left + 1 = op[t].more BY <1>1, <1>2 DEF Left, Stages
    <2> HIDE DEF left
    <2>3. o \in OpType /\ o.more = left BY <1>1, <2>2 DEF OpType
    <2> HIDE DEF o
    <2>4. Owed("consent", o.kind) = 1 BY DEF Owed
    <2>5. o.more + Owed("consent", o.kind) = op[t].more BY <2>2, <2>3, <2>4
    <2>6. /\ at' \in [Threads -> Stages] /\ op' \in [Threads -> OpType] /\ at'[t] = "consent" /\ op'[t] = o
          /\ \A u \in Threads : u # t => at'[u] = at[u] /\ op'[u] = op[u]
      BY <2>1, <2>2, <2>3 DEF CallsSound
    <2> QED BY <2>5, <2>6, CallMoves
  <1>3. CASE ~(op[t].more > 0)
    <2>1. at' = [at EXCEPT ![t] = "idle"] /\ op' = [op EXCEPT ![t] = Idle] BY <1>3 DEF Refused, Goto
    <2>2. op[t].more = 0 /\ "idle" \in Stages BY <1>1, <1>3 DEF Stages
    <2>3. Owed("idle", Idle.kind) = 0 BY DEF Owed
    <2>4. /\ at' \in [Threads -> Stages] /\ op' \in [Threads -> OpType] /\ at'[t] = "idle" /\ op'[t] = Idle
          /\ \A u \in Threads : u # t => at'[u] = at[u] /\ op'[u] = op[u]
      BY <2>1, <2>2, IdleType DEF CallsSound
    <2> QED BY <2>2, <2>3, <2>4, IdleType, CallMoves
  <1> QED BY <1>2, <1>3

\* A call in progress whose stage changes and whose local variables do not.
LEMMA StageMoves ==
  ASSUME CallsSound, NEW t \in Threads, NEW stage \in Stages \ {"idle"}, Goto(t, stage), op' = op
  PROVE  /\ at' \in [Threads -> Stages] /\ op' \in [Threads -> OpType]
         /\ \A u \in Threads : at'[u] = "idle" => op'[u].more = 0
         /\ Pending \in [Threads -> Counts] /\ Pending' \in [Threads -> Counts]
         /\ \A u \in Threads : u # t => Pending'[u] = Pending[u]
         /\ Pending'[t] = op[t].more + Owed(stage, op[t].kind)
  <1>1. /\ at' \in [Threads -> Stages] /\ op' \in [Threads -> OpType] /\ at'[t] = stage
        /\ \A u \in Threads : u # t => at'[u] = at[u] /\ op'[u] = op[u]
    BY DEF Goto, CallsSound
  <1> QED BY <1>1, CallMoves

\* What a call owes now.
LEMMA Owes ==
  ASSUME CallsSound, NEW t \in Threads
  PROVE  /\ op[t] \in OpType /\ op[t].more \in Nat
         /\ Pending[t] = op[t].more + Owed(at[t], op[t].kind)
  <1>1. op[t] \in OpType /\ op[t].more \in Nat BY DEF CallsSound, OpType, Left
  <1>2. Pending[t] = op[t].more + (IF Undecided(t) THEN 1 ELSE 0) BY PendingFacts DEF CallsSound
  <1>3. (IF Undecided(t) THEN 1 ELSE 0) = Owed(at[t], op[t].kind) BY DEF Undecided, IsGauge, Owed
  <1> QED BY <1>1, <1>2, <1>3

\* Steps that touch neither calls nor counters.
LEMMA CallsAlone ==
  ASSUME CallInv, UNCHANGED <<at, op, handles, health, silent, lost, signal>>, provider' \in Nat
  PROVE  CallInv'
  <1>1. CallsSound' BY DEF CallInv, CallsSound
  <1>2. Pending' = Pending BY DEF Pending, Undecided, IsGauge
  <1>3. AccountedOnce' BY <1>2 DEF CallInv, AccountedOnce, Writes
  <1> QED BY <1>1, <1>3 DEF CallInv

\* Steps that decide one write, or none, of one thread's call.
LEMMA CallStep ==
  ASSUME CallInv, NEW t \in Threads, NEW d \in {0, 1},
         at' \in [Threads -> Stages], op' \in [Threads -> OpType],
         \A u \in Threads : at'[u] = "idle" => op'[u].more = 0,
         Pending \in [Threads -> Counts], Pending' \in [Threads -> Counts],
         \A u \in Threads : u # t => Pending'[u] = Pending[u], Pending'[t] = Pending[t] - d,
         UNCHANGED <<signal, provider>>, handles' \in [{"tally", "gauge"} -> HandleType],
         health' \in HealthType, silent' \in Nat, lost' \in Nat, health'.begun = health.begun,
         health'.emitted + health'.dropped + silent' + lost' = health.emitted + health.dropped + silent + lost + d
  PROVE  CallInv'
  <1>1. CallsSound' BY DEF CallInv, CallsSound
  <1>2. AccountedOnce' BY Decided
  <1> QED BY <1>1, <1>2 DEF CallInv

\* The counters as numbers.
LEMMA Numbers ==
  ASSUME CallInv
  PROVE  /\ CallsSound /\ health \in HealthType /\ health.begun \in Nat /\ health.emitted \in Nat
         /\ health.dropped \in Nat /\ silent \in Nat /\ lost \in Nat
         /\ handles \in [{"tally", "gauge"} -> HandleType]
  BY DEF CallInv, CallsSound, HealthType

\* A write is refused, dropped, emitted or lost at the end of a stage before its decision.
LEMMA RefusedInv ==
  ASSUME CallInv, NEW t \in Threads, Refused(t), at[t] \in {"consent", "sample", "queue", "work"},
         UNCHANGED <<signal, provider, handles>>, health' \in HealthType, silent' \in Nat, lost' \in Nat,
         health'.begun = health.begun,
         health'.emitted + health'.dropped + silent' + lost' = health.emitted + health.dropped + silent + lost + 1
  PROVE  CallInv'
  <1>1. CallsSound /\ handles' \in [{"tally", "gauge"} -> HandleType] BY Numbers
  <1>2. /\ at' \in [Threads -> Stages] /\ op' \in [Threads -> OpType]
        /\ \A u \in Threads : at'[u] = "idle" => op'[u].more = 0
        /\ Pending \in [Threads -> Counts] /\ Pending' \in [Threads -> Counts]
        /\ \A u \in Threads : u # t => Pending'[u] = Pending[u]
        /\ Pending'[t] = op[t].more
    BY <1>1, RefusedMoves
  <1>3. Pending[t] = op[t].more + 1 /\ op[t].more \in Nat
    <2>1. Owed(at[t], op[t].kind) = 1 BY DEF Owed
    <2> QED BY <1>1, <2>1, Owes
  <1>4. Pending'[t] = Pending[t] - 1 BY <1>2, <1>3
  <1> QED BY <1>1, <1>2, <1>4, CallStep

\* A stage is passed, deciding d writes.
LEMMA PassedInv ==
  ASSUME CallInv, NEW t \in Threads, NEW stage \in Stages \ {"idle"}, Goto(t, stage), op' = op, NEW d \in {0, 1},
         d = Owed(at[t], op[t].kind)
             - Owed(stage, op[t].kind),
         UNCHANGED <<signal, provider, handles>>, health' \in HealthType, silent' \in Nat, lost' \in Nat,
         health'.begun = health.begun,
         health'.emitted + health'.dropped + silent' + lost' = health.emitted + health.dropped + silent + lost + d
  PROVE  CallInv'
  <1>1. CallsSound /\ handles' \in [{"tally", "gauge"} -> HandleType] BY Numbers
  <1>2. /\ at' \in [Threads -> Stages] /\ op' \in [Threads -> OpType]
        /\ \A u \in Threads : at'[u] = "idle" => op'[u].more = 0
        /\ Pending \in [Threads -> Counts] /\ Pending' \in [Threads -> Counts]
        /\ \A u \in Threads : u # t => Pending'[u] = Pending[u]
    BY <1>1, StageMoves
  <1>3. Pending'[t] = Pending[t] - d
    <2>1. op[t].more \in Nat /\ Owed(at[t], op[t].kind) \in Nat /\ Owed(stage, op[t].kind) \in Nat
      BY <1>1, Owes DEF Owed
    <2>2. Pending'[t] = op[t].more + Owed(stage, op[t].kind)
      BY <1>1, StageMoves
    <2>3. Pending[t] = op[t].more + Owed(at[t], op[t].kind)
      BY <1>1, Owes
    <2> QED BY <2>1, <2>2, <2>3
  <1> QED BY <1>1, <1>2, <1>3, CallStep

\* A call begins n writes.
LEMMA ManyMore ==
  ASSUME NEW p \in [Threads -> Counts], NEW q \in [Threads -> Counts], NEW t \in Threads, NEW n \in {1, 2, 3},
         \A u \in Threads : u # t => q[u] = p[u], p[t] = 0, q[t] = n
  PROVE  Cardinality(Writes(q)) = Cardinality(Writes(p)) + n
  <1>f. \A f : Cardinality(Writes(f)) \in Nat BY WritesFinite
  <1> DEFINE one == [p EXCEPT ![t] = 1]
             two == [p EXCEPT ![t] = 2]
  <1>1. /\ one \in [Threads -> Counts] /\ two \in [Threads -> Counts] /\ one[t] = 1 /\ two[t] = 2
        /\ \A u \in Threads : u # t => one[u] = p[u] /\ two[u] = p[u]
    BY DEF Counts
  <1> HIDE DEF one, two
  <1>2. Cardinality(Writes(p)) = Cardinality(Writes(one)) - 1
    <2>1. p[t] = one[t] - 1 BY <1>1
    <2> QED BY <1>1, <2>1, OneLess
  <1>3. Cardinality(Writes(one)) = Cardinality(Writes(two)) - 1
    <2>1. one[t] = two[t] - 1 BY <1>1
    <2>2. \A u \in Threads : u # t => one[u] = two[u] BY <1>1
    <2> QED BY <1>1, <2>1, <2>2, OneLess
  <1>4. CASE n = 1
    <2>1. p[t] = q[t] - 1 BY <1>4
    <2>2. Cardinality(Writes(p)) = Cardinality(Writes(q)) - 1 BY <2>1, OneLess
    <2> QED BY <1>f, <1>4, <2>2
  <1>5. CASE n = 2
    <2>1. one[t] = q[t] - 1 BY <1>1, <1>5
    <2>2. \A u \in Threads : u # t => one[u] = q[u] BY <1>1
    <2>3. Cardinality(Writes(one)) = Cardinality(Writes(q)) - 1 BY <1>1, <2>1, <2>2, OneLess
    <2> QED BY <1>f, <1>2, <1>5, <2>3
  <1>6. CASE n = 3
    <2>1. two[t] = q[t] - 1 BY <1>1, <1>6
    <2>2. \A u \in Threads : u # t => two[u] = q[u] BY <1>1
    <2>3. Cardinality(Writes(two)) = Cardinality(Writes(q)) - 1 BY <1>1, <2>1, <2>2, OneLess
    <2> QED BY <1>f, <1>2, <1>3, <1>6, <2>3
  <1> QED BY <1>4, <1>5, <1>6

LEMMA BeginInv ==
  ASSUME CallInv, NEW t \in Threads, NEW n \in {1, 2, 3}, NEW o \in OpType, o.more = n - 1,
         at[t] = "idle", Goto(t, "consent"), op' = [op EXCEPT ![t] = o], Count("begun", n),
         UNCHANGED <<signal, provider, handles, silent, lost>>
  PROVE  CallInv'
  <1>1. /\ CallsSound /\ health.begun \in Nat /\ health.emitted \in Nat /\ health.dropped \in Nat
        /\ silent \in Nat /\ lost \in Nat
    BY Numbers
  <1>2. "consent" \in Stages BY DEF Stages
  <1>3. /\ at' \in [Threads -> Stages] /\ op' \in [Threads -> OpType] /\ at'[t] = "consent" /\ op'[t] = o
        /\ \A u \in Threads : u # t => at'[u] = at[u] /\ op'[u] = op[u]
    BY <1>1, <1>2 DEF Goto, CallsSound
  <1>4. Owed("consent", o.kind) = 1 /\ Owed("idle", op[t].kind) = 0 BY DEF Owed
  <1>5. /\ \A u \in Threads : at'[u] = "idle" => op'[u].more = 0
        /\ Pending \in [Threads -> Counts] /\ Pending' \in [Threads -> Counts]
        /\ \A u \in Threads : u # t => Pending'[u] = Pending[u]
        /\ Pending'[t] = o.more + Owed("consent", o.kind)
    BY <1>1, <1>3, CallMoves
  <1>6. op[t].more = 0 BY <1>1 DEF CallsSound
  <1>7. Pending[t] = 0 BY <1>1, <1>4, <1>6, Owes
  <1>8. Pending'[t] = n BY <1>4, <1>5
  <1>9. Cardinality(Writes(Pending')) = Cardinality(Writes(Pending)) + n BY <1>5, <1>7, <1>8, ManyMore
  <1>10. n \in Nat OBVIOUS
  <1>11. /\ health' \in HealthType /\ health'.begun = health.begun + n /\ health'.emitted = health.emitted
         /\ health'.dropped = health.dropped
    BY <1>1, <1>10, CountType
  <1>12. CallsSound' BY <1>1, <1>3, <1>5, <1>11 DEF CallsSound
  <1>13. AccountedOnce'
    <2>1. Cardinality(Writes(Pending)) \in Nat BY WritesFinite
    <2>2. health.begun = health.emitted + health.dropped + silent + lost + Cardinality(Writes(Pending))
      BY DEF CallInv, AccountedOnce
    <2>3. health'.begun = health'.emitted + health'.dropped + silent' + lost' + Cardinality(Writes(Pending'))
      BY <1>1, <1>9, <1>10, <1>11, <2>1, <2>2
    <2>4. Cardinality(Writes(Pending')) = Cardinality(Writes(Pending))' BY DEF Writes
    <2> QED BY <2>3, <2>4 DEF AccountedOnce
  <1> QED BY <1>12, <1>13 DEF CallInv

\* The handle is resolved: what is owed stays.
LEMMA HandleInv ==
  ASSUME CallInv, NEW t \in Threads, NEW stage \in {"bind", "guard"}, Goto(t, stage), NEW x \in Nat,
         op' = [op EXCEPT ![t].handle = x], Owed(stage, op[t].kind) = Owed(at[t], op[t].kind),
         UNCHANGED <<signal, provider, health, silent, lost>>, handles' \in [{"tally", "gauge"} -> HandleType]
  PROVE  CallInv'
  <1> DEFINE o == [op[t] EXCEPT !.handle = x]
  <1>1. /\ CallsSound /\ health \in HealthType /\ health.emitted \in Nat /\ health.dropped \in Nat
        /\ silent \in Nat /\ lost \in Nat
    BY Numbers
  <1>2. op[t] \in OpType BY <1>1 DEF CallsSound
  <1>3. o \in OpType /\ o.kind = op[t].kind /\ o.more = op[t].more BY <1>2 DEF OpType
  <1>4. op' = [op EXCEPT ![t] = o] BY <1>1 DEF CallsSound
  <1> HIDE DEF o
  <1>5. stage \in Stages /\ stage # "idle" BY DEF Stages
  <1>6. /\ at' \in [Threads -> Stages] /\ op' \in [Threads -> OpType] /\ at'[t] = stage /\ op'[t] = o
        /\ \A u \in Threads : u # t => at'[u] = at[u] /\ op'[u] = op[u]
    BY <1>1, <1>3, <1>4, <1>5 DEF Goto, CallsSound
  <1>7. /\ \A u \in Threads : at'[u] = "idle" => op'[u].more = 0
        /\ Pending \in [Threads -> Counts] /\ Pending' \in [Threads -> Counts]
        /\ \A u \in Threads : u # t => Pending'[u] = Pending[u]
        /\ Pending'[t] = o.more + Owed(stage, o.kind)
    BY <1>1, <1>5, <1>6, CallMoves
  <1>8. Pending'[t] = Pending[t] BY <1>1, <1>3, <1>7, Owes
  <1>9. Pending'[t] = Pending[t] - 0
    <2>1. Pending[t] \in Int BY <1>7 DEF Counts
    <2> QED BY <1>8, <2>1
  <1>10. health'.emitted + health'.dropped + silent' + lost' = health.emitted + health.dropped + silent + lost + 0
    BY <1>1
  <1> QED BY <1>1, <1>6, <1>7, <1>9, <1>10, CallStep

\* What a caller may ask for.
LEMMA RequestFacts ==
  ASSUME signal \in {"logs", "traces", "metrics"}, NEW c \in Requests
  PROVE  c.kind \in Kinds /\ c.severity \in Severities /\ c.amount \in Int /\ c.value \in Values
  <1>1. CASE signal = "logs"
    <2>1. c \in [kind : {"log"}, severity : Severities, amount : {0}, value : {Overflow}]
      BY <1>1 DEF Requests
    <2> QED BY <2>1 DEF Kinds, Values
  <1>2. CASE signal = "traces"
    <2>1. c \in [kind : {"span"}, severity : {"INFO"}, amount : {0}, value : {Overflow}]
      BY <1>2 DEF Requests
    <2> QED BY <2>1 DEF Kinds, Severities, Values
  <1>3. CASE signal = "metrics"
    <2>1. \/ c \in [kind : {"tally"}, severity : {"INFO"}, amount : {0}, value : AttrValues]
          \/ c \in [kind : {"add"}, severity : {"INFO"}, amount : {1}, value : AttrValues]
          \/ c \in [kind : {"set"}, severity : {"INFO"}, amount : {2}, value : AttrValues]
      BY <1>3 DEF Requests
    <2> QED BY <2>1 DEF Kinds, Severities, Values
  <1> QED BY <1>1, <1>2, <1>3

\* A call, or the writes of record_red_metrics, begin.
LEMMA CallBegins ==
  ASSUME CallInv, NEW t \in Threads, NEW c \in Requests, Call(t, c.kind, c.severity, c.amount, c.value)
  PROVE  CallInv'
  <1> DEFINE o == [Idle EXCEPT !.kind = c.kind, !.severity = c.severity, !.amount = c.amount, !.value = c.value]
  <1>1. c.kind \in Kinds /\ c.severity \in Severities /\ c.amount \in Int /\ c.value \in Values
    BY RequestFacts DEF CallInv, CallsSound
  <1>2. o \in OpType /\ o.more = 0 BY <1>1, IdleType DEF OpType
  <1>3. /\ at[t] = "idle" /\ Goto(t, "consent") /\ op' = [op EXCEPT ![t] = o] /\ Count("begun", 1)
        /\ UNCHANGED <<signal, provider, handles, silent, lost>>
    BY DEF Call, policy, history
  <1> HIDE DEF o
  <1>4. o.more = 1 - 1 BY <1>2
  <1> QED BY <1>2, <1>3, <1>4, BeginInv

LEMMA RedBegins ==
  ASSUME CallInv, NEW t \in Threads, NEW failed \in BOOLEAN, NEW v \in AttrValues, RecordRed(t, failed, v)
  PROVE  CallInv'
  <1> DEFINE n == IF failed THEN 3 ELSE 2
             left == n - 1
             o == [Idle EXCEPT !.kind = "tally", !.value = v, !.more = left]
  <1>1. n \in {1, 2, 3} /\ left \in Left /\ left = n - 1 BY DEF Left
  <1>2. /\ at[t] = "idle" /\ Goto(t, "consent") /\ op' = [op EXCEPT ![t] = o] /\ Count("begun", n)
        /\ UNCHANGED <<signal, provider, handles, silent, lost>>
    BY DEF RecordRed, policy, history
  <1>3. "tally" \in Kinds /\ v \in Values BY DEF Kinds, Values
  <1> HIDE DEF n, left
  <1>4. o \in OpType /\ o.more = left BY <1>1, <1>3, IdleType DEF OpType
  <1> HIDE DEF o
  <1> QED BY <1>1, <1>2, <1>4, BeginInv

\* The gates.
LEMMA GatesInv ==
  ASSUME CallInv, NEW t \in Threads, Gates(t)
  PROVE  CallInv'
  <1>n. /\ CallsSound /\ health \in HealthType /\ health.begun \in Nat /\ health.emitted \in Nat
        /\ health.dropped \in Nat /\ silent \in Nat /\ lost \in Nat
    BY Numbers
  <1>s. {"sample", "queue", "work"} \subseteq Stages \ {"idle"} BY DEF Stages
  <1>p. ASSUME NEW stage \in {"sample", "queue", "work"}, Goto(t, stage),
               at[t] \in {"consent", "sample", "queue", "work"},
               UNCHANGED <<op, signal, provider, handles, health, silent, lost>>
        PROVE  CallInv'
    <2>1. Owed(at[t], op[t].kind) = 1 /\ Owed(stage, op[t].kind) = 1 BY <1>p DEF Owed
    <2>2. 0 = Owed(at[t], op[t].kind) - Owed(stage, op[t].kind) BY <2>1
    <2>3. health'.emitted + health'.dropped + silent' + lost' = health.emitted + health.dropped + silent + lost + 0
      BY <1>n, <1>p
    <2> QED BY <1>n, <1>s, <1>p, <2>2, <2>3, PassedInv
  <1>d. ASSUME Refused(t), Count("dropped", 1), at[t] \in {"consent", "sample", "queue", "work"},
               UNCHANGED <<signal, provider, handles, silent, lost>>
        PROVE  CallInv'
    <2>1. /\ health' \in HealthType /\ health'.begun = health.begun /\ health'.emitted = health.emitted
          /\ health'.dropped = health.dropped + 1
      BY <1>n, <1>d, CountType
    <2>2. health'.emitted + health'.dropped + silent' + lost' = health.emitted + health.dropped + silent + lost + 1
      BY <1>n, <1>d, <2>1
    <2> QED BY <1>n, <1>d, <2>1, <2>2, RefusedInv
  <1>1. CASE Consent(t)
    <2>1. at[t] = "consent" /\ UNCHANGED <<signal, provider, handles, lost>> BY <1>1 DEF Consent, policy
    <2>2. CASE ShouldAllow(op[t].severity)
      <3>1. Goto(t, "sample") /\ UNCHANGED <<op, health, silent>> BY <1>1, <2>2 DEF Consent
      <3> QED BY <1>p, <2>1, <3>1
    <2>3. CASE ~ShouldAllow(op[t].severity) /\ signal = "logs"
      <3>1. Refused(t) /\ Count("dropped", 1) /\ silent' = silent + 0 BY <1>1, <2>3 DEF Consent
      <3>2. silent' = silent BY <1>n, <3>1
      <3> QED BY <1>d, <2>1, <3>1, <3>2
    <2>4. CASE ~ShouldAllow(op[t].severity) /\ signal # "logs"
      <3>1. Refused(t) /\ Count("dropped", 0) /\ silent' = silent + 1 BY <1>1, <2>4 DEF Consent
      <3>2. /\ health' \in HealthType /\ health'.begun = health.begun /\ health'.emitted = health.emitted
            /\ health'.dropped = health.dropped + 0
        BY <1>n, <3>1, CountType
      <3>3. /\ health'.emitted + health'.dropped + silent' + lost'
               = health.emitted + health.dropped + silent + lost + 1
            /\ silent' \in Nat /\ lost' \in Nat
        BY <1>n, <2>1, <3>1, <3>2
      <3> QED BY <2>1, <3>1, <3>2, <3>3, RefusedInv
    <2> QED BY <2>2, <2>3, <2>4
  <1>2. ASSUME NEW keep \in BOOLEAN, Sample(t, keep) PROVE CallInv'
    <2>1. at[t] = "sample" /\ UNCHANGED <<signal, provider, handles, silent, lost>>
      BY <1>2 DEF Sample, policy, history
    <2>2. \/ Goto(t, "queue") /\ UNCHANGED <<op, health>>
          \/ Refused(t) /\ Count("dropped", 1)
      BY <1>2 DEF Sample
    <2> QED BY <1>p, <1>d, <2>1, <2>2
  <1>3. CASE QueueFull(t)
    <2>1. /\ at[t] = "queue" /\ Refused(t) /\ Count("dropped", 1)
          /\ UNCHANGED <<signal, provider, handles, silent, lost>>
      BY <1>3 DEF QueueFull, policy, history
    <2> QED BY <1>d, <2>1
  <1>4. CASE QueueLimit(t)
    <2>1. UNCHANGED <<at, op, handles, health, silent, lost, signal, provider>>
      BY <1>4 DEF QueueLimit, policy, history
    <2>2. provider' \in Nat BY <1>n, <2>1 DEF CallsSound
    <2> QED BY <2>1, <2>2, CallsAlone
  <1>5. CASE Admitted(t)
    <2>1. at[t] = "queue" /\ Goto(t, "work") /\ UNCHANGED <<op, signal, provider, handles, health, silent, lost>>
      BY <1>5 DEF Admitted, policy, history
    <2> QED BY <1>p, <2>1
  <1> QED BY <1>1, <1>2, <1>3, <1>4, <1>5 DEF Gates

\* The work under the ticket.
LEMMA WorkInv ==
  ASSUME CallInv, NEW t \in Threads, Work(t)
  PROVE  CallInv'
  <1>n. /\ CallsSound /\ health \in HealthType /\ health.begun \in Nat /\ health.emitted \in Nat
        /\ health.dropped \in Nat /\ silent \in Nat /\ lost \in Nat /\ provider \in Nat
        /\ handles \in [{"tally", "gauge"} -> HandleType]
    BY Numbers DEF CallsSound
  <1>s. {"resolve", "finish"} \subseteq Stages \ {"idle"} BY DEF Stages
  <1>e. ASSUME NEW stage \in {"resolve", "finish"}, Goto(t, stage), Count("emitted", 1), at[t] = "work",
               stage = "resolve" => op[t].kind = "tally",
               UNCHANGED <<op, signal, provider, handles, silent, lost>>
        PROVE  CallInv'
    <2>1. Owed(at[t], op[t].kind) = 1 /\ Owed(stage, op[t].kind) = 0 BY <1>e DEF Owed
    <2>2. 1 = Owed(at[t], op[t].kind) - Owed(stage, op[t].kind) BY <2>1
    <2>3. /\ health' \in HealthType /\ health'.begun = health.begun /\ health'.dropped = health.dropped
          /\ health'.emitted = health.emitted + 1
      BY <1>n, <1>e, CountType
    <2>4. health'.emitted + health'.dropped + silent' + lost' = health.emitted + health.dropped + silent + lost + 1
      BY <1>n, <1>e, <2>3
    <2> QED BY <1>n, <1>s, <1>e, <2>2, <2>3, <2>4, PassedInv
  <1>f. ASSUME Goto(t, "finish"), at[t] = "guard", ~IsGauge(t),
               UNCHANGED <<op, signal, provider, handles, health, silent, lost>>
        PROVE  CallInv'
    <2>1. Owed(at[t], op[t].kind) = 0 /\ Owed("finish", op[t].kind) = 0 BY <1>f DEF Owed, IsGauge
    <2>2. 0 = Owed(at[t], op[t].kind) - Owed("finish", op[t].kind) BY <2>1
    <2>3. health'.emitted + health'.dropped + silent' + lost' = health.emitted + health.dropped + silent + lost + 0
      BY <1>n, <1>f
    <2> QED BY <1>n, <1>s, <1>f, <2>2, <2>3, PassedInv
  <1>1. CASE OpenSpan(t) BY <1>1, <1>e DEF OpenSpan, policy, history
  <1>2. CASE Tally(t) BY <1>2, <1>e DEF Tally, policy, history
  <1>3. CASE LogRecord(t) BY <1>3, <1>e DEF LogRecord, policy, history
  <1>4. CASE LogRaises(t)
    <2>1. /\ at[t] = "work" /\ Refused(t) /\ lost' = lost + 1
          /\ UNCHANGED <<signal, provider, handles, health, silent>>
      BY <1>4 DEF LogRaises, policy
    <2>2. /\ lost' \in Nat
          /\ health'.emitted + health'.dropped + silent' + lost'
               = health.emitted + health.dropped + silent + lost + 1
      BY <1>n, <2>1
    <2> QED BY <1>n, <2>1, <2>2, RefusedInv
  <1>5. CASE Resolve(t)
    <2> DEFINE known == handles[Instrument(t)]
    <2>1. UNCHANGED <<signal, provider, handles, health, silent, lost>> BY <1>5 DEF Resolve, policy, history
    <2>2. known.handle \in Nat BY <1>n DEF HandleType, Instrument
    <2>3. \E stage \in {"bind", "guard"}, x \in Nat : Goto(t, stage) /\ op' = [op EXCEPT ![t].handle = x]
      BY <1>n, <1>5, <2>2 DEF Resolve
    <2>4. PICK stage \in {"bind", "guard"}, x \in Nat : Goto(t, stage) /\ op' = [op EXCEPT ![t].handle = x]
      BY <2>3
    <2>5. at[t] = "resolve" \/ (at[t] = "work" /\ IsGauge(t)) BY <1>5 DEF Resolve
    <2>6. Owed(stage, op[t].kind) = Owed(at[t], op[t].kind) BY <2>5 DEF Owed, IsGauge
    <2> QED BY <1>n, <2>1, <2>4, <2>6, HandleInv
  <1>6. ASSUME NEW fails \in BOOLEAN, Bind(t, fails) PROVE CallInv'
    <2> DEFINE known == handles[Instrument(t)]
               made == IF fails THEN 0 ELSE op[t].handle
               new == [resolved |-> TRUE, handle |-> made]
    <2>1. at[t] = "bind" /\ Goto(t, "guard") /\ UNCHANGED <<signal, provider, health, silent, lost>>
      BY <1>6 DEF Bind, policy, history
    <2>2. Instrument(t) \in {"tally", "gauge"} BY DEF Instrument
    <2>3. known.handle \in Nat BY <1>n, <2>2 DEF HandleType
    <2>4. op[t].handle \in Nat BY <1>n DEF CallsSound, OpType
    <2>5. made \in Nat BY <2>4
    <2>6. new \in HandleType BY <2>5 DEF HandleType
    <2>7. Owed("guard", op[t].kind) = Owed(at[t], op[t].kind) BY <2>1 DEF Owed
    <2>8. CASE known.resolved
      <3>1. op' = [op EXCEPT ![t].handle = known.handle] /\ handles' = handles BY <1>6, <2>8 DEF Bind
      <3> QED BY <1>n, <2>1, <2>3, <2>7, <3>1, HandleInv
    <2>9. CASE ~known.resolved
      <3>1. op' = [op EXCEPT ![t].handle = made] /\ handles' = [handles EXCEPT ![Instrument(t)] = new]
        BY <1>6, <2>9 DEF Bind
      <3>2. handles' \in [{"tally", "gauge"} -> HandleType]
        <4> HIDE DEF new
        <4> QED BY <1>n, <2>2, <2>6, <3>1
      <3> HIDE DEF made, new
      <3> QED BY <2>1, <2>5, <2>7, <3>1, <3>2, HandleInv
    <2> QED BY <2>8, <2>9
  <1>7. CASE SkipExport(t) BY <1>7, <1>f DEF SkipExport, policy, history
  <1>8. CASE Guard(t)
    <2>1. UNCHANGED <<at, op, handles, health, silent, lost, signal, provider>> BY <1>8 DEF Guard, policy, history
    <2> QED BY <1>n, <2>1, CallsAlone
  <1>9. CASE Export(t) BY <1>9, <1>f DEF Export, policy, history
  <1>10. ASSUME NEW raises \in BOOLEAN, StoreGauge(t, raises) PROVE CallInv'
    <2> DEFINE counted == IF raises THEN 0 ELSE 1
               gone == IF raises THEN 1 ELSE 0
    <2>1. /\ at[t] = "guard" /\ IsGauge(t) /\ Goto(t, "finish") /\ Count("emitted", counted)
          /\ lost' = lost + gone /\ UNCHANGED <<op, signal, provider, handles, silent>>
      BY <1>10 DEF StoreGauge, policy
    <2>2. counted \in Nat /\ gone \in Nat /\ counted + gone = 1 OBVIOUS
    <2> HIDE DEF counted, gone
    <2>3. Owed(at[t], op[t].kind) = 1 /\ Owed("finish", op[t].kind) = 0 BY <2>1 DEF Owed, IsGauge
    <2>4. 1 = Owed(at[t], op[t].kind) - Owed("finish", op[t].kind) BY <2>3
    <2>5. /\ health' \in HealthType /\ health'.begun = health.begun /\ health'.dropped = health.dropped
          /\ health'.emitted = health.emitted + counted
      BY <1>n, <2>1, <2>2, CountType
    <2>6. /\ lost' \in Nat
          /\ health'.emitted + health'.dropped + silent' + lost'
               = health.emitted + health.dropped + silent + lost + 1
      BY <1>n, <2>1, <2>2, <2>5
    <2> QED BY <1>n, <1>s, <2>1, <2>4, <2>5, <2>6, PassedInv
  <1>11. CASE Finish(t)
    <2>1. at[t] = "finish" /\ Refused(t) /\ UNCHANGED <<signal, provider, handles, health, silent, lost>>
      BY <1>11 DEF Finish, policy, history
    <2>2. /\ at' \in [Threads -> Stages] /\ op' \in [Threads -> OpType]
          /\ \A u \in Threads : at'[u] = "idle" => op'[u].more = 0
          /\ Pending \in [Threads -> Counts] /\ Pending' \in [Threads -> Counts]
          /\ \A u \in Threads : u # t => Pending'[u] = Pending[u]
          /\ Pending'[t] = op[t].more
      BY <1>n, <2>1, RefusedMoves
    <2>3. Owed(at[t], op[t].kind) = 0 BY <2>1 DEF Owed
    <2>4. Pending'[t] = Pending[t] - 0 BY <1>n, <2>2, <2>3, Owes
    <2>5. health'.emitted + health'.dropped + silent' + lost' = health.emitted + health.dropped + silent + lost + 0
      BY <1>n, <2>1
    <2> QED BY <1>n, <2>1, <2>2, <2>4, <2>5, CallStep
  <1> QED BY <1>1, <1>2, <1>3, <1>4, <1>5, <1>6, <1>7, <1>8, <1>9, <1>10, <1>11 DEF Work

\* A collection of an observable instrument begins and ends one write.
LEMMA CollectInv ==
  ASSUME CallInv, Collect
  PROVE  CallInv'
  <1>1. /\ CallsSound /\ health \in HealthType /\ health.begun \in Nat /\ health.emitted \in Nat
        /\ health.dropped \in Nat /\ silent \in Nat /\ lost \in Nat
    BY Numbers
  <1>2. /\ health' = [health EXCEPT !.begun = @ + 1, !.emitted = @ + 1]
        /\ UNCHANGED <<signal, provider, at, op, handles, silent, lost>>
    BY DEF Collect, policy, history
  <1>3. /\ health' \in HealthType /\ health'.begun = health.begun + 1 /\ health'.emitted = health.emitted + 1
        /\ health'.dropped = health.dropped
    <2>1. PICK b \in Nat, e \in Nat : b = health.begun + 1 /\ e = health.emitted + 1 BY <1>1
    <2>2. health' = [health EXCEPT !.begun = b, !.emitted = e] BY <1>2, <2>1
    <2>3. /\ health' \in HealthType /\ health'.begun = b /\ health'.emitted = e
          /\ health'.dropped = health.dropped
      BY <1>1, <2>2 DEF HealthType
    <2> QED BY <2>1, <2>3
  <1>4. CallsSound' BY <1>1, <1>2, <1>3 DEF CallsSound
  <1>5. Pending' = Pending BY <1>2 DEF Pending, Undecided, IsGauge
  <1>6. AccountedOnce'
    <2>1. Cardinality(Writes(Pending)) \in Nat BY WritesFinite
    <2>2. Cardinality(Writes(Pending))' = Cardinality(Writes(Pending)) BY <1>5 DEF Writes
    <2>3. health.begun = health.emitted + health.dropped + silent + lost + Cardinality(Writes(Pending))
      BY DEF CallInv, AccountedOnce
    <2> QED BY <1>1, <1>2, <1>3, <2>1, <2>2, <2>3 DEF AccountedOnce
  <1> QED BY <1>4, <1>6 DEF CallInv

\* Every step keeps the account.
LEMMA CallInvStep == CallInv /\ [EmissionNext]_emissionVars => CallInv'
  <1> SUFFICES ASSUME CallInv, [EmissionNext]_emissionVars PROVE CallInv' OBVIOUS
  <1>p. provider \in Nat BY DEF CallInv, CallsSound
  <1>1. CASE Environment
    <2>1. /\ UNCHANGED <<at, op, handles, health, silent, lost, signal>>
          /\ provider' = provider \/ provider' \in 0 .. MaxMeters
      BY <1>1 DEF Environment, SetConsentLevel, LoadConsentFromEnv, SetSamplingPolicy, SetProvider,
                  others, policy, history
    <2>2. provider' \in Nat
      <3>1. MaxMeters \in Nat BY EmissionAssumption
      <3> QED BY <1>p, <2>1, <3>1
    <2> QED BY <2>1, <2>2, CallsAlone
  <1>2. CASE Calls
    <2>1. CASE Collect BY <2>1, CollectInv
    <2>2. ASSUME NEW on \in BOOLEAN, Observe(on) PROVE CallInv'
      <3>1. UNCHANGED <<at, op, handles, health, silent, lost, signal, provider>> BY <2>2 DEF Observe, history
      <3> QED BY <1>p, <3>1, CallsAlone
    <2> QED BY <1>2, <2>1, <2>2, GatesInv, WorkInv, CallBegins, RedBegins DEF Calls
  <1>3. CASE UNCHANGED emissionVars
    <2>1. UNCHANGED <<at, op, handles, health, silent, lost, signal, provider>> BY <1>3 DEF emissionVars
    <2> QED BY <1>p, <2>1, CallsAlone
  <1> QED BY <1>1, <1>2, <1>3 DEF EmissionNext

LEMMA CallInvInit == EmissionInit => CallInv
  <1> SUFFICES ASSUME EmissionInit PROVE CallInv OBVIOUS
  <1>1. CallsSound
    <2>1. "idle" \in Stages /\ 0 \in Nat BY DEF Stages
    <2>2. /\ at \in [Threads -> Stages] /\ op \in [Threads -> OpType]
          /\ \A t \in Threads : at[t] = "idle" /\ op[t] = Idle
      BY <2>1, IdleType DEF EmissionInit
    <2>3. handles \in [{"tally", "gauge"} -> HandleType] BY DEF EmissionInit, HandleType
    <2>4. health \in HealthType BY DEF EmissionInit, HealthType
    <2> QED BY <2>2, <2>3, <2>4, IdleType DEF EmissionInit, CallsSound
  <1>2. Writes(Pending) = {}
    <2>1. \A t \in Threads : Pending[t] = 0
      <3>1. \A t \in Threads : op[t] = Idle /\ at[t] = "idle" BY DEF EmissionInit
      <3>2. \A t \in Threads : Pending[t] = op[t].more + (IF Undecided(t) THEN 1 ELSE 0)
        BY <1>1, PendingFacts DEF CallsSound
      <3>3. \A t \in Threads : ~Undecided(t) BY <3>1 DEF Undecided
      <3> QED BY <3>1, <3>2, <3>3, IdleType
    <2>2. ASSUME NEW w \in Threads \X (1 .. 3) PROVE ~(w[2] <= Pending[w[1]])
      <3>1. w[1] \in Threads /\ w[2] \in 1 .. 3 OBVIOUS
      <3> QED BY <2>1, <3>1
    <2> QED BY <2>2 DEF Writes
  <1>3. AccountedOnce
    <2>1. Cardinality(Writes(Pending)) = 0 BY <1>2, FS_EmptySet
    <2> QED BY <2>1 DEF EmissionInit, AccountedOnce
  <1> QED BY <1>1, <1>3 DEF CallInv
-----------------------------------------------------------------------------
(* Slots                                                                   *)

\* A step of the queue under which no call loses its ticket.
LEMMA QueueStep ==
  ASSUME SlotInv, [Next]_vars, stranded' = stranded
  PROVE  SlotInv'
  <1>1. Core' BY CoreStep DEF SlotInv
  <1>2. TypeOK BY DEF SlotInv, Core
  <1>3. CASE queue' = {} BY <1>1, <1>3 DEF SlotInv, SlotsHeld
  <1>4. CASE queue' # {}
    <2>1. /\ resets' = resets
          /\ \A k \in queue' :
               \/ \E u \in Holding' : ticket'[u] = k /\ epoch'[u] = resets'
               \/ /\ k \in queue
                  /\ \A u \in Holding : ticket[u] = k =>
                        u \in Holding' /\ ticket'[u] = k /\ epoch'[u] = epoch[u]
      BY <1>2, <1>4, SlotStep
    <2>2. \A k \in queue : \/ <<resets, k>> \in stranded
                           \/ \E t \in Holding : ticket[t] = k /\ epoch[t] = resets
      BY DEF SlotInv, SlotsHeld
    <2>3. ASSUME NEW k \in queue'
          PROVE  <<resets', k>> \in stranded' \/ \E u \in Holding' : ticket'[u] = k /\ epoch'[u] = resets'
      BY <2>1, <2>2
    <2> QED BY <1>1, <2>3 DEF SlotInv, SlotsHeld
  <1> QED BY <1>3, <1>4

\* A log stage raises: the ticket is gone and its token stranded.
LEMMA LogRaisesSlots ==
  ASSUME SlotInv, NEW t \in Threads, LogRaises(t)
  PROVE  SlotInv'
  <1>t. TypeOK /\ TokensHandedOut /\ TicketsDistinct /\ WithinLargestLimit BY DEF SlotInv, Core
  <1>1. /\ pc' = [pc EXCEPT ![t] = "idle"] /\ ticket' = [ticket EXCEPT ![t] = 0]
        /\ stranded' = IF ticket[t] = 0 THEN stranded ELSE stranded \cup {<<resets, ticket[t]>>}
        /\ UNCHANGED <<limit, queue, tokens, seen, resets, epoch, highest>>
    BY DEF LogRaises
  <1>2. /\ Holding' = Holding \ {t}
        /\ \A u \in Holding' : ticket'[u] = ticket[u] /\ epoch'[u] = epoch[u]
    BY <1>t, <1>1 DEF Holding, TypeOK
  <1>3. TypeOK'
    <2>1. 0 \in 0..MaxTokens BY Bounds
    <2>2. ticket' \in [Threads -> 0..MaxTokens] /\ pc' \in [Threads -> {"idle", "read", "holding"}]
      BY <1>t, <1>1, <2>1 DEF TypeOK
    <2> QED BY <1>t, <1>1, <2>2 DEF TypeOK
  <1>4. TokensHandedOut' /\ TicketsDistinct' /\ WithinLargestLimit'
    BY <1>t, <1>1, <1>2 DEF TokensHandedOut, TicketsDistinct, WithinLargestLimit
  <1>5. ASSUME NEW k \in queue'
        PROVE  <<resets', k>> \in stranded' \/ \E u \in Holding' : ticket'[u] = k /\ epoch'[u] = resets'
    <2>1. CASE <<resets, k>> \in stranded BY <1>1, <2>1
    <2>2. ASSUME NEW u \in Holding, ticket[u] = k, epoch[u] = resets
          PROVE  <<resets', k>> \in stranded' \/ \E v \in Holding' : ticket'[v] = k /\ epoch'[v] = resets'
      <3>1. CASE u = t
        <4>1. ticket[t] # 0 BY <3>1 DEF Holding
        <4> QED BY <1>1, <2>2, <3>1, <4>1
      <3>2. CASE u # t BY <1>1, <1>2, <2>2, <3>2
      <3> QED BY <3>1, <3>2
    <2> QED BY <1>1, <2>1, <2>2 DEF SlotInv, SlotsHeld
  <1> QED BY <1>3, <1>4, <1>5 DEF SlotInv, Core, SlotsHeld

\* Every step keeps the slots accounted for.
LEMMA SlotInvStep == SlotInv /\ [EmissionNext]_emissionVars => SlotInv'
  <1> SUFFICES ASSUME SlotInv, [EmissionNext]_emissionVars PROVE SlotInv' OBVIOUS
  <1>u. ASSUME UNCHANGED <<queues, stranded>> PROVE SlotInv' BY <1>u, QueueStep DEF queues
  <1>1. CASE Environment
    <2>1. \/ UNCHANGED <<queues, stranded>>
          \/ (\E m \in Limits : SetQueuePolicy(m)) /\ stranded' = stranded
          \/ Reset /\ stranded' = stranded
      BY <1>1 DEF Environment, SetConsentLevel, LoadConsentFromEnv, SetSamplingPolicy, SetProvider, others, history
    <2> QED BY <1>u, <2>1, QueueStep DEF Next
  <1>2. ASSUME NEW t \in Threads, Gates(t) PROVE SlotInv'
    <2>1. stranded' = stranded /\ (UNCHANGED queues \/ Emit(t))
      BY <1>2 DEF Gates, Consent, Sample, QueueFull, QueueLimit, Admitted, Emit, history
    <2> QED BY <1>u, <2>1, QueueStep DEF Next
  <1>3. ASSUME NEW t \in Threads, Work(t) PROVE SlotInv'
    <2>1. CASE LogRaises(t) BY <2>1, LogRaisesSlots
    <2>2. CASE ~LogRaises(t)
      <3>1. stranded' = stranded /\ (UNCHANGED queues \/ Release(t))
        BY <1>3, <2>2
        DEF Work, OpenSpan, Tally, LogRecord, Resolve, Bind, SkipExport, Guard, Export, StoreGauge, Finish, history
      <3> QED BY <1>u, <3>1, QueueStep DEF Next
    <2> QED BY <2>1, <2>2
  <1>4. CASE Calls
    <2>1. UNCHANGED <<queues, stranded>> \/ \E t \in Threads : Gates(t) \/ Work(t)
      BY <1>4 DEF Calls, Collect, Observe, Call, RecordRed, history
    <2> QED BY <1>u, <1>2, <1>3, <2>1
  <1>5. CASE UNCHANGED emissionVars BY <1>u, <1>5 DEF emissionVars, queues
  <1> QED BY <1>1, <1>4, <1>5 DEF EmissionNext

LEMMA SlotInvInit == EmissionInit => SlotInv
  BY InitCore DEF EmissionInit, SlotInv, SlotsHeld
-----------------------------------------------------------------------------
(* Attribute values                                                        *)

\* A value is forgotten only by clearing the limits or because it is expired now.
Forgets ==
  \A v \in DOMAIN lastSeen : v \in DOMAIN lastSeen' \/ maxValues' = 0 \/ lastSeen[v] + TTL < clock

\* A step that only moves one caller's local variables.
LEMMA CallerMoves ==
  ASSUME ValueInv, NEW t \in Threads, UNCHANGED <<limits, lastSeen>>,
         DOMAIN guard' = Threads, \A u \in Threads : u # t => guard'[u] = guard[u],
         Holds(guard'[t], clock)
  PROVE  ValueInv' /\ Forgets
  <1>1. \A u \in Threads : Holds(guard'[u], clock') BY DEF ValueInv, ValuesSound, limits
  <1>2. ValuesSound' BY <1>1 DEF ValueInv, ValuesSound, limits
  <1> QED BY <1>2 DEF ValueInv, WithinLimit, Forgets, limits

LEMMA GuardBeginKeeps == ASSUME ValueInv, NEW t \in Threads, NEW v, GuardBegin(t, v) PROVE ValueInv' /\ Forgets
  <1>1. DOMAIN guard = Threads /\ clock \in Nat BY DEF ValueInv, ValuesSound
  <1>2. /\ DOMAIN guard' = Threads /\ \A u \in Threads : u # t => guard'[u] = guard[u]
        /\ DOMAIN guard'[t] = GuardFields /\ guard'[t].now = clock
    BY <1>1 DEF GuardBegin, GuardFields
  <1>3. Holds(guard'[t], clock) BY <1>1, <1>2 DEF Holds
  <1> QED BY <1>2, <1>3, CallerMoves DEF GuardBegin

LEMMA GuardReturnKeeps == ASSUME ValueInv, NEW t \in Threads, GuardReturn(t) PROVE ValueInv' /\ Forgets
  <1>1. DOMAIN guard = Threads /\ clock \in Nat BY DEF ValueInv, ValuesSound
  <1>2. /\ DOMAIN guard' = Threads /\ \A u \in Threads : u # t => guard'[u] = guard[u]
        /\ DOMAIN guard'[t] = GuardFields /\ guard'[t].now = 0
    BY <1>1 DEF GuardReturn, GuardFields, Unguarded
  <1>3. Holds(guard'[t], clock) BY <1>1, <1>2 DEF Holds
  <1> QED BY <1>2, <1>3, CallerMoves DEF GuardReturn

LEMMA GuardCollectKeeps == ASSUME ValueInv, NEW t \in Threads, GuardCollect(t) PROVE ValueInv' /\ Forgets
  <1>1. DOMAIN guard = Threads /\ clock \in Nat /\ Holds(guard[t], clock) BY DEF ValueInv, ValuesSound
  <1>2. PICK stage, found : guard' = [guard EXCEPT ![t].at = stage]
                            \/ guard' = [guard EXCEPT ![t].expired = found, ![t].at = stage]
    BY DEF GuardCollect
  <1>3. /\ DOMAIN guard' = Threads /\ \A u \in Threads : u # t => guard'[u] = guard[u]
        /\ DOMAIN guard'[t] = GuardFields /\ guard'[t].now = guard[t].now
    BY <1>1, <1>2 DEF Holds, GuardFields
  <1>4. Holds(guard'[t], clock) BY <1>1, <1>3 DEF Holds
  <1> QED BY <1>3, <1>4, CallerMoves DEF GuardCollect

\* A caller that is deleting or recording keeps its reading of the clock.
LEMMA ClockKept ==
  ASSUME ValueInv, NEW t \in Threads, GuardDelete(t) \/ GuardRecord(t)
  PROVE  DOMAIN guard' = Threads /\ \A u \in Threads : Holds(guard'[u], clock')
  <1>1. DOMAIN guard = Threads /\ \A u \in Threads : Holds(guard[u], clock) BY DEF ValueInv, ValuesSound
  <1>2. PICK stage, value : guard' = [guard EXCEPT ![t].at = stage]
                            \/ guard' = [guard EXCEPT ![t].at = stage, ![t].value = value]
    BY DEF GuardDelete, GuardRecord
  <1>3. /\ DOMAIN guard' = Threads /\ \A u \in Threads : u # t => guard'[u] = guard[u]
        /\ DOMAIN guard'[t] = GuardFields /\ guard'[t].now = guard[t].now
    BY <1>1, <1>2 DEF Holds, GuardFields
  <1>4. clock' = clock BY DEF GuardDelete, GuardRecord, limits
  <1> QED BY <1>1, <1>3, <1>4 DEF Holds

LEMMA GuardDeleteKeeps == ASSUME ValueInv, NEW t \in Threads, GuardDelete(t) PROVE ValueInv' /\ Forgets
  <1>1. DOMAIN guard' = Threads /\ \A u \in Threads : Holds(guard'[u], clock') BY ClockKept
  <1>2. /\ maxValues \in Nat /\ largest \in Nat /\ clock \in Nat /\ maxValues <= largest
        /\ IsFiniteSet(DOMAIN lastSeen) /\ \A v \in DOMAIN lastSeen : lastSeen[v] \in Nat
        /\ guard[t].now \in Nat /\ guard[t].now <= clock /\ Cardinality(DOMAIN lastSeen) <= largest
    BY DEF ValueInv, ValuesSound, Holds, WithinLimit
  <1>3. UNCHANGED <<maxValues, clock, largest>> BY DEF GuardDelete, limits
  <1>4. PICK gone : \/ /\ gone \subseteq Expired(guard[t].now)
                       /\ lastSeen' = [v \in DOMAIN lastSeen \ gone |-> lastSeen[v]]
                    \/ lastSeen' = lastSeen
    BY DEF GuardDelete, Keep
  <1>5. DOMAIN lastSeen' \subseteq DOMAIN lastSeen /\ \A v \in DOMAIN lastSeen' : lastSeen'[v] = lastSeen[v] BY <1>4
  <1>6. IsFiniteSet(DOMAIN lastSeen') /\ Cardinality(DOMAIN lastSeen') <= Cardinality(DOMAIN lastSeen)
    BY <1>2, <1>5, FS_Subset
  <1>7. Cardinality(DOMAIN lastSeen') <= largest'
    <2>1. Cardinality(DOMAIN lastSeen) \in Nat /\ Cardinality(DOMAIN lastSeen') \in Nat
      BY <1>2, <1>6, FS_CardinalityType
    <2> QED BY <1>2, <1>3, <1>6, <2>1
  <1>8. ASSUME NEW v \in DOMAIN lastSeen, v \notin DOMAIN lastSeen' PROVE lastSeen[v] + TTL < clock
    <2>1. v \in Expired(guard[t].now) BY <1>4, <1>8
    <2>2. lastSeen[v] < guard[t].now - TTL BY <2>1 DEF Expired
    <2>3. TTL \in Nat BY CardinalityAssumption
    <2> QED BY <1>2, <2>2, <2>3
  <1>9. ValuesSound' BY <1>1, <1>2, <1>3, <1>5, <1>6 DEF ValuesSound
  <1> QED BY <1>7, <1>8, <1>9 DEF ValueInv, WithinLimit, Forgets

LEMMA GuardRecordKeeps == ASSUME ValueInv, NEW t \in Threads, GuardRecord(t) PROVE ValueInv' /\ Forgets
  <1>1. DOMAIN guard' = Threads /\ \A u \in Threads : Holds(guard'[u], clock') BY ClockKept
  <1>2. /\ maxValues \in Nat /\ largest \in Nat /\ clock \in Nat /\ maxValues <= largest
        /\ IsFiniteSet(DOMAIN lastSeen) /\ \A v \in DOMAIN lastSeen : lastSeen[v] \in Nat
        /\ guard[t].now \in Nat /\ Cardinality(DOMAIN lastSeen) <= largest
    BY DEF ValueInv, ValuesSound, Holds, WithinLimit
  <1>3. UNCHANGED <<maxValues, clock, largest>> BY DEF GuardRecord, limits
  <1> DEFINE v == guard[t].value
  <1>4. CASE lastSeen' = lastSeen
    <2>1. ValuesSound' BY <1>1, <1>2, <1>3, <1>4 DEF ValuesSound
    <2> QED BY <1>2, <1>3, <1>4, <2>1 DEF ValueInv, WithinLimit, Forgets
  <1>5. CASE /\ v \in DOMAIN lastSeen \/ ~Full
             /\ lastSeen' = [u \in DOMAIN lastSeen \cup {v} |-> IF u = v THEN guard[t].now ELSE lastSeen[u]]
    <2>1. DOMAIN lastSeen' = DOMAIN lastSeen \cup {v} /\ \A u \in DOMAIN lastSeen' : lastSeen'[u] \in Nat
      BY <1>2, <1>5
    <2> HIDE DEF v
    <2>2. /\ IsFiniteSet(DOMAIN lastSeen')
          /\ Cardinality(DOMAIN lastSeen') =
               IF v \in DOMAIN lastSeen THEN Cardinality(DOMAIN lastSeen) ELSE Cardinality(DOMAIN lastSeen) + 1
      BY <1>2, <2>1, FS_AddElement
    <2>3. Cardinality(DOMAIN lastSeen) \in Nat BY <1>2, FS_CardinalityType
    <2>4. v \notin DOMAIN lastSeen => Cardinality(DOMAIN lastSeen) < maxValues BY <1>2, <1>5, <2>3 DEF Full
    <2>5. Cardinality(DOMAIN lastSeen') <= largest' BY <1>2, <1>3, <2>2, <2>3, <2>4
    <2>6. ValuesSound' BY <1>1, <1>2, <1>3, <2>1, <2>2 DEF ValuesSound
    <2> QED BY <2>1, <2>5, <2>6 DEF ValueInv, WithinLimit, Forgets
  <1> QED BY <1>4, <1>5 DEF GuardRecord

\* Registering and clearing the limits, and time.
LEMMA LimitsKeep ==
  ASSUME ValueInv, ClearLimits \/ Tick \/ \E n \in 0 .. 1 : RegisterLimit(n)
  PROVE  ValueInv' /\ Forgets
  <1>1. /\ maxValues \in Nat /\ largest \in Nat /\ clock \in Nat /\ maxValues <= largest
        /\ IsFiniteSet(DOMAIN lastSeen) /\ \A v \in DOMAIN lastSeen : lastSeen[v] \in Nat
        /\ DOMAIN guard = Threads /\ (\A t \in Threads : guard[t].now \in Nat /\ guard[t].now <= clock)
        /\ \A t \in Threads : DOMAIN guard[t] = GuardFields
    BY DEF ValueInv, ValuesSound, Holds
  <1>2. Cardinality(DOMAIN lastSeen) \in Nat /\ Cardinality(DOMAIN lastSeen) <= largest
    BY <1>1, FS_CardinalityType DEF ValueInv, WithinLimit
  <1>3. CASE ClearLimits
    <2>1. DOMAIN lastSeen' = {} BY <1>3 DEF ClearLimits, NoValues
    <2>2. IsFiniteSet(DOMAIN lastSeen') /\ Cardinality(DOMAIN lastSeen') = 0 BY <2>1, FS_EmptySet
    <2>3. ValuesSound' BY <1>1, <1>3, <2>1, <2>2 DEF ValuesSound, Holds, ClearLimits
    <2> QED BY <1>3, <2>2, <2>3 DEF ValueInv, WithinLimit, Forgets, ClearLimits
  <1>4. CASE Tick
    <2>1. \A t \in Threads : guard[t].now <= clock + 1 BY <1>1
    <2>2. ValuesSound' BY <1>1, <1>4, <2>1 DEF ValuesSound, Holds, Tick
    <2> QED BY <1>2, <1>4, <2>2 DEF ValueInv, WithinLimit, Forgets, Tick
  <1>5. ASSUME NEW n \in 0 .. 1, RegisterLimit(n) PROVE ValueInv' /\ Forgets
    <2>1. maxValues' \in Nat /\ largest' \in Nat /\ maxValues' <= largest' /\ largest <= largest'
      BY <1>1, <1>5 DEF RegisterLimit
    <2>2. ValuesSound' BY <1>1, <1>5, <2>1 DEF ValuesSound, Holds, RegisterLimit
    <2>3. Cardinality(DOMAIN lastSeen) <= largest' BY <1>1, <1>2, <2>1
    <2> QED BY <1>5, <2>2, <2>3 DEF ValueInv, WithinLimit, Forgets, RegisterLimit
  <1> QED BY <1>3, <1>4, <1>5

LEMMA ValueInvInit == EmissionInit => ValueInv
  <1> SUFFICES ASSUME EmissionInit PROVE ValueInv OBVIOUS
  <1>1. PICK n \in 0 .. 1 : CardinalityInit(Threads, n) BY DEF EmissionInit
  <1>2. DOMAIN lastSeen = {} BY <1>1 DEF CardinalityInit, NoValues
  <1>3. IsFiniteSet(DOMAIN lastSeen) /\ Cardinality(DOMAIN lastSeen) = 0 BY <1>2, FS_EmptySet
  <1>4. \A t \in Threads : Holds(guard[t], 0) BY <1>1 DEF CardinalityInit, Unguarded, Holds, GuardFields
  <1> QED BY <1>1, <1>2, <1>3, <1>4 DEF ValueInv, ValuesSound, WithinLimit, CardinalityInit

\* Every step keeps the limit and forgets no value in use.
LEMMA ValueInvStep == ValueInv /\ [EmissionNext]_emissionVars => ValueInv' /\ Forgets
  <1> SUFFICES ASSUME ValueInv, [EmissionNext]_emissionVars PROVE ValueInv' /\ Forgets OBVIOUS
  <1>u. ASSUME UNCHANGED cardinalityVars PROVE ValueInv' /\ Forgets
    BY <1>u DEF cardinalityVars, ValueInv, ValuesSound, WithinLimit, Forgets
  <1>1. CASE Environment
    <2>1. UNCHANGED cardinalityVars \/ ClearLimits \/ Tick \/ \E n \in 0 .. 1 : RegisterLimit(n)
      BY <1>1 DEF Environment, SetConsentLevel, LoadConsentFromEnv, SetSamplingPolicy, SetProvider
    <2> QED BY <1>u, <2>1, LimitsKeep
  <1>2. ASSUME NEW t \in Threads, Gates(t) PROVE ValueInv' /\ Forgets
    BY <1>2, <1>u DEF Gates, Consent, Sample, QueueFull, QueueLimit, Admitted
  <1>3. ASSUME NEW t \in Threads, Work(t) PROVE ValueInv' /\ Forgets
    <2>1. \/ UNCHANGED cardinalityVars \/ GuardBegin(t, op[t].value) \/ GuardReturn(t)
          \/ GuardCollect(t) \/ GuardDelete(t) \/ GuardRecord(t)
      BY <1>3 DEF Work, OpenSpan, Tally, LogRecord, LogRaises, Resolve, Bind, SkipExport, Guard, Guarding,
                  Export, StoreGauge, Finish
    <2> QED BY <1>u, <2>1, GuardBeginKeeps, GuardReturnKeeps, GuardCollectKeeps, GuardDeleteKeeps, GuardRecordKeeps
  <1>4. CASE Calls
    <2>1. UNCHANGED cardinalityVars \/ \E t \in Threads : Gates(t) \/ Work(t)
      BY <1>4 DEF Calls, Collect, Observe, Call, RecordRed
    <2> QED BY <1>u, <1>2, <1>3, <2>1
  <1>5. CASE UNCHANGED emissionVars BY <1>u, <1>5 DEF emissionVars
  <1> QED BY <1>1, <1>4, <1>5 DEF EmissionNext
-----------------------------------------------------------------------------
(* The attribute sets of a gauge                                           *)

Entry(K, V) == [key : K, value : V]

\* Every attribute set has one entry.
Keyed(s) == \A i, j \in DOMAIN s : s[i].key = s[j].key => i = j

GaugeInv ==
  /\ \E K, V : series \in Seq(Entry(K, V))
  /\ Len(series) <= AttrMax /\ Keyed(series)

LEMMA EntriesMore ==
  ASSUME NEW K, NEW V, NEW k, NEW v, NEW s \in Seq(Entry(K, V))
  PROVE  s \in Seq(Entry(K \cup {k}, V \cup {v}))
  <1> DEFINE E == Entry(K, V)
             F == Entry(K \cup {k}, V \cup {v})
  <1>1. E \subseteq F BY DEF Entry
  <1>2. s \in Seq(E) OBVIOUS
  <1> HIDE DEF E, F
  <1>3. s \in Seq(F) BY <1>1, <1>2
  <1> QED BY <1>3 DEF F

\* What _store_attr_value leaves, given what it wrote the value into: kept has an entry
\* for every attribute set, one more than the cap at most, and the oldest half goes.
LEMMA CutSound ==
  ASSUME NEW S, NEW kept \in Seq(S), Len(kept) <= AttrMax + 1, Keyed(kept), NEW cut,
         cut = IF Len(kept) > AttrMax THEN AttrMax \div 2 ELSE 0
  PROVE  LET s == SubSeq(kept, cut + 1, Len(kept))
         IN  s \in Seq(S) /\ Len(s) <= AttrMax /\ Keyed(s)
  <1> DEFINE n == Len(kept)
             s == SubSeq(kept, cut + 1, n)
  <1>1. n \in Nat /\ DOMAIN kept = 1 .. n /\ \A i \in 1 .. n : kept[i] \in S BY LenProperties, ElementOfSeq
  <1>2. n <= AttrMax + 1 OBVIOUS
  <1>3. AttrMax \in Nat /\ AttrMax > 1 BY EmissionAssumption
  <1>4. cut \in Nat /\ (n > AttrMax => cut >= 1) /\ cut <= n
    <2> HIDE DEF n
    <2>1. AttrMax \div 2 \in Nat /\ AttrMax \div 2 >= 1 /\ AttrMax \div 2 <= AttrMax BY <1>3
    <2>2. cut = IF n > AttrMax THEN AttrMax \div 2 ELSE 0 BY DEF n
    <2> QED BY <1>1, <1>3, <2>1, <2>2
  <1> HIDE DEF n
  <1>5. \A i \in cut + 1 .. n : kept[i] \in S BY <1>1, <1>4
  <1>6. cut + 1 \in Int /\ n \in Int BY <1>1, <1>4
  <1>7. /\ s \in Seq(S) /\ Len(s) = IF cut + 1 <= n THEN n - (cut + 1) + 1 ELSE 0
        /\ \A i \in 1 .. n - (cut + 1) + 1 : s[i] = kept[cut + 1 + i - 1]
    BY <1>5, <1>6, SubSeqProperties
  <1>8. DOMAIN s = 1 .. Len(s) BY <1>7, LenProperties
  <1> HIDE DEF s
  <1>9. Len(s) = n - cut BY <1>1, <1>4, <1>7
  <1>10. Len(s) <= AttrMax BY <1>1, <1>2, <1>3, <1>4, <1>9
  <1>11. \A i \in DOMAIN s : i \in Nat /\ s[i] = kept[cut + i] /\ cut + i \in DOMAIN kept
    <2>1. ASSUME NEW i \in 1 .. n - cut PROVE i \in Nat /\ s[i] = kept[cut + i] /\ cut + i \in 1 .. n
      <3>1. i \in 1 .. n - (cut + 1) + 1 /\ cut + 1 + i - 1 = cut + i /\ cut + i \in 1 .. n /\ i \in Nat
        BY <1>1, <1>4
      <3> QED BY <1>7, <3>1
    <2> QED BY <1>1, <1>8, <1>9, <2>1
  <1>12. Keyed(s)
    <2>1. ASSUME NEW i \in DOMAIN s, NEW j \in DOMAIN s, s[i].key = s[j].key PROVE i = j
      <3>1. cut + i = cut + j BY <1>11, <2>1 DEF Keyed
      <3> QED BY <1>4, <1>11, <3>1
    <2> QED BY <2>1 DEF Keyed
  <1> QED BY <1>7, <1>10, <1>12 DEF s, n

\* Writing a value: a new entry at the end, or the new value in the old entry.
LEMMA StoredSound ==
  ASSUME GaugeInv, NEW k, NEW v
  PROVE  LET s == Stored(k, v).series
         IN  (\E K, V : s \in Seq(Entry(K, V))) /\ Len(s) <= AttrMax /\ Keyed(s)
  <1>1. PICK A, B : series \in Seq(Entry(A, B)) BY DEF GaugeInv
  <1> DEFINE K == A \cup {k}
             V == B \cup {v}
             S == Entry(K, V)
             i == At(k)
             e == [key |-> k, value |-> v]
             n == Len(series)
             kept == IF i = 0 THEN Append(series, e) ELSE [series EXCEPT ![i].value = v]
             cut == IF Len(kept) > AttrMax THEN AttrMax \div 2 ELSE 0
  <1>2. series \in Seq(S) BY <1>1, EntriesMore
  <1>3. e \in S BY DEF Entry
  <1>4. n \in Nat /\ DOMAIN series = 1 .. n /\ \A j \in 1 .. n : series[j] \in S BY <1>2, LenProperties, ElementOfSeq
  <1>5. n <= AttrMax /\ Keyed(series) /\ AttrMax \in Nat BY EmissionAssumption DEF GaugeInv
  <1>6. kept \in Seq(S) /\ Len(kept) <= AttrMax + 1 /\ Keyed(kept)
    <2>1. CASE \A j \in 1 .. n : series[j].key # k
      <3>1. i = 0 BY <1>4, <2>1 DEF At
      <3>2. e.key = k OBVIOUS
      <3> DEFINE q == Append(series, e)
      <3>3. kept = q BY <3>1
      <3> HIDE DEF e, S, kept
      <3>4. q \in Seq(S) /\ Len(q) = n + 1 /\ (\A j \in 1 .. n : q[j] = series[j]) /\ q[n + 1] = e
        BY <1>2, <1>3, AppendProperties
      <3>5. DOMAIN q = 1 .. n + 1 BY <3>4, LenProperties
      <3> HIDE DEF q, n
      <3>6. ASSUME NEW a \in 1 .. n + 1, NEW b \in 1 .. n + 1, q[a].key = q[b].key PROVE a = b
        <4>1. CASE a = n + 1 /\ b = n + 1 BY <4>1
        <4>2. CASE a \in 1 .. n /\ b = n + 1 BY <2>1, <3>2, <3>4, <3>6, <4>2
        <4>3. CASE a = n + 1 /\ b \in 1 .. n BY <2>1, <3>2, <3>4, <3>6, <4>3
        <4>4. CASE a \in 1 .. n /\ b \in 1 .. n BY <1>4, <1>5, <3>4, <3>6, <4>4 DEF Keyed
        <4> QED BY <1>4, <4>1, <4>2, <4>3, <4>4
      <3>7. Keyed(q) BY <3>5, <3>6 DEF Keyed
      <3>8. Len(q) <= AttrMax + 1 BY <1>4, <1>5, <3>4
      <3> QED BY <3>3, <3>4, <3>7, <3>8
    <2>2. CASE \E j \in 1 .. n : series[j].key = k
      <3>1. i \in 1 .. n /\ series[i].key = k BY <1>4, <2>2 DEF At
      <3>2. i # 0 BY <1>4, <3>1
      <3>3. PICK c \in S : c = [series[i] EXCEPT !.value = v] /\ c.key = series[i].key
        <4> DEFINE x == series[i]
                   y == [x EXCEPT !.value = v]
        <4>1. x \in [key : K, value : V] /\ v \in V BY <1>4, <3>1 DEF Entry
        <4> HIDE DEF K, V, x
        <4>2. y \in [key : K, value : V] /\ y.key = x.key BY <4>1
        <4> QED BY <4>2 DEF Entry, x
      <3> DEFINE q == [series EXCEPT ![i] = c]
      <3>4. kept = q BY <3>2, <3>3
      <3> HIDE DEF S, kept, i
      <3>5. q \in Seq(S) /\ Len(q) = n /\ \A j \in 1 .. n : q[j] = IF j = i THEN c ELSE series[j]
        BY <1>2, <3>1, ExceptSeq
      <3>6. DOMAIN q = 1 .. n BY <3>5, LenProperties
      <3> HIDE DEF q, n
      <3>7. \A j \in 1 .. n : q[j].key = series[j].key BY <3>3, <3>5
      <3>8. Keyed(q) BY <1>4, <1>5, <3>6, <3>7 DEF Keyed
      <3>9. Len(q) <= AttrMax + 1 BY <1>4, <1>5, <3>5
      <3> QED BY <3>4, <3>5, <3>8, <3>9
    <2> QED BY <2>1, <2>2
  <1> DEFINE s == SubSeq(kept, cut + 1, Len(kept))
  <1>7. Stored(k, v).series = s BY DEF Stored
  <1> HIDE DEF kept, S
  <1>8. s \in Seq(S) /\ Len(s) <= AttrMax /\ Keyed(s) BY <1>6, CutSound
  <1> QED BY <1>7, <1>8 DEF S

LEMMA GaugeInvInit == EmissionInit => GaugeInv
  <1> SUFFICES ASSUME EmissionInit PROVE GaugeInv OBVIOUS
  <1>1. series = <<>> /\ AttrMax \in Nat BY EmissionAssumption DEF EmissionInit
  <1>2. Len(series) = 0 /\ DOMAIN series = {} /\ series \in Seq(Entry({}, {})) BY <1>1
  <1>3. Keyed(series) BY <1>2 DEF Keyed
  <1> QED BY <1>1, <1>2, <1>3 DEF GaugeInv

\* Only a gauge's write touches its attribute sets.
LEMMA GaugeInvStep == GaugeInv /\ [EmissionNext]_emissionVars => GaugeInv'
  <1> SUFFICES ASSUME GaugeInv, [EmissionNext]_emissionVars PROVE GaugeInv' OBVIOUS
  <1>u. ASSUME series' = series PROVE GaugeInv' BY <1>u DEF GaugeInv
  <1>1. ASSUME NEW t \in Threads, NEW raises \in BOOLEAN, StoreGauge(t, raises) PROVE GaugeInv'
    <2>1. PICK k, v : series' = Stored(k, v).series BY <1>1 DEF StoreGauge
    <2> QED BY <2>1, StoredSound DEF GaugeInv
  <1>2. CASE Environment
    BY <1>2, <1>u DEF Environment, SetConsentLevel, LoadConsentFromEnv, SetSamplingPolicy, SetProvider, others, gaugeVars
  <1>3. ASSUME NEW t \in Threads, Gates(t) PROVE series' = series
    BY <1>3 DEF Gates, Consent, Sample, QueueFull, QueueLimit, Admitted, gaugeVars
  <1>4. ASSUME NEW t \in Threads, Work(t) PROVE series' = series \/ \E raises \in BOOLEAN : StoreGauge(t, raises)
    BY <1>4 DEF Work, OpenSpan, Tally, LogRecord, LogRaises, Resolve, Bind, SkipExport, Guard, Export, Finish, gaugeVars
  <1>5. CASE Calls
    <2>1. series' = series \/ \E t \in Threads : Gates(t) \/ Work(t)
      BY <1>5 DEF Calls, Collect, Observe, Call, RecordRed, gaugeVars
    <2> QED BY <1>u, <1>1, <1>3, <1>4, <2>1
  <1>6. CASE UNCHANGED emissionVars BY <1>u, <1>6 DEF emissionVars
  <1> QED BY <1>2, <1>5, <1>6 DEF EmissionNext
-----------------------------------------------------------------------------
(* The theorems                                                            *)

\* Limits, tokens and tickets keep their types on the whole emission path, and the
\* queue only holds tokens handed out since the last reset, whatever calls do with
\* their tickets.
THEOREM BackpressureTypes == EmissionSpec => []TypeOK
  <1>1. SlotInv => TypeOK BY DEF SlotInv, Core
  <1> QED BY SlotInvInit, SlotInvStep, <1>1, PTL DEF EmissionSpec

\* The health counters add up: every call of an instrument, a span or a logger is
\* emitted, dropped by exactly one gate, refused by consent, lost to an export or a
\* log stage that raised, or still on its way, however threads interleave and
\* whatever policies change between two of its gates.
THEOREM EverythingIsAccountedOnce == EmissionSpec => []AccountedOnce
  <1>1. CallInv => AccountedOnce BY DEF CallInv
  <1> QED BY CallInvInit, CallInvStep, <1>1, PTL DEF EmissionSpec

\* The backpressure queue under the whole emission path: a slot is on the ticket of
\* a call in progress or was stranded by a log record that raised after try_acquire,
\* tickets are distinct and the queue is within the largest limit it had.
THEOREM SlotsAreSound == EmissionSpec => []SlotsSound
  <1>1. SlotInv => SlotsSound BY DEF SlotInv, Core, SlotsSound
  <1> QED BY SlotInvInit, SlotInvStep, <1>1, PTL DEF EmissionSpec

\* guard_attributes keeps the number of remembered values within the limit and
\* forgets a value only while it is expired, however the three critical sections of
\* concurrent callers interleave with the clock and with new limits.
THEOREM AttributeLimitKept == EmissionSpec => LimitKept
  <1>1. ValueInv /\ [EmissionNext]_emissionVars =>
          [/\ WithinLimit'
           /\ \A v \in DOMAIN lastSeen :
                v \in DOMAIN lastSeen' \/ maxValues' = 0 \/ lastSeen[v] + TTL < clock]_cardinalityVars
    BY ValueInvStep DEF Forgets, ValueInv
  <1> QED BY ValueInvInit, ValueInvStep, <1>1, PTL DEF EmissionSpec, LimitKept

\* Concurrent set and add on a gauge keep one entry per attribute set, and never more
\* entries than _ATTR_VALUES_MAX: _store_attr_value cuts the oldest half as soon as
\* there is one too many.
THEOREM GaugeSeriesBounded == EmissionSpec => [](Len(series) <= AttrMax /\ Keyed(series))
  <1>1. GaugeInv => Len(series) <= AttrMax /\ Keyed(series) BY DEF GaugeInv
  <1> QED BY GaugeInvInit, GaugeInvStep, <1>1, PTL DEF EmissionSpec
=============================================================================
