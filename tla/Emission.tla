------------------------------ MODULE Emission ------------------------------
(***************************************************************************)
(* One signal's way from the call of an instrument, a span or a logger to  *)
(* the count of what was emitted: consent, sampling and backpressure (the  *)
(* tickets of Backpressure), then the work under the ticket: the           *)
(* in-process value, the OpenTelemetry handle that is resolved on first    *)
(* use, the guarded attributes (Cardinality) and the health counters.      *)
(***************************************************************************)
EXTENDS Backpressure, Cardinality, Sequences, SequencesExt

CONSTANTS
  MaxCalls,    \* bound: instrument, span and log calls
  MaxMeters,   \* bound: meter providers installed
  AttrMax      \* _ATTR_VALUES_MAX

ASSUME EmissionAssumption ==
  {MaxCalls, MaxMeters, AttrMax} \subseteq Nat /\ AttrMax > 1 /\ IsFiniteSet(Threads)

Levels == {"FULL", "FUNCTIONAL", "MINIMAL", "NONE"}
Severities == {"INFO", "WARN", "ERROR"}

VARIABLES
  signal,      \* the signal of this behaviour: logs, traces or metrics
  consent,     \* consent._level
  rate,        \* the sampling rate: "all", "some" or "none"
  provider,    \* a real tracer or meter provider is installed: its number, or 0
  at, op,      \* stage and local variables of each thread's call
  handles,     \* OpenTelemetry handle of each instrument, once resolved
  total,       \* Gauge.value
  series,      \* Gauge._attr_values: key and value, oldest first
  observable,  \* an observable instrument is registered
  health,      \* emitted and dropped, and the calls begun
  silent,      \* history: calls refused by consent without a count
  lost,        \* history: gauge writes whose export raised
  stranded,    \* history: tokens of log records that raised after admission
  forgotten    \* history: sum of the evicted gauge values

emissionVars == <<signal, consent, rate, provider, at, op, handles, total, series,
                  observable, health, silent, lost, stranded, forgotten, vars, cardinalityVars>>
queues == vars
policy == <<signal, consent, rate, provider, observable>>
gaugeVars == <<total, series, forgotten>>
history == <<silent, lost, stranded>>

Idle == [kind |-> "log", severity |-> "INFO", amount |-> 0, value |-> Overflow, handle |-> 0,
         more |-> 0]

\* As a setup left the queue limit and the attribute limit.
EmissionInit ==
  /\ \E m \in Limits : Queues(m)
  /\ \E n \in 0 .. 1 : CardinalityInit(Threads, n)
  /\ signal \in {"logs", "traces", "metrics"} /\ consent = "FULL" /\ rate = "all"
  /\ provider = 0 /\ observable = FALSE
  /\ at = [t \in Threads |-> "idle"] /\ op = [t \in Threads |-> Idle]
  /\ handles = [i \in {"tally", "gauge"} |-> [resolved |-> FALSE, handle |-> 0]]
  /\ total = 0 /\ series = <<>> /\ forgotten = 0
  /\ health = [begun |-> 0, emitted |-> 0, dropped |-> 0]
  /\ silent = 0 /\ lost = 0 /\ stranded = {}

Goto(t, stage) == at' = [at EXCEPT ![t] = stage]
\* The next instrument of record_red_metrics, or the end of the call.
Refused(t) ==
  IF op[t].more > 0
  THEN Goto(t, "consent") /\ op' = [op EXCEPT ![t].more = @ - 1]
  ELSE Goto(t, "idle") /\ op' = [op EXCEPT ![t] = Idle]
Count(field, n) == health' = [health EXCEPT ![field] = @ + n]

-----------------------------------------------------------------------------
(* Policies                                                                *)

SetConsentLevel(l) ==
  /\ consent # l /\ consent' = l
  /\ UNCHANGED <<signal, rate, provider, observable, at, op, handles, gaugeVars, health, history, queues,
                 cardinalityVars>>

\* PROVIDE_CONSENT_LEVEL: blank leaves the level, an unknown value opts out.
LoadConsentFromEnv(raw) ==
  /\ raw # "blank" /\ SetConsentLevel(IF raw \in Levels THEN raw ELSE "NONE")

SetSamplingPolicy(r) ==
  /\ rate # r /\ rate' = r
  /\ UNCHANGED <<signal, consent, provider, observable, at, op, handles, gaugeVars, health, history,
                 queues, cardinalityVars>>

\* A setup installs provider n, a shutdown takes it away (n = 0).
SetProvider(n) ==
  /\ provider # n /\ provider' = n
  /\ UNCHANGED <<signal, consent, rate, observable, at, op, handles, gaugeVars, health, history, queues,
                 cardinalityVars>>

\* should_allow
ShouldAllow(severity) ==
  \/ consent = "FULL"
  \/ consent = "FUNCTIONAL" /\ (signal = "logs" => severity \in {"WARN", "ERROR"})
  \/ consent = "MINIMAL" /\ signal = "logs" /\ severity = "ERROR"

-----------------------------------------------------------------------------
(* The gates                                                               *)

\* What a caller may ask for; an argument that makes no difference has one value.
Requests ==
  LET of(kinds, severities, amounts, values) ==
        [kind : kinds, severity : severities, amount : amounts, value : values]
  IN  CASE signal = "logs" -> of({"log"}, Severities, {0}, {Overflow})
        [] signal = "traces" -> of({"span"}, {"INFO"}, {0}, {Overflow})
        [] OTHER -> of({"tally"}, {"INFO"}, {0}, AttrValues) \cup
                    of({"add"}, {"INFO"}, {1}, AttrValues) \cup
                    of({"set"}, {"INFO"}, {2}, AttrValues)

\* Counter.add, Histogram.record, Gauge.add, Gauge.set, a span or a log record.
Call(t, kind, severity, amount, v) ==
  /\ at[t] = "idle" /\ health.begun < MaxCalls /\ Goto(t, "consent")
  /\ op' = [op EXCEPT ![t] = [Idle EXCEPT !.kind = kind, !.severity = severity,
                                          !.amount = amount, !.value = v]]
  /\ Count("begun", 1)
  /\ UNCHANGED <<policy, handles, gaugeVars, history, queues, cardinalityVars>>

\* record_red_metrics: a request count, an error count for a 5xx and a latency,
\* each admitted on its own.
RecordRed(t, failed, v) ==
  LET n == IF failed THEN 3 ELSE 2
  IN  /\ at[t] = "idle" /\ signal = "metrics" /\ health.begun + n <= MaxCalls
      /\ Goto(t, "consent")
      /\ op' = [op EXCEPT ![t] = [Idle EXCEPT !.kind = "tally", !.value = v, !.more = n - 1]]
      /\ Count("begun", n)
      /\ UNCHANGED <<policy, handles, gaugeVars, history, queues, cardinalityVars>>

\* Consent alone does not count what it refuses; the log pipeline does it itself.
Consent(t) ==
  /\ at[t] = "consent"
  /\ IF ShouldAllow(op[t].severity)
     THEN Goto(t, "sample") /\ UNCHANGED <<op, health, silent>>
     ELSE /\ Refused(t)
          /\ Count("dropped", IF signal = "logs" THEN 1 ELSE 0)
          /\ silent' = silent + (IF signal = "logs" THEN 0 ELSE 1)
  /\ UNCHANGED <<policy, handles, gaugeVars, lost, stranded, queues, cardinalityVars>>

\* With a real tracer provider its own sampler decides.
Sample(t, keep) ==
  /\ at[t] = "sample"
  /\ keep \in IF signal = "traces" /\ provider # 0 THEN {TRUE}
              ELSE CASE rate = "all" -> {TRUE} [] rate = "none" -> {FALSE} [] OTHER -> BOOLEAN
  /\ IF keep THEN Goto(t, "queue") /\ UNCHANGED <<op, health>>
     ELSE Refused(t) /\ Count("dropped", 1)
  /\ UNCHANGED <<policy, handles, gaugeVars, history, queues, cardinalityVars>>

\* Bug: both the queue and the caller count the refusal.
QueueFullTwice(t) ==
  /\ at[t] = "queue" /\ Drop(t) /\ Refused(t) /\ Count("dropped", 2)
  /\ UNCHANGED <<policy, handles, gaugeVars, history, cardinalityVars>>

QueueFull(t) ==
  /\ at[t] = "queue" /\ Drop(t) /\ Refused(t) /\ Count("dropped", 1)
  /\ UNCHANGED <<policy, handles, gaugeVars, history, cardinalityVars>>

QueueLimit(t) ==
  /\ at[t] = "queue" /\ ReadLimit(t)
  /\ UNCHANGED <<policy, at, op, handles, gaugeVars, health, history, cardinalityVars>>

Admitted(t) ==
  /\ at[t] = "queue" /\ (AcquireUnlimited(t) \/ Acquire(t)) /\ Goto(t, "work")
  /\ UNCHANGED <<policy, op, handles, gaugeVars, health, history, cardinalityVars>>

-----------------------------------------------------------------------------
(* The work under the ticket                                               *)

\* A span is counted when it opens; the caller's block runs before it ends.
OpenSpan(t) ==
  /\ at[t] = "work" /\ op[t].kind = "span" /\ Goto(t, "finish") /\ Count("emitted", 1)
  /\ UNCHANGED <<policy, op, handles, gaugeVars, history, queues, cardinalityVars>>

\* Counter.add and Histogram.record count before they export.
Tally(t) ==
  /\ at[t] = "work" /\ op[t].kind = "tally" /\ Goto(t, "resolve") /\ Count("emitted", 1)
  /\ UNCHANGED <<policy, op, handles, gaugeVars, history, queues, cardinalityVars>>

\* The processors after admission and the handlers; a record is counted at the end.
LogRecord(t) ==
  /\ at[t] = "work" /\ op[t].kind = "log" /\ Goto(t, "finish") /\ Count("emitted", 1)
  /\ UNCHANGED <<policy, op, handles, gaugeVars, history, queues, cardinalityVars>>

\* A processor or the renderer raises: nobody has the ticket any more.
LogRaises(t) ==
  /\ at[t] = "work" /\ op[t].kind = "log" /\ Refused(t)
  /\ stranded' = IF ticket[t] = 0 THEN stranded ELSE stranded \cup {<<resets, ticket[t]>>}
  /\ lost' = lost + 1
  /\ pc' = [pc EXCEPT ![t] = "idle"] /\ ticket' = [ticket EXCEPT ![t] = 0]
  /\ UNCHANGED <<policy, handles, gaugeVars, health, silent, limit, queue, tokens, seen,
                 resets, epoch, highest, cardinalityVars>>

IsGauge(t) == op[t].kind \in {"add", "set"}
Instrument(t) == IF IsGauge(t) THEN "gauge" ELSE "tally"

\* _resolve_otel before the lock: a resolved instrument, or the meter of now.
Resolve(t) ==
  /\ at[t] = "resolve" \/ (at[t] = "work" /\ IsGauge(t))
  /\ LET known == handles[Instrument(t)]
     IN  IF known.resolved \/ provider = 0
         THEN /\ op' = [op EXCEPT ![t].handle = known.handle]
              /\ Goto(t, "guard")
         ELSE op' = [op EXCEPT ![t].handle = provider] /\ Goto(t, "bind")
  /\ UNCHANGED <<policy, handles, gaugeVars, health, history, queues, cardinalityVars>>

\* Under _RESOLVE_LOCK; a creation that fails is not tried again.
Bind(t, fails) ==
  LET known == handles[Instrument(t)]
      made == IF fails THEN 0 ELSE op[t].handle
  IN  /\ at[t] = "bind" /\ Goto(t, "guard")
      /\ IF known.resolved
         THEN op' = [op EXCEPT ![t].handle = known.handle] /\ UNCHANGED handles
         ELSE /\ op' = [op EXCEPT ![t].handle = made]
              /\ handles' = [handles EXCEPT ![Instrument(t)] =
                               [resolved |-> TRUE, handle |-> made]]
      /\ UNCHANGED <<policy, gaugeVars, health, history, queues, cardinalityVars>>

\* Without a handle a counter has nothing to guard; a gauge keys its value by
\* the guarded attributes in any case.
SkipExport(t) ==
  /\ at[t] = "guard" /\ ~IsGauge(t) /\ op[t].handle = 0 /\ Goto(t, "finish")
  /\ UNCHANGED <<policy, op, handles, gaugeVars, health, history, queues, cardinalityVars>>

Guard(t) ==
  /\ at[t] = "guard" /\ (~IsGauge(t) => op[t].handle # 0)
  /\ (GuardBegin(t, op[t].value) \/ Guarding(t))
  /\ UNCHANGED <<policy, at, op, handles, gaugeVars, health, history, queues>>

\* Whether the export raises or not, the counter has been counted.
Export(t) ==
  /\ at[t] = "guard" /\ ~IsGauge(t) /\ GuardReturn(t) /\ Goto(t, "finish")
  /\ UNCHANGED <<policy, op, handles, gaugeVars, health, history, queues>>

At(key) == IF \E i \in DOMAIN series : series[i].key = key
           THEN CHOOSE i \in DOMAIN series : series[i].key = key ELSE 0
Sum(s) == FoldSeq(LAMBDA e, acc : e.value + acc, 0, s)

\* _store_attr_value: past the cap the oldest half goes.
Stored(key, value) ==
  LET kept == IF At(key) = 0 THEN Append(series, [key |-> key, value |-> value])
              ELSE [series EXCEPT ![At(key)].value = value]
      cut == IF Len(kept) > AttrMax THEN AttrMax \div 2 ELSE 0
  IN  [series |-> SubSeq(kept, cut + 1, Len(kept)), gone |-> Sum(SubSeq(kept, 1, cut))]

\* Bug: set adds the value to the total as if the series were new.
ChangeOfSetBlind(key, t) == op[t].amount

\* What the write changes in the total.
ChangeOf(key, t) ==
  IF op[t].kind = "add" \/ At(key) = 0 THEN op[t].amount
  ELSE op[t].amount - series[At(key)].value

\* Gauge.add and Gauge.set under the gauge's lock; an export that raises leaves
\* the value and no count.
StoreGauge(t, raises) ==
  LET key == guard[t].value
      new == ChangeOf(key, t) + (IF At(key) = 0 THEN 0 ELSE series[At(key)].value)
      value == IF op[t].kind = "set" THEN op[t].amount ELSE new
      s == Stored(key, value)
  IN  /\ at[t] = "guard" /\ IsGauge(t) /\ GuardReturn(t) /\ Goto(t, "finish")
      /\ raises => op[t].handle # 0
      /\ total' = total + ChangeOf(key, t) /\ series' = s.series
      /\ forgotten' = forgotten + s.gone
      /\ Count("emitted", IF raises THEN 0 ELSE 1)
      /\ lost' = lost + (IF raises THEN 1 ELSE 0)
      /\ UNCHANGED <<policy, op, handles, silent, stranded, queues>>

\* Bug: an export that raises leaves without the finally block.
FinishHandled(t) ==
  /\ at[t] = "finish" /\ Refused(t)
  /\ IF op[t].kind \in {"add", "set"}
     THEN /\ pc' = [pc EXCEPT ![t] = "idle"] /\ ticket' = [ticket EXCEPT ![t] = 0]
          /\ UNCHANGED <<limit, queue, tokens, seen, resets, epoch, highest>>
     ELSE Release(t)
  /\ UNCHANGED <<policy, handles, gaugeVars, health, history, cardinalityVars>>

\* The finally block.
Finish(t) ==
  /\ at[t] = "finish" /\ Release(t) /\ Refused(t)
  /\ UNCHANGED <<policy, handles, gaugeVars, health, history, cardinalityVars>>

-----------------------------------------------------------------------------
(* Observable instruments                                                  *)

\* _register attaches the callback to the meter of now, if there is one and it does
\* not refuse; unregister only says that it is not to run.
Observe(on) ==
  /\ signal = "metrics" /\ observable # on /\ observable' = on
  /\ (on => provider # 0)
  /\ UNCHANGED <<signal, consent, rate, provider, at, op, handles, gaugeVars, health, history,
                 queues, cardinalityVars>>

\* A collection: the gates are asked again, a callback that raises reports nothing.
Collect ==
  /\ observable /\ provider # 0 /\ ShouldAllow("INFO") /\ health.begun < MaxCalls
  /\ health' = [health EXCEPT !.begun = @ + 1, !.emitted = @ + 1]
  /\ UNCHANGED <<policy, at, op, handles, gaugeVars, history, queues, cardinalityVars>>

-----------------------------------------------------------------------------
Gates(t) == Consent(t) \/ (\E keep \in BOOLEAN : Sample(t, keep)) \/ QueueFull(t)
            \/ QueueLimit(t) \/ Admitted(t)
Work(t) == OpenSpan(t) \/ Tally(t) \/ LogRecord(t) \/ LogRaises(t) \/ Resolve(t)
           \/ (\E fails \in BOOLEAN : Bind(t, fails)) \/ SkipExport(t) \/ Guard(t)
           \/ Export(t) \/ (\E raises \in BOOLEAN : StoreGauge(t, raises)) \/ Finish(t)

others == <<policy, at, op, handles, gaugeVars, health, history>>

Environment ==
  \/ \E l \in Levels : SetConsentLevel(l)
  \/ \E raw \in Levels \cup {"blank", "typo"} : LoadConsentFromEnv(raw)
  \/ \E r \in {"all", "some", "none"} : SetSamplingPolicy(r)
  \/ \E n \in 0 .. MaxMeters : SetProvider(n)
  \/ (\E m \in Limits : SetQueuePolicy(m)) /\ UNCHANGED <<others, cardinalityVars>>
  \/ Reset /\ UNCHANGED <<others, cardinalityVars>>
  \/ signal = "metrics" /\ Tick /\ UNCHANGED <<others, queues>>
  \/ signal = "metrics" /\ ClearLimits /\ UNCHANGED <<others, queues>>
  \/ signal = "metrics" /\ (\E n \in 0 .. 1 : RegisterLimit(n)) /\ UNCHANGED <<others, queues>>

Calls ==
  \/ Collect \/ \E on \in BOOLEAN : Observe(on)
  \/ \E t \in Threads :
       \/ Gates(t) \/ Work(t)
       \/ \E c \in Requests : Call(t, c.kind, c.severity, c.amount, c.value)
       \/ \E failed \in BOOLEAN, v \in AttrValues : RecordRed(t, failed, v)

EmissionNext == Environment \/ Calls

EmissionSpec == EmissionInit /\ [][EmissionNext]_emissionVars
-----------------------------------------------------------------------------
(* Properties                                                              *)

Undecided(t) == \/ at[t] \in {"consent", "sample", "queue", "work"}
                \/ IsGauge(t) /\ at[t] \in {"resolve", "bind", "guard"}

\* How many of the writes of each thread's call are still to be decided, and those
\* writes; record_red_metrics makes the most, three.
Pending == [t \in Threads |-> op[t].more + (IF Undecided(t) THEN 1 ELSE 0)]
Writes(pending) == {w \in Threads \X (1 .. 3) : w[2] <= pending[w[1]]}

(* Every call is accounted for exactly once: emitted, dropped by one gate, refused
   by consent, or lost to an export or a log stage that raised. The counters
   of health.py add up to the calls made, whatever policies changed meanwhile. *)
AccountedOnce ==
  health.begun = health.emitted + health.dropped + silent + lost + Cardinality(Writes(Pending))

(* Every slot of the queue is on the ticket of a call in progress, or was lost with
   a log record that raised between its admission and its handler.         *)
SlotsHeld ==
  \A k \in queue : \/ <<resets, k>> \in stranded
                   \/ \E t \in Holding : ticket[t] = k /\ epoch[t] = resets

(* The gauge's total is the sum of its attribute sets and of what the cap made it
   forget: sets and adds of concurrent callers are never lost or doubled.  *)
GaugeTotal == total = Sum(series) + forgotten /\ Len(series) <= AttrMax

(* Slots are held by calls in progress, within the limits, on distinct tickets. *)
SlotsSound == SlotsHeld /\ WithinLargestLimit /\ TicketsDistinct
=============================================================================
