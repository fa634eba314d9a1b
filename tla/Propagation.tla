---------------------------- MODULE Propagation -----------------------------
(***************************************************************************)
(* The telemetry context of a task and the scopes that set and restore it: *)
(* bind_propagation_context (propagation.py), a request through            *)
(* TelemetryMiddleware, bind_websocket_context and spans (_open_span).     *)
(* Three things are bound: the fields of the logger context, the trace and *)
(* span ids, and the OpenTelemetry context, which is restored by a token   *)
(* that works only in the task that made it.  A task that is spawned       *)
(* inherits all of it, the stack of restore frames included.               *)
(***************************************************************************)
EXTENDS Integers, FiniteSets, Sequences, SequencesExt

CONSTANTS
  Tasks,      \* contextvars contexts; Main exists from the start
  Main,
  Headers,    \* inbound contexts, as extract_w3c_context returns them
  Lenient,    \* traceparents that _parse_traceparent takes and the SDK refuses
  MaxScopes   \* bound: scopes entered in a behaviour

None == 0
Inbound == {"traceparent", "tracestate", "baggage"}
\* "entry" is the field baggage.<key> of a parsed baggage entry, "own" a field of the app.
Fields == Inbound \cup {"entry", "request_id", "session_id", "own"}

ASSUME PropagationAssumption ==
  /\ Main \in Tasks /\ "none" \notin Tasks /\ MaxScopes \in Nat
  /\ Headers \subseteq [Inbound \cup {"session_id"} -> Nat] /\ Lenient \subseteq Nat

VARIABLES
  sdk,     \* opentelemetry can be imported
  real,    \* a real tracer provider is in play
  ctx,     \* the context of each task
  open,    \* the scopes each task has open, innermost last
  alive,   \* the tasks that run
  scopes,  \* scopes entered so far
  stray    \* history: tasks that cleared a frame they did not bind, ran the end
           \* of another task's span, or left a frame when a request's end raised

vars == <<sdk, real, ctx, open, alive, scopes, stray>>

NoIds == [trace |-> None, span |-> None]
NoopIds == [trace |-> -1, span |-> -1]
EmptyLog == [f \in Fields |-> None]
NoToken == [task |-> "none", old |-> NoIds]

Init ==
  /\ sdk \in BOOLEAN /\ real \in BOOLEAN /\ (real => sdk)
  /\ ctx = [t \in Tasks |-> [log |-> EmptyLog, ids |-> NoIds, otel |-> NoIds, stack |-> <<>>]]
  /\ open = [t \in Tasks |-> <<>>]
  /\ alive = {Main} /\ scopes = 0 /\ stray = {}

-----------------------------------------------------------------------------
(* The context operations                                                  *)

\* bind_context with some fields of a record, those that are not None.
BindContext(log, r) == [f \in Fields |-> IF f \in DOMAIN r /\ r[f] # None THEN r[f] ELSE log[f]]

\* Bug: a token is reset in whatever task detaches it.
ResetAnywhere(t, otel, token) == token.old

\* A token of another task is ignored (_SafeContextVarsRuntimeContext).
Reset(t, otel, token) == IF token.task = t THEN token.old ELSE otel

\* detach_w3c_context.
DetachToken(t, otel, token) == IF token = NoToken THEN otel ELSE Reset(t, otel, token)

Ids(h) == [trace |-> h["traceparent"], span |-> h["traceparent"]]
Parsed(h) == h["traceparent"] # None

\* What the SDK's propagator extracts: it is given the header as it came, takes
\* lower-case hex digits only, and starts from an empty context.
Extracted(h) == IF h["traceparent"] \in Lenient THEN NoIds ELSE Ids(h)

\* The fields a context header binds, the parsed baggage entry among them.
HeaderFields(h) ==
  [f \in Inbound \cup {"entry"} |-> IF f = "entry" THEN h["baggage"] ELSE h[f]]

\* attach_w3c_context, for a header that parsed.
Attach(t, c, h) == IF sdk /\ Parsed(h) THEN [task |-> t, old |-> c.otel] ELSE NoToken

\* What bind_propagation_context saves before it binds anything.
Snapshot(t, c, h) ==
  [log |-> [f \in Inbound \cup {"entry"} |-> c.log[f]], ids |-> c.ids,
   token |-> Attach(t, c, h), entry |-> h["baggage"] # None]

\* bind_propagation_context.
Bound(t, c, h) ==
  [log |-> BindContext(c.log, HeaderFields(h)),
   ids |-> IF Parsed(h) THEN Ids(h) ELSE c.ids,
   otel |-> IF sdk /\ Parsed(h) THEN Extracted(h) ELSE c.otel,
   stack |-> Append(c.stack, Snapshot(t, c, h))]

\* What clear_propagation_context restores when nothing was bound.
Unbound == [log |-> [f \in Inbound |-> None], ids |-> NoIds, token |-> NoToken, entry |-> FALSE]

\* Bug: entries are unbound although an outer frame had bound the same key.
ClearedEntryLost(t, c) ==
  LET frame == IF c.stack = <<>> THEN Unbound ELSE Last(c.stack)
  IN  [log |-> [f \in Fields |-> IF f \in Inbound THEN frame.log[f]
                                 ELSE IF f = "entry" /\ frame.entry THEN None ELSE c.log[f]],
       ids |-> frame.ids,
       otel |-> DetachToken(t, c.otel, frame.token),
       stack |-> IF c.stack = <<>> THEN <<>> ELSE Front(c.stack)]

\* Bug: the OpenTelemetry context is left attached.
ClearedStillAttached(t, c) ==
  LET frame == IF c.stack = <<>> THEN Unbound ELSE Last(c.stack)
  IN  [log |-> [f \in Fields |-> IF f \in Inbound \/ (f = "entry" /\ frame.entry)
                                 THEN frame.log[f] ELSE c.log[f]],
       ids |-> frame.ids, otel |-> c.otel,
       stack |-> IF c.stack = <<>> THEN <<>> ELSE Front(c.stack)]

\* clear_propagation_context: the innermost frame is popped, whoever pushed it.
Cleared(t, c) ==
  LET frame == IF c.stack = <<>> THEN Unbound ELSE Last(c.stack)
  IN  [log |-> [f \in Fields |-> IF f \in Inbound \/ (f = "entry" /\ frame.entry)
                                 THEN frame.log[f] ELSE c.log[f]],
       ids |-> frame.ids,
       otel |-> DetachToken(t, c.otel, frame.token),
       stack |-> IF c.stack = <<>> THEN <<>> ELSE Front(c.stack)]

-----------------------------------------------------------------------------
(* Scopes                                                                  *)

\* A scope remembers what its end needs; clean turns false when its frame may no
\* longer be the one its end will find.
Scope(kind, c, token) ==
  [kind |-> kind, log |-> c.log, ids |-> c.ids, otel |-> c.otel,
   token |-> token, clean |-> TRUE]

Enter(t, scope, c) ==
  /\ t \in alive /\ scopes < MaxScopes /\ scopes' = scopes + 1
  /\ open' = [open EXCEPT ![t] = Append(@, scope)]
  /\ ctx' = [ctx EXCEPT ![t] = c]
  /\ UNCHANGED <<sdk, real, alive, stray>>

Top(t) == Last(open[t])
Innermost(t, kind) == open[t] # <<>> /\ Top(t).kind = kind

Leave(t, kind, c) ==
  /\ t \in alive /\ Innermost(t, kind)
  /\ open' = [open EXCEPT ![t] = Front(@)]
  /\ ctx' = [ctx EXCEPT ![t] = c]
  /\ UNCHANGED <<sdk, real, alive, scopes, stray>>

Bind(t, h) ==
  Enter(t, Scope("bind", ctx[t], NoToken), Bound(t, ctx[t], h))

ClearBind(t) == Leave(t, "bind", Cleared(t, ctx[t]))

\* TelemetryMiddleware: the context is saved, the request and session ids are
\* bound, then the inbound context.
WithRequest(c, h) ==
  [c EXCEPT !.log = BindContext(@, [request_id |-> 1, session_id |-> h["session_id"]])]

Request(t, h) ==
  Enter(t, Scope("request", ctx[t], NoToken), Bound(t, WithRequest(ctx[t], h), h))

\* The finally block, whether the app returned or raised.
EndRequest(t) == Leave(t, "request", [Cleared(t, ctx[t]) EXCEPT !.log = Top(t).log])

Unclean(s) == [i \in DOMAIN s |-> [s[i] EXCEPT !.clean = FALSE]]

\* The finally block when the RED metrics of the request raise: the context stays as
\* it is, frame included (once in a task).
EndRequestRaises(t) ==
  /\ t \in alive \ stray /\ Innermost(t, "request")
  /\ open' = [open EXCEPT ![t] = Unclean(Front(@))]
  /\ stray' = stray \cup {t}
  /\ UNCHANGED <<sdk, real, ctx, alive, scopes>>

WebSocket(t, h) ==
  Enter(t, Scope("websocket", ctx[t], NoToken), WithRequest(ctx[t], h))

EndWebSocket(t) == Leave(t, "websocket", [ctx[t] EXCEPT !.log = Top(t).log])

\* A span of the provider in play is a child of the current one, and its ids are
\* copied by _sync_otel_trace_context.
NewSpan(c) == [trace |-> IF c.otel = NoIds THEN 100 + scopes ELSE c.otel.trace, span |-> 100 + scopes]

\* _open_span past its gates: a span of the real provider or a _NoopSpan.
Span(t) ==
  LET c == ctx[t] IN
  IF real
  THEN Enter(t, Scope("span", c, [task |-> t, old |-> c.otel]),
             [c EXCEPT !.ids = NewSpan(c), !.otel = NewSpan(c)])
  ELSE Enter(t, Scope("span", c, NoToken), [c EXCEPT !.ids = NoopIds])

\* What the end of a span does to the context it runs in.
Ended(t, c, scope) ==
  [c EXCEPT !.ids = scope.ids, !.otel = DetachToken(t, @, scope.token)]

EndSpan(t) == Leave(t, "span", Ended(t, ctx[t], Top(t)))

\* bind_context by the application.
BindOwn(t) ==
  /\ t \in alive /\ ctx[t].log["own"] = None
  /\ ctx' = [ctx EXCEPT ![t].log["own"] = 1]
  /\ UNCHANGED <<sdk, real, open, alive, scopes, stray>>

\* clear_propagation_context by a caller that did not bind (once in a task).
StrayClear(t) ==
  /\ t \in alive \ stray /\ ~Innermost(t, "bind")
  /\ ctx' = [ctx EXCEPT ![t] = Cleared(t, @)]
  /\ open' = [open EXCEPT ![t] = Unclean(@)]
  /\ stray' = stray \cup {t}
  /\ UNCHANGED <<sdk, real, alive, scopes>>

\* A task inherits the context of the task that creates it.
Spawn(t, u) ==
  /\ t \in alive /\ u \notin alive /\ alive' = alive \cup {u}
  /\ ctx' = [ctx EXCEPT ![u] = ctx[t]]
  /\ open' = [open EXCEPT ![u] = <<>>]
  /\ stray' = IF t \in stray THEN stray \cup {u} ELSE stray \ {u}
  /\ UNCHANGED <<sdk, real, scopes>>

End(t) ==
  /\ t \in alive \ {Main} /\ open[t] = <<>> /\ alive' = alive \ {t}
  /\ ctx' = [ctx EXCEPT ![t] = ctx[Main]] /\ stray' = stray \ {t}
  /\ UNCHANGED <<sdk, real, open, scopes>>

\* A generator of an abandoned task is closed from another: the end of its span
\* runs in that task's context.
Abandon(t, u) ==
  /\ {t, u} \subseteq alive /\ t \notin {u, Main} /\ Innermost(t, "span")
  /\ ctx' = [ctx EXCEPT ![u] = Ended(u, @, Top(t)), ![t] = ctx[Main]]
  /\ open' = [open EXCEPT ![t] = <<>>, ![u] = Unclean(@)]
  /\ alive' = alive \ {t} /\ stray' = (stray \ {t}) \cup {u}
  /\ UNCHANGED <<sdk, real, scopes>>

Next ==
  \E t \in Tasks :
    \/ \E h \in Headers : Bind(t, h) \/ Request(t, h) \/ WebSocket(t, h)
    \/ ClearBind(t) \/ EndRequest(t) \/ EndRequestRaises(t) \/ EndWebSocket(t)
    \/ Span(t) \/ EndSpan(t)
    \/ BindOwn(t) \/ StrayClear(t) \/ End(t)
    \/ \E u \in Tasks : Spawn(t, u) \/ Abandon(t, u)

Spec == Init /\ [][Next]_vars
-----------------------------------------------------------------------------
(* Properties                                                              *)

\* Types; a restore frame holds a token of the task that attached it, if any.
TypeOK ==
  /\ alive \subseteq Tasks /\ stray \subseteq Tasks /\ scopes \in 0 .. MaxScopes
  /\ \A t \in Tasks :
       /\ DOMAIN ctx[t].log = Fields /\ Len(open[t]) <= scopes
       /\ \A i \in DOMAIN ctx[t].stack :
            LET token == ctx[t].stack[i].token
            IN  token = NoToken \/ (sdk /\ token.task \in Tasks)
       /\ open[t] # <<>> => t \in alive

\* A scope of t comes to its end: not by the end of t, nor by an end that raised.
Closes(t) == Len(open'[t]) < Len(open[t]) /\ t \in alive' /\ stray' = stray

\* Scopes nest: a bind gives back the inbound fields, its baggage entries, the ids
\* and the OpenTelemetry context it found, even when an outer scope had bound the
\* same keys; a span gives back the ids and the OpenTelemetry context.
ScopesRestore ==
  [][\A t \in Tasks :
       Closes(t) /\ Top(t).clean /\ Top(t).kind # "websocket" =>
         /\ ctx'[t].ids = Top(t).ids /\ ctx'[t].otel = Top(t).otel
         /\ Top(t).kind = "bind" =>
              \A f \in Inbound \cup {"entry"} : ctx'[t].log[f] = Top(t).log[f]]_vars

\* A request leaves the logger context exactly as it found it, whatever the app
\* bound and even if the app cleared frames that were not its own.  (One whose RED
\* metrics raise leaves everything as it is.)
RequestLeavesNoFields ==
  [][\A t \in Tasks :
       Closes(t) /\ Top(t).kind \in {"request", "websocket"} => ctx'[t].log = Top(t).log]_vars

\* The scopes that pushed a restore frame, by their place.
Framed(s) == {i \in DOMAIN s : s[i].kind \in {"bind", "request"}}

\* Every restore frame a task pushed belongs to a scope that is still open: the
\* stack does not grow with the requests a task serves, unless their end raises.
NoFrameLeaks ==
  Main \notin stray => Len(ctx[Main].stack) = Cardinality(Framed(open[Main]))

\* Log correlation: the trace id that log records carry is the trace of the
\* OpenTelemetry context, as long as nobody cleared a frame that was not its own.
\* Under a traceparent that only this package's parser takes, records carry its id
\* and the OpenTelemetry context is empty: no trace, never another one.
Correlated ==
  sdk => \A t \in alive \ stray :
           LET c == ctx[t] IN
           \/ c.ids.trace = c.otel.trace
           \/ ~real /\ c.ids = NoopIds
           \/ c.ids.trace \in Lenient /\ c.otel = NoIds

\* The end of a span that runs in a foreign task leaves that task's OpenTelemetry
\* context alone.
OtelContextIsOwn ==
  [][\A t \in Tasks : open'[t] # open[t] /\ t \notin stray /\ t \in stray' /\ alive' # alive
       => ctx'[t].otel = ctx[t].otel]_vars

\* The context of a task is its own and accounted for, at every step.
ContextSound == TypeOK /\ NoFrameLeaks /\ Correlated

\* Every scope gives back what it found: binds, spans, requests and WebSockets.
ScopesBalanced == ScopesRestore /\ RequestLeavesNoFields
=============================================================================
