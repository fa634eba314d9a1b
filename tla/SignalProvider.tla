--------------------------- MODULE SignalProvider ---------------------------
(***************************************************************************)
(* tracing/provider.py and metrics/provider.py.  Both keep a provider slot *)
(* and a generation under a lock, build a provider without the lock and    *)
(* install it only if nobody else did and no shutdown came in between.     *)
(* The OpenTelemetry global is set once per process, by this package or by *)
(* its host.  The metrics module also caches meters and keeps the status   *)
(* of the Prometheus endpoint.  The two modules share no state, so a       *)
(* behaviour is about one of them: Init chooses which.                     *)
(***************************************************************************)
EXTENDS Integers

CONSTANTS
  Threads,       \* callers
  Flushers,      \* bound: the threads that flush
  Names,         \* meter names; "default" is provide.telemetry
  MaxProviders,  \* bound: providers built
  MaxShutdowns   \* bound: shutdowns

ASSUME SignalProviderAssumption ==
  MaxProviders \in Nat /\ MaxShutdowns \in Nat /\ "default" \in Names /\ Flushers \subseteq Threads

Providers == 1 .. MaxProviders
NoProvider == 0
Host == -1       \* a provider the host application installed

VARIABLES
  signal,      \* "traces" or "metrics"
  otel,        \* _HAS_OTEL: the SDK is installed
  disabled,    \* _tracing_explicitly_disabled, _metrics_explicitly_disabled
  slot,        \* _provider_ref, _otel_global_set and _setup_generation
  otelGlobal,  \* OpenTelemetry's global provider
  life,        \* what became of each provider
  born,        \* the generation each provider was built for
  endpoint,    \* prometheus._status, and the provider whose reader serves
  meters,      \* _meters: the provider of the cached meter of each name
  call,        \* what each thread is doing
  got,         \* the provider behind the tracer or meter last handed out
  usable,      \* history: that call found a usable provider
  hostLate     \* history: the host took the global after a reader was built

vars == <<signal, otel, disabled, slot, otelGlobal, life, born, endpoint, meters,
          call, got, usable, hostLate>>

Idle == [at |-> "idle", gen |-> 0, mine |-> NoProvider, pull |-> "not_selected",
         name |-> "default", saw |-> "nothing", says |-> "nothing"]

Init ==
  /\ signal \in {"traces", "metrics"} /\ otel \in BOOLEAN
  /\ disabled = FALSE /\ otelGlobal = NoProvider /\ hostLate = FALSE
  /\ slot = [ref |-> NoProvider, set |-> FALSE, gen |-> 0]
  /\ life = [p \in Providers |-> "unbuilt"] /\ born = [p \in Providers |-> 0]
  /\ endpoint = [status |-> "not_set_up", serving |-> NoProvider]
  /\ meters = [n \in Names |-> NoProvider]
  /\ call = [t \in Threads |-> Idle]
  /\ got = [t \in Threads |-> NoProvider] /\ usable = [t \in Threads |-> FALSE]

Metrics == signal = "metrics"
Return(t) == call' = [call EXCEPT ![t] = Idle]

\* prometheus.set_status: any reader is forgotten.
SetStatus(s) == endpoint' = [status |-> s, serving |-> NoProvider]
MarkReady(p) == endpoint' = [status |-> "ready", serving |-> p]
MetricsStatus(s) == IF Metrics THEN SetStatus(s) ELSE UNCHANGED endpoint

-----------------------------------------------------------------------------
(* setup_tracing and setup_metrics                                         *)

SetupDisabled(t) ==
  /\ call[t] = Idle /\ disabled' = TRUE /\ MetricsStatus("metrics_disabled")
  /\ UNCHANGED <<signal, otel, slot, otelGlobal, life, born, meters, call, got,
                 usable, hostLate>>

SetupWithoutOtel(t) ==
  /\ call[t] = Idle /\ ~otel /\ disabled' = FALSE
  /\ \E s \in {"otel_missing", "not_selected"} : MetricsStatus(s)
  /\ UNCHANGED <<signal, otel, slot, otelGlobal, life, born, meters, call, got,
                 usable, hostLate>>

\* The first critical section; wants is prometheus_reader_enabled.
SetupBegin(t, wants) ==
  /\ call[t] = Idle /\ otel /\ (wants => Metrics) /\ disabled' = FALSE
  /\ IF slot.ref # NoProvider
     THEN UNCHANGED call
     ELSE call' = [call EXCEPT ![t].at = "build", ![t].gen = slot.gen,
                               ![t].pull = IF wants THEN "ready" ELSE "not_selected"]
  /\ UNCHANGED <<signal, otel, slot, otelGlobal, life, born, endpoint, meters, got,
                 usable, hostLate>>

\* setup_metrics gives up when the resilience layer returns no exporter.
MeterExporterFails(t) ==
  /\ call[t].at = "build" /\ Metrics
  /\ SetStatus("setup_failed") /\ Return(t)
  /\ UNCHANGED <<signal, otel, disabled, slot, otelGlobal, life, born, meters, got,
                 usable, hostLate>>

\* _prometheus_reader: a live provider on the global will not give way to ours.
PullStatus(t) ==
  IF call[t].pull # "ready" \/ otelGlobal = NoProvider THEN call[t].pull
  ELSE IF slot.set THEN "process_locked" ELSE "host_provider"

Build(t) ==
  /\ call[t].at = "build"
  /\ \E p \in Providers :
       /\ \A q \in Providers : life[q] = "unbuilt" <=> q >= p
       /\ life' = [life EXCEPT ![p] = "live"]
       /\ born' = [born EXCEPT ![p] = call[t].gen]
       /\ call' = [call EXCEPT ![t].at = "built", ![t].mine = p, ![t].pull = PullStatus(t)]
  /\ UNCHANGED <<signal, otel, disabled, slot, otelGlobal, endpoint, meters, got,
                 usable, hostLate>>

\* setup_tracing has built its provider when it learns there is no exporter.
SpanExporterFails(t) ==
  /\ call[t].at = "built" /\ ~Metrics
  /\ life' = [life EXCEPT ![call[t].mine] = "disposed"] /\ Return(t)
  /\ UNCHANGED <<signal, otel, disabled, slot, otelGlobal, born, endpoint, meters, got,
                 usable, hostLate>>

\* Building raises before there is a provider: the exporter of a signal that is not
\* fail-open among the reasons.
BuildRaises(t) ==
  /\ call[t].at = "build" /\ Return(t)
  /\ UNCHANGED <<signal, otel, disabled, slot, otelGlobal, life, born, endpoint, meters, got,
                 usable, hostLate>>

\* setup_tracing has built its provider when the exporter of a signal that is not
\* fail-open raises, or attaching it does: nobody shuts that provider down.
SpanExporterRaises(t) ==
  /\ call[t].at = "built" /\ ~Metrics
  /\ life' = [life EXCEPT ![call[t].mine] = "lost"] /\ Return(t)
  /\ UNCHANGED <<signal, otel, disabled, slot, otelGlobal, born, endpoint, meters, got,
                 usable, hostLate>>

\* Bug: a shutdown in between is not noticed.
TooLateUnlessTaken(t) == slot.ref # NoProvider

\* Another thread won the race or shutdown happened mid-build.
TooLate(t) == slot.ref # NoProvider \/ slot.gen # call[t].gen

\* Bug: the losing provider is dropped without being shut down.
DiscardDropped(t) ==
  /\ call[t].at = "built" /\ TooLate(t) /\ Return(t)
  /\ UNCHANGED <<signal, otel, disabled, slot, otelGlobal, life, born, endpoint, meters,
                 got, usable, hostLate>>

\* Bug: the loser shuts down the installed provider instead of its own.
DiscardWinner(t) ==
  /\ call[t].at = "built" /\ TooLate(t) /\ Return(t)
  /\ life' = [life EXCEPT ![IF slot.ref # NoProvider THEN slot.ref ELSE call[t].mine] = "disposed"]
  /\ UNCHANGED <<signal, otel, disabled, slot, otelGlobal, born, endpoint, meters, got,
                 usable, hostLate>>

Discard(t) ==
  /\ call[t].at = "built" /\ TooLate(t) /\ Return(t)
  /\ life' = [life EXCEPT ![call[t].mine] = "disposed"]
  /\ UNCHANGED <<signal, otel, disabled, slot, otelGlobal, born, endpoint, meters, got,
                 usable, hostLate>>

\* OpenTelemetry ignores a second set_tracer_provider or set_meter_provider.
SetGlobal(p) == IF otelGlobal = NoProvider THEN p ELSE otelGlobal

\* The second critical section, when this thread is in time.
Install(t) ==
  /\ call[t].at = "built" /\ ~TooLate(t) /\ Return(t)
  /\ otelGlobal' = SetGlobal(call[t].mine)
  /\ slot' = [slot EXCEPT !.ref = call[t].mine, !.set = TRUE]

InstallTracer(t) ==
  /\ ~Metrics /\ Install(t)
  /\ UNCHANGED <<signal, otel, disabled, life, born, endpoint, meters, got, usable,
                 hostLate>>

\* The reader may serve, and the cached meters are replaced.
InstallMeter(t) ==
  /\ Metrics /\ Install(t)
  /\ IF call[t].pull = "ready" THEN MarkReady(call[t].mine) ELSE SetStatus(call[t].pull)
  /\ meters' = [n \in Names |-> IF n = "default" THEN otelGlobal' ELSE NoProvider]
  /\ UNCHANGED <<signal, otel, disabled, life, born, got, usable, hostLate>>

-----------------------------------------------------------------------------
(* shutdown_tracing and shutdown_metrics                                   *)

\* The provider is detached under the lock and drained outside it.
Detach(t) ==
  /\ call[t] = Idle /\ slot.gen < MaxShutdowns
  /\ slot' = [slot EXCEPT !.ref = NoProvider, !.gen = @ + 1]

DetachTracer(t) ==
  /\ ~Metrics /\ Detach(t)
  /\ call' = IF slot.ref = NoProvider THEN call
             ELSE [call EXCEPT ![t].at = "dispose", ![t].mine = slot.ref]
  /\ UNCHANGED <<signal, otel, disabled, otelGlobal, life, born, endpoint, meters, got,
                 usable, hostLate>>

DetachMeter(t) ==
  /\ Metrics /\ Detach(t)
  /\ meters' = [n \in Names |-> NoProvider]
  /\ call' = [call EXCEPT ![t].at = "status", ![t].mine = slot.ref]
  /\ UNCHANGED <<signal, otel, disabled, otelGlobal, life, born, endpoint, got, usable,
                 hostLate>>

\* The endpoint stops serving before its reader's provider is drained.
ShutDownStatus(t) ==
  /\ call[t].at = "status" /\ SetStatus("shut_down")
  /\ IF call[t].mine = NoProvider THEN Return(t)
     ELSE call' = [call EXCEPT ![t].at = "dispose"]
  /\ UNCHANGED <<signal, otel, disabled, slot, otelGlobal, life, born, meters, got,
                 usable, hostLate>>

\* dispose_detached_provider, modelled step by step in ProviderDrain.
Dispose(t) ==
  /\ call[t].at = "dispose" /\ Return(t)
  /\ life' = [life EXCEPT ![call[t].mine] = "disposed"]
  /\ UNCHANGED <<signal, otel, disabled, slot, otelGlobal, born, endpoint, meters, got,
                 usable, hostLate>>

-----------------------------------------------------------------------------
(* get_tracer and get_meter, which read the slot without the lock          *)

\* _has_real_tracer_provider, _has_real_meter_provider.
Real == slot.ref # NoProvider \/ (~slot.set /\ otelGlobal # NoProvider)

\* _has_effective_tracing_provider, _has_effective_meter_provider.
Effective == ~disabled /\ otel /\ Real

HandOut(t, p) == got' = [got EXCEPT ![t] = p]

GetTracer(t) ==
  /\ ~Metrics /\ call[t] = Idle
  /\ usable' = [usable EXCEPT ![t] = Effective]
  /\ IF Effective
     THEN call' = [call EXCEPT ![t].at = "fetch"] /\ HandOut(t, NoProvider)
     ELSE UNCHANGED call /\ HandOut(t, NoProvider)
  /\ UNCHANGED <<signal, otel, disabled, slot, otelGlobal, life, born, endpoint, meters,
                 hostLate>>

GetMeter(t, n) ==
  /\ Metrics /\ call[t] = Idle
  /\ usable' = [usable EXCEPT ![t] = Effective]
  /\ IF Effective
     THEN call' = [call EXCEPT ![t].name = n,
                               ![t].at = IF slot.ref # NoProvider THEN "cache" ELSE "fetch"]
     ELSE UNCHANGED call
  /\ HandOut(t, NoProvider)
  /\ UNCHANGED <<signal, otel, disabled, slot, otelGlobal, life, born, endpoint, meters,
                 hostLate>>

ReadCache(t) ==
  /\ call[t].at = "cache"
  /\ IF meters[call[t].name] # NoProvider
     THEN HandOut(t, meters[call[t].name]) /\ Return(t)
     ELSE call' = [call EXCEPT ![t].at = "fetch"] /\ UNCHANGED got
  /\ UNCHANGED <<signal, otel, disabled, slot, otelGlobal, life, born, endpoint, meters,
                 usable, hostLate>>

\* The handle always comes from the OpenTelemetry global.
Fetch(t) ==
  /\ call[t].at = "fetch" /\ HandOut(t, otelGlobal)
  /\ IF Metrics /\ slot.ref # NoProvider
     THEN call' = [call EXCEPT ![t].at = "store", ![t].mine = otelGlobal]
     ELSE Return(t)
  /\ UNCHANGED <<signal, otel, disabled, slot, otelGlobal, life, born, endpoint, meters,
                 usable, hostLate>>

\* A shutdown may have cleared the cache since the provider was seen.
Store(t) ==
  /\ call[t].at = "store" /\ Return(t)
  /\ meters' = [meters EXCEPT ![call[t].name] = call[t].mine]
  /\ UNCHANGED <<signal, otel, disabled, slot, otelGlobal, life, born, endpoint, got,
                 usable, hostLate>>

-----------------------------------------------------------------------------
(* TelemetryRuntime.flush for this signal: three readings of the provider, *)
(* with setups and shutdowns in between.  A provider somebody else shuts    *)
(* down while it is flushed may answer anything.                            *)

\* installed_signals
FlushBegin(t) ==
  /\ call[t] = Idle /\ t \in Flushers
  /\ call' = [call EXCEPT ![t].at = "owned", ![t].saw = IF Effective THEN "installed" ELSE "nothing"]
  /\ UNCHANGED <<signal, otel, disabled, slot, otelGlobal, life, born, endpoint, meters,
                 got, usable, hostLate>>

\* owned_signals, under the lock
FlushOwned(t) ==
  /\ call[t].at = "owned"
  /\ call' = [call EXCEPT ![t].at = "flush", ![t].gen = slot.gen,
                          ![t].saw = IF @ = "installed" /\ slot.ref # NoProvider THEN "owned" ELSE @]
  /\ UNCHANGED <<signal, otel, disabled, slot, otelGlobal, life, born, endpoint, meters,
                 got, usable, hostLate>>

\* _signal_flush_result
SignalFlushResult(saw, outcome) ==
  CASE saw = "nothing" -> "not_installed" [] saw = "installed" -> "not_owned" [] saw = "owned" -> outcome

\* The result on its way to the caller, with the provider drained and, in gen, the
\* shutdowns since it was seen.
Report(t, outcome) ==
  LET says == SignalFlushResult(call[t].saw, outcome)
      done == [Idle EXCEPT !.at = "report", !.says = says]
  IN  call' = [call EXCEPT ![t] = IF says # "flushed" THEN done
                                  ELSE [done EXCEPT !.mine = call[t].mine, !.gen = slot.gen - call[t].gen]]

\* flush_tracing, flush_metrics: the drain runs whatever was seen before, on the
\* provider installed now; with none there is nothing to flush.
FlushTake(t) ==
  /\ call[t].at = "flush"
  /\ IF slot.ref = NoProvider THEN Report(t, "flushed")
     ELSE call' = [call EXCEPT ![t].at = "draining", ![t].mine = slot.ref]
  /\ UNCHANGED <<signal, otel, disabled, slot, otelGlobal, life, born, endpoint, meters,
                 got, usable, hostLate>>

\* bounded_provider_flush returned, or raised, which _drain_signal absorbs.
FlushDrained(t) ==
  /\ call[t].at = "draining"
  /\ \E outcome \in {"flushed", "timed_out", "failed"} : Report(t, outcome)
  /\ UNCHANGED <<signal, otel, disabled, slot, otelGlobal, life, born, endpoint, meters,
                 got, usable, hostLate>>

FlushReturn(t) ==
  /\ call[t].at = "report" /\ Return(t)
  /\ UNCHANGED <<signal, otel, disabled, slot, otelGlobal, life, born, endpoint, meters,
                 got, usable, hostLate>>

\* The host application installs a provider of its own, at any time.
HostInstalls ==
  /\ otel /\ otelGlobal = NoProvider /\ otelGlobal' = Host
  /\ hostLate' = \E t \in Threads : call[t].at = "built" /\ call[t].pull = "ready"
  /\ UNCHANGED <<signal, otel, disabled, slot, life, born, endpoint, meters, call, got,
                 usable>>

Setup(t) ==
  \/ SetupDisabled(t) \/ SetupWithoutOtel(t) \/ (\E w \in BOOLEAN : SetupBegin(t, w))
  \/ MeterExporterFails(t) \/ Build(t) \/ SpanExporterFails(t)
  \/ BuildRaises(t) \/ SpanExporterRaises(t) \/ Discard(t)
  \/ InstallTracer(t) \/ InstallMeter(t)

Shutdown(t) == DetachTracer(t) \/ DetachMeter(t) \/ ShutDownStatus(t) \/ Dispose(t)

Get(t) ==
  \/ GetTracer(t) \/ (\E n \in Names : GetMeter(t, n))
  \/ ReadCache(t) \/ Fetch(t) \/ Store(t)

Flush(t) == FlushBegin(t) \/ FlushOwned(t) \/ FlushTake(t) \/ FlushDrained(t) \/ FlushReturn(t)

Next == HostInstalls \/ \E t \in Threads : Setup(t) \/ Shutdown(t) \/ Get(t) \/ Flush(t)

Spec == Init /\ [][Next]_vars

\* Threads finish the calls they are in, unless the bound on providers stops a build.
Working(t) ==
  Build(t) \/ Discard(t) \/ InstallTracer(t) \/ InstallMeter(t) \/ ShutDownStatus(t) \/ Dispose(t)

FairSpec == Spec /\ \A t \in Threads : WF_vars(Working(t))
-----------------------------------------------------------------------------
(* Properties                                                              *)

Statuses == {"not_set_up", "ready", "shut_down", "metrics_disabled", "host_provider",
             "not_selected", "otel_missing", "setup_failed", "process_locked"}
Steps == {"idle", "build", "built", "status", "dispose", "cache", "fetch", "store",
          "owned", "flush", "draining", "report"}
Handles == Providers \cup {NoProvider, Host}

\* Types; in particular the slot never refers to a provider that is not live:
\* nothing shuts an installed provider down.
TypeOK ==
  /\ signal \in {"traces", "metrics"} /\ {otel, disabled, hostLate} \subseteq BOOLEAN
  /\ slot \in [ref : Providers \cup {NoProvider}, set : BOOLEAN, gen : 0 .. MaxShutdowns]
  /\ otelGlobal \in Handles /\ meters \in [Names -> Handles]
  /\ life \in [Providers -> {"unbuilt", "live", "lost", "disposed"}]
  /\ born \in [Providers -> 0 .. MaxShutdowns]
  /\ endpoint \in [status : Statuses, serving : Providers \cup {NoProvider}]
  /\ call \in [Threads -> [at : Steps, gen : 0 .. MaxShutdowns, mine : Handles,
                           pull : Statuses, name : Names,
                           saw : {"nothing", "installed", "owned"},
                           says : {"nothing", "not_installed", "not_owned", "flushed", "timed_out", "failed"}]]
  /\ got \in [Threads -> Handles] /\ usable \in [Threads -> BOOLEAN]
  /\ slot.ref # NoProvider => life[slot.ref] = "live"

Holds(t, p) == call[t].mine = p /\ call[t].at \in {"built", "status", "dispose"}

\* No provider leaks in a race: one that was built and not shut down is installed, or
\* some setup or shutdown call still has it in hand and will install or dispose of it,
\* however setups and shutdowns interleave.  The one a setup_tracing has built when its
\* exporter raises is lost, and is not meant here.
NoProviderLeaked ==
  \A p \in Providers : life[p] = "live" => p = slot.ref \/ \E t \in Threads : Holds(t, p)

\* A shutdown is final: the installed provider was built by a setup that began
\* after the last shutdown, never by one that was still building through it.
InstalledIsCurrent == slot.ref # NoProvider => born[slot.ref] = slot.gen

\* A scrape is answered from a reader whose provider has not been drained: the
\* status changes before the drain, whatever setups run in between.
NeverServesDisposed ==
  endpoint.serving # NoProvider =>
    endpoint.status = "ready" /\ life[endpoint.serving] = "live"

\* A reader that serves hangs on the provider that instruments reach, the
\* OpenTelemetry global (unless the host took the global while we were building):
\* the global is looked at before the lock is taken, and only the generation check
\* keeps a reader from being attached behind another provider.
ReadyServesGlobal == endpoint.status = "ready" => endpoint.serving = otelGlobal \/ hostLate

\* A tracer or meter is handed out only by a call that found a usable provider: a
\* meter that a slow get_meter put back into the cleared cache after a shutdown is
\* never handed out before the next setup.
HandedOutUsable == \A t \in Threads : got[t] # NoProvider => usable[t]

\* The providers of either module implement the abstract provider lifecycle.
Phase ==
  [p \in Providers |->
     IF life[p] # "live" THEN life[p]
     ELSE IF p = slot.ref THEN "installed"
     ELSE IF \E t \in Threads : call[t].at = "built" /\ call[t].mine = p THEN "built"
     ELSE "detached"]

Life == INSTANCE ProviderLife WITH phase <- Phase

\* Every provider is installed at most once, alone, and shut down only when it is
\* not installed; only one that was never installed can be lost.
LifeSpec == Life!Spec

\* A provider that lost its place, or never got it, is shut down in the end, unless
\* the setup that built it raised; by LifeSpec that one was never installed.
DetachedAreDisposed ==
  \A p \in Providers :
    (life[p] = "live" /\ p # slot.ref) ~> (p = slot.ref \/ life[p] \in {"disposed", "lost"})

\* A flush that says "flushed" has drained a provider of ours, or a shutdown took the
\* one it had seen away first: never is a host's provider, or none at all, reported as
\* drained because a later reading differed from an earlier one.
FlushHonest ==
  \A t \in Threads :
    call[t].at = "report" /\ call[t].says = "flushed" => call[t].mine \in Providers \/ call[t].gen > 0

\* What setups, shutdowns, scrapes and instruments may rely on, however they race.
ProvidersSound ==
  TypeOK /\ NoProviderLeaked /\ InstalledIsCurrent /\ NeverServesDisposed /\ ReadyServesGlobal
    /\ HandedOutUsable /\ FlushHonest
=============================================================================
