# Formal models of provide-telemetry (Python)

TLA+ models of `src/src/provide/telemetry/`: the circuit breaker and its
executors, the bounded drain of providers, the lifecycle of setup, hot update,
reconfiguration and shutdown, the providers and their OpenTelemetry globals, the
way of a record, span or measurement through its gates, the log destination,
context propagation, the Prometheus endpoint, redaction governance, and the pure
algorithms around them. TLC checks the models on small instances; TLAPS proves
the most important properties for all values of the constants. `PROJECT.json`
lists the components, runs, mutants, findings, hazards and theorems, and maps
every definition to the lines it models.

## 1. The system

provide-telemetry wraps structlog and OpenTelemetry. A process calls
`setup_telemetry` once, logs, traces and counts from any thread, may change its
configuration while running, and calls `shutdown_telemetry` at the end. All
state is module-level, and is guarded by one small lock per module.

| Component | State | Operations | Talks to |
|---|---|---|---|
| Export resilience, `resilience.py` | per signal: policy, timeout counter, trip time, open count, half-open flag, executor, semaphore | `run_with_resilience`, `set_exporter_policy`, reset | called by every exporter and by provider setup; reset by shutdown |
| Bounded drain, `_provider_drain.py` | process-wide count of abandoned workers; per call an event and two flags | `bounded_provider_flush`, `bounded_provider_shutdown`, `run_drains_together` | called by shutdown, flush and rollback; calls the OTel provider on a worker thread |
| Lifecycle, `setup.py`, `runtime.py`, `_runtime_policies.py`, `_lifecycle.py` | one published generation (number, config, setup_done), the operations lock | `setup_telemetry`, `shutdown_telemetry`, `update_runtime_config`, `reload_runtime_from_env`, `reconfigure_telemetry` | writes the policies of sampling, backpressure and resilience; installs and tears down providers |
| Tracer and meter providers, `tracing/provider.py`, `metrics/provider.py` | provider, generation of the setup, set-once OTel global, meter cache, endpoint status | setup, shutdown, `get_tracer`, `get_meter`, flush | called by the lifecycle and by the host's threads |
| Logging, `logger/core.py` | active config, configured flag, log provider | `configure_logging`, `shutdown_logging`, lazy configuration in `get_logger` | called by the lifecycle, and without its lock by `get_logger` |
| Log destination, `logger/sink.py`, `logger/handlers.py` | one writer slot, the root logger's handlers | set, clear, release, emit | rebuilds the pipeline; released by shutdown |
| Signal admission and instruments, `consent.py`, `sampling.py`, `backpressure.py`, `cardinality.py`, `metrics/fallback.py`, `health.py` | a consent level, rates, queues of tokens, attribute values seen, gauge series, counters | one call of an instrument, span or logger; setters and resets | the emit path |
| Context, `propagation.py`, `logger/context.py`, `tracing/`, `asgi/` | context variables: logger fields, ids, restore frames, OTel context | bind and clear, spans, requests, WebSockets | tasks inherit all of it |
| Prometheus endpoint, `metrics/_prom_listener.py`, `metrics/prometheus.py` | the running server, its TLS context and users, the reader's last collection | start, restart, stop, scrape | the lifecycle; operators who edit its files |
| Governance, `receipts.py`, `classification.py`, `pii.py` | receipts on or off with key and sink, rules, policy, three hooks | enable, disable, register, reset, sanitise | called from the log pipeline |
| Processors, schema, levels, config, resource, names, headers | none | pure functions of a record, a header or the environment | the emit path and setup |

What is hard:

* **State read under a lock and used after it.** The executor that
  `run_with_resilience` submits to, the limit `try_acquire` compares with,
  `_configured` in `get_logger`, the OTel global a reader is built for, the
  provider `get_meter` found, the provider a flush drains, the hooks
  `sanitize_payload` reads one by one.
* **Deadlines.** A caller gives up while its worker completes; hung operations
  occupy workers for ever; the half-open state must end even then.
* **Operations of many steps that fail in the middle.** Seven policies are
  written one by one; three signals are set up in turn; a log stage or an
  export raises after a ticket was taken; a web config cannot be read.
* **Shutdown under traffic.** It resets breakers, semaphores, queues, providers,
  the log writer and the listener while calls are inside them.
* **Contexts that do not nest.** A task inherits its parent's restore frames and
  may end a span or clear a frame that it did not open.
* **Many-to-one translations.** Cleaned keys, Prometheus names, merged secret
  spans, canonical numbers: two inputs must not meet where they should not.

## 2. The modules

| Module | Models | Theorems |
|---|---|---|
| `Resilience` | `resilience.py`, one signal | `ResilienceProofs` |
| `ProviderDrain` | `_bounded_provider_call` and its two callers | `ProviderDrainProofs` |
| `Generations` | abstract: what a reader of the published generation is promised | |
| `Lifecycle` | setup, shutdown, hot update and reconfiguration; logging and provider references; `get_logger`; refines `Generations` | `LifecycleProofs` |
| `ProviderLife` | abstract: what happens to every provider that is built | |
| `SignalProvider` | `tracing/provider.py`, `metrics/provider.py`, flush; refines `ProviderLife` | `SignalProviderProofs` |
| `Backpressure` | `backpressure.py`, one signal | `EmissionProofs` |
| `Cardinality` | `cardinality.py`, one attribute key | `EmissionProofs` |
| `Emission` | one call through consent, sampling, `Backpressure`, instrument, `Cardinality` and health: the composition | `EmissionProofs` |
| `Propagation` | scopes of context in tasks that inherit it | `LoggingProofs` |
| `LogOutput` | writer slot, configuration passes, root handlers, records | `LoggingProofs` |
| `PromListener` | listener, TLS reload, authentication, scrapes | `PromListenerProofs` |
| `Governance` | receipts, classification and `sanitize_payload` with its hooks | `GovernanceProofs` |
| `Redaction`, `Config`, `WireFormats`, `PromNames`, `Records`, `CanonicalJson` | pure algorithms | |
| `MCAlgorithms` | chooses an input and compares each algorithm with a reference definition | |
| other `MC*` | model values for TLC | |

An operator whose comment starts with `Bug:` is a plausible error of the
definition that follows it. It is part of no specification; substituting it must
break the property `PROJECT.json` names.

### Resilience

One signal; signals share nothing but the lock. A critical section of
`resilience._lock` is one action; so is each step in between that another thread
can observe: reading the semaphore, acquiring a permit, reading the executor,
submitting, waiting, replacing the executor, releasing, recording. `pc[t]` is
the step of a thread and `call[t]` its locals.

Executors are a finite set with one more member than there are threads: an
executor that has been dropped and that no thread holds can stand for a new one.
`ghosts[e]` counts operations still running in `e` whose caller gave up.
Semaphore `n` is the one used after `n` shutdowns, because only a shutdown
replaces a semaphore. `orphans[e]` counts operations still queued in `e` whose
caller was interrupted. Time is `elapsed`, the ticks since the last trip, capped
where no cooldown can exceed it, so it needs no bound. `MaxExponent` stands for
1023, the last exponent `30.0 * 2 ** n` survives (`CheckOverflow`). The operation
may return, raise, raise `TimeoutError` itself, or never end. Threads in
`LoopThreads` run in an event loop; threads in `Interruptible` may get a
`KeyboardInterrupt` at any step, which gives the permit back from inside the `try`
and loses it outside. `deserted` is history: the half-open flag is the one of a
probe that was interrupted.

### ProviderDrain

A job is one call and the worker it starts: two processes that meet at the event
`completed` and at the flags `finished` and `counted`, both written under
`_abandoned_lock`. The deadline is an action that is enabled while `completed`
is not set, and the worker may complete between the deadline and the lock.
`lossy` is a history variable: what the provider knows of the job.

### Generations and Lifecycle

`Generations` is the promise: one record, replaced as a whole, numbered without
gaps, which says `done` only of a config published before and cleared only after
it said stopped. `Lifecycle` refines it (`GenerationsSpec`).

`coordinator.operations` is held for a whole operation, so there is one
operation at a time, with its step in `pc` and its locals in `op`, `target`,
`saved`, `slot`, `teardowns`, `next` and `failed`. Every policy is written in a
step of its own, so that direct setters and `get_logger` interleave with the
writes, the snapshot and the restoration. `policies[s].by` is history: it
records who wrote the policy. A config is abstracted to five fields: `hot` (all
policies), `cold` (the fields that need new providers), `level` (logging, the
pipeline only), `endpoint` and `timeout` (what the log provider is built from).
Calls that are refused or return early change nothing and are no action.
An exception ends an operation in one of three ways: inside the `try` of
`setup_telemetry` (`SetupRaises`) or of `rolled_back_on_failure`
(`UpdateRaises`), or past both (`Escape`): an interrupt, or a failure of the steps
outside the `try`, the listener's among them. `PublishInterrupted` is an interrupt
between the publication and the end of the operation. `torn`, `left` and `stray`
are history: policies put back after their publication, providers an aborted setup
left behind, and a pipeline that a `get_logger` configured. Interrupts are taken
between the steps; one that hits the caller of a shutdown while it waits for its
drains is left out.

### SignalProvider and ProviderLife

Tracing and metrics share no state, so a behaviour is about one of them, chosen
in `Init`. A provider is built in `Build`, outside the lock, and installed or
discarded in a critical section that compares the generation; `otelGlobal` is set
once, by us or by the host. A metrics setup also decides whether the Prometheus
reader may serve (`PullStatus`), and `get_meter` checks, fetches and stores in
three steps. A flush reads what is installed, what is owned and which provider to
drain in three steps (`FlushBegin`, `FlushOwned`, `FlushTake`). `ProviderLife`
says what is promised of every provider: built, installed at most once and alone,
detached, disposed of, never back. A setup may raise while it builds
(`BuildRaises`), and `setup_tracing` also with its provider built, which is then
`"lost"` (`SpanExporterRaises`).

### Emission, Backpressure and Cardinality

`Emission` extends the other two: a call passes consent, sampling and the queue
(the actions of `Backpressure` that read the limit and acquire), does its work
under the ticket, and releases it; attributes go through the three critical
sections of `guard_attributes` (`Cardinality`). Consent, rates, limits, provider
and clock change at any moment. `silent`, `lost`, `stranded` and `forgotten` are
history: calls refused without a count, exports that raised, tickets of log
records that raised between admission and handler, gauge values the cap forgot.
`epoch` and `highest` in `Backpressure` are history as well: the resets up to the
one a ticket was handed out after, and the largest limit since the last reset.
`Backpressure` has no specification of its own: who holds a ticket, and whether it
is ever released, is decided by the rest of the call.

### Propagation

`ctx[t]` has the three things a task carries (logger fields, ids, OTel context)
and its stack of restore frames; `open[t]` are the scopes it has entered. A
spawned task inherits `ctx`. `Abandon` is the end of a span run by another task,
as happens with an async generator that is closed elsewhere; `StrayClear` is a
clear without a bind, `EndRequestRaises` a request whose end raises before it
restores anything. `stray` remembers who did that. A header is read twice: `Ids` is
what this package parses, `Extracted` what the SDK's propagator makes of it.

### LogOutput

A configuration pass holds `core._lock` from `EnterPass` to `Render` and reads the
writer slot twice; `set_log_output` has its own lock; `release_log_output` works
on the live handlers with neither. The root logger's handlers are a sequence of
our fan-out handlers and the host's; a record walks it, holding the handler's
lock. A child ends the handler's part of a record by returning (`Written`), a writer
that raised included, or by raising past it (`WriteEscapes`: a `KeyboardInterrupt` in
the writer, a `RecursionError`). `Reenter` is a writer that logs from inside `write`, and
`Refuse` the end of that record, which every child refuses. `Waits` is all a thread
can block on: `core._lock`, the lock of a child it retargets, the lock of a handler
its record, or its writer's record, has come to. The actions have its negation as
their guard, and `NotStuck` and `WritersMayLog` are stated with it.

### PromListener

Requests run in daemon threads of the server that accepted them, so `srv` keeps
every server built. A file's modification time is its version; the certificate
and key change one at a time. `ctx` of a server is the pair of versions its TLS
context was built from, `stamp` what it believes they were. A web config is one of
a few kinds: usable, unreadable, with unknown keys, or with a value of a type that
the code does not expect, which raises past `sync` and ends the setup
(`LoadRaises`).

### Governance

A payload has one sensitive field, which the default pass redacts, and one whose
class the rules name. Each of the three hooks is set and read in a step of its
own. `settled` says that a registration has returned and nothing was reset since,
`unsigned` counts the redactions whose receipt could not be made, so that the log
call raised (`OnRedactionRaises`).

### The pure algorithms

Inputs are sequences of a few symbols that the code tells apart. `MCAlgorithms`
has one action per kind of input and compares: `Redaction` with the union of the
matched intervals grown to whole tokens, and with what may remain at every
position of a payload; `Config` with the documented ranges, the URL's parts and
the precedence of the resource; `WireFormats` with what the other side accepts;
`PromNames` with the grammar of names and by reading the escaped text back;
`Records` with the level ladder, the bounds of hardening and what the SDK itself
knows of a record; `CanonicalJson` by reading the number back. These modules use
recursion over data, which the prover cannot handle; they are only checked.

## 3. What the runs show

| Run | Instance | Shows |
|---|---|---|
| `resilience_safety` | 2 threads, one in an event loop, the other interruptible, retrying policies with and without a timeout, 3 calls, 1 shutdown, 3 executors | every pending submission holds its own permit (`PermitAccounting`), a grown open count always opens a full cooldown (`GrowthReopens`), nothing but a recorded attempt or a shutdown moves the breaker (`CooldownKept`) |
| `resilience_liveness` | 2 threads, one of them in an event loop and interruptible, 4 calls, policies that block an event loop or not | the half-open flag is set only while its probe will still record or after the probe was interrupted (`ProbeInProgress`), attempts on the executor return (`TimedCallsReturn`), half-open ends once a caller nobody interrupts has such an attempt in progress (`HalfOpenEnds`) |
| `drain` | 3 flushes, 1 shutdown, 2 callers at a time, budget 1 | the budget is exactly the stranded workers (`BudgetExact`), the backlog is bounded (`FlushBacklogBounded`), `True` means drained (`TrueMeansDrained`), callers return whatever the exporter does (`CallsReturn`), the budget is whole again once it answers (`BudgetRecovers`) |
| `lifecycle` | 2 operations that fail or are interrupted anywhere, 2 policies, 1 direct set or `get_logger` with an endpoint of its own, configs that change the policies, the level, the cold fields or the log provider | policies in force are those of the published config after success, rollback or degraded setup (`InForce`); policies are written before the publication (`PublishedLast`); the refinement (`GenerationsSpec`); under a generation that says done no tracer or meter provider changes, and an update keeps the log provider of the published config (`ProvidersStable`); every operation ends (`OperationsEnd`) |
| `signal_provider` | 2 threads, one of which flushes, 2 meter names, 3 providers, 2 shutdowns, a host | `ProvidersSound`: no provider leaks in a race, a shutdown is final even for a setup that was still building, a scrape is served only from a live reader on the provider instruments reach, handles come from usable providers, a flush says "flushed" only of what was drained; `LifeSpec`: the refinement; `DetachedAreDisposed`: what lost its place, or never got it, is shut down in the end, unless its setup raised |
| `emission` | 2 threads, 3 calls, limits 0 and 1, 3 attribute values, cap of 2 gauge series, 1 change of policy, provider, limit or clock, 1 reset | every call is emitted, dropped, refused or a known loss exactly once (`AccountedOnce`); slots are on tickets of calls in progress, distinct and within the limit (`SlotsSound`); gauge total = sum of its series and of the evicted ones (`GaugeTotal`); the attribute limit holds and a value in use is not forgotten (`LimitKept`) |
| `propagation` | 2 tasks, 3 scopes, 3 inbound contexts | every scope gives back what it found (`ScopesBalanced`); no frame leaks and log ids agree with the OTel context (`ContextSound`); a span ended by a foreign task leaves that task's OTel context alone (`OtelContextIsOwn`) |
| `log_output` | 2 threads, 1 writer and stderr, 5 operations, 2 records | records go to the last destination once all is quiet and there is one fan-out handler (`OutputSettles`); a released writer is in no handler, a record frees its ticket once, counted or lost to a raising child, nobody waits for ever on one fan-out handler (`HandlersSound`); the host's handlers leave only when the root is claimed (`HostHandlerKept`) |
| `prometheus` | 2 requests, 3 lifecycle operations, a web config that is missing, one with users, TLS and a required client certificate, one with a value of a wrong type, 3 file events | nobody is served past the web config and a scrape is one fresh collection (`ResponsesSound`); a connection after a rotation never gets the old certificate (`HandshakeFresh`); between operations the listener is the one asked for, or its failure is reported (`ListenerSettles`) |
| `governance` | 2 admins, 2 loggers, 3 configuration calls, 2 redactions | each redaction that reached the hook is a receipt or a counted failure, unless its receipt could not be made and the log call raised, and each receipt is signed with the key of its sink (`ReceiptsSound`); once a registration has returned, every log call follows a policy in force (`RegisteredMeansHandled`) |
| `algorithms` | all inputs of bounded sets, 1.85 million | the six `...Sound` properties described above |
| `resilience_permits` | 2 threads, 4 calls | refutes the comment at `resilience.py:90-91`: a submit refused by an executor that was just replaced leaks its permit |

### Disagreements met while modelling

Where the code does something other than a reader would expect, the properties
say what does hold, and the exception is a history variable or a hypothesis of
the property. The violated statement is quoted where there is one.

*Resilience and drain*

* Two timeouts that look at the counter before either is recorded open the
  breaker without replacing the executor, so the probe meets hung workers
  (`resilience.py:339`, against the docstring at 334-335).
* `_open_count` is incremented before the cooldown is computed from it, so the
  first trip waits 60 seconds; `docs/internal/internals.md:228-229` says 30.
* The breaker is consulted once per call, so retries run during a cooldown;
  `internals.md:231-232` says all attempts are short-circuited.
* Once the open count reaches 1024, `30.0 * 2 ** n` raises `OverflowError` out
  of a fail-open call (`resilience.py:145`).
* A `KeyboardInterrupt` during the probe leaves the half-open flag set for good
  (`resilience.py:150`): the exception of `ProbeInProgress`, kept in `deserted`. One
  between the acquisition of a permit and the `try`, or just before the release,
  loses the permit (`resilience.py:313-320`, `328`).
* A probe that an event loop runs inline has no timeout (`resilience.py:243`,
  `305-306`): one that hangs keeps the signal half-open, and every later call is
  rejected. `HalfOpenEnds` is about attempts on the executor.
* Concurrent flushes that pass the check together strand more workers than
  `_MAX_ABANDONED_WORKERS`; `FlushBacklogBounded` states the bound that holds.

*Lifecycle, providers and logging*

* A `get_logger` that started before setup replaces the pipeline of the finished
  setup by the environment's (`core.py:639`, against `runtime.py:321-322`), and its
  log provider too when the environment names an endpoint (`core.py:330`); the old
  one is never shut down. The next update builds a third. These are the exceptions
  of `ProvidersStable`, with the update that finds the emergency pipeline, or the
  one of an update that raised after its rebuild: each builds another log provider
  (`core.py:274-277`) although `runtime.py:311-318` refuses to replace it.
* An interrupt between a publication and the end of the operation puts the old
  policies back beside the new generation (`_runtime_policies.py:47`, against
  "generation N is never read alongside N+1's policies", `runtime.py:323-324`): the
  exception `torn` of `InForce`.
* A setup that is interrupted, or whose listener raises something else than
  `OSError` (`setup.py:127-131`), leaves its providers installed while setup is not
  done; `StoppedMeansDetached` excepts them (`left`). A web config whose `cert_file`
  is a number or whose `min_version` is a list does so: `load_web_config` raises a
  `TypeError`, against its docstring "any problem raises WebConfigError"
  (`_prom_listener.py:142`), and `sync` catches only that and `OSError` (282).
* Degraded logging followed by a setup with another endpoint loses a live log
  provider (`core.py:330`, against `setup.py:194-195`).
* During an update, the old generation is published beside some of the new
  policies, against `runtime.py:323-324`; the one published at the start of a
  shutdown still carries the config being dismantled, against `setup.py:291-293`.
* `get_runtime_status` reads the generation twice (`runtime.py:418`, `422`) and
  can mix two.
* If registering the health instruments raises (`metrics/provider.py:173`), the
  meter provider survives the rollback; it is in `left` too.
* A `setup_tracing` that raises with its provider built, because the exporter of a
  signal that is not fail-open raises or attaching it does
  (`tracing/provider.py:182-203`), neither installs nor shuts down that provider,
  although it shuts it down when the resilience layer returns no exporter (191-195):
  `"lost"` in `SignalProvider`.
* A setup after a shutdown serves from the first, drained provider, because the
  OpenTelemetry global is set once.
* `shutdown_metrics` sets its status outside the lock and can hide a reader that
  was installed meanwhile (`metrics/provider.py:261`).
* A flush overtaken by a shutdown reports "flushed" before that shutdown's drain
  is done (`runtime.py:117-121`).
* `release_log_output` racing a rebuild leaves the released writer in a handler
  (`sink.py:204-205`); a shutdown followed by a lazy `get_logger` attaches a second
  fan-out handler (`core.py:421-422`); a `reapply_log_output` that was overtaken by
  a shutdown configures logging again.
* With two fan-out handlers a record is written twice, and the first handler may
  still have the destination from before (against "Effective at once",
  `sink.py:125`); a change of destination reaches the first handler only. That is
  why `OutputSettles` supposes one.
* With two fan-out handlers, writers that log from inside `write` can wait for each
  other for ever (`handlers.py:185-187`, against `sink.py:131-133`, "the record being
  written is unaffected. Records from other threads wait their turn and are never
  dropped"). `NotStuck` supposes one; `WritersMayLog` without that hypothesis fails.
* A child that raises past the fan-out handler frees the ticket and leaves the
  record uncounted, as emitted or as failed (`handlers.py:185-198`): `escaped`.

*Emission and context*

* A ticket from before a shutdown frees the slot of a ticket handed out after it
  (`backpressure.py:125`, against `docs/internal/concurrency.md:210-212`).
* A log stage that raises after `apply_sampling` strands its slot
  (`processors.py:303`, against `core.py:501-505`).
* Eviction of gauge series breaks "value is the sum of the series"
  (`fallback.py:102-105`).
* A slow caller of `guard_attributes` can set a timestamp back
  (`cardinality.py:134`).
* The counter of RED errors can exceed the counter of requests, because each is
  admitted on its own.
* A span that ends in a foreign task overwrites that task's ids
  (`decorators.py:73`).
* The package's parser takes traceparents that the SDK's propagator refuses (upper
  case, signs, `0x`, underscores: `propagation.py:86-110`), and the propagator gets
  the header as it came (`propagation.py:256`, `_otel.py:165-171`). Log records then
  carry the header's trace id while the OpenTelemetry context is empty and spans
  start another trace: `Lenient`, the exception in `Correlated`.
* If the RED metrics at the end of a request raise, the middleware neither clears
  nor restores the context (`middleware.py:100-106`): fields, ids and one frame stay
  in the task, and the next clear pops that frame (`EndRequestRaises`). The task is
  in `stray` from there on.
* Without OpenTelemetry, `inject_traceparent` may send the tracestate of an outer
  context with the traceparent of an inner one.

*Governance*

* Concurrent `enable_receipts` calls can leave the enabled flag and the hook
  disagreeing (`receipts.py:462-470`), and a log call between the two hooks of a
  registration sees one of them (`classification.py:70-75`).
* A redacted value that cannot be canonicalised or encoded (a lone surrogate, an
  integer with more digits than Python converts) makes `sign_receipt` raise before
  the sink is looked at (`receipts.py:484`, `361`): the redaction is neither a receipt
  nor a counted failure, and the log call raises, against "Never raises:
  canonicalization runs inside the redaction hook, so raising would turn a log call
  into an exception" (`receipts.py:265-266`). These redactions are `unsigned` in
  `ReceiptsSound`.
* The comment at `receipts.py:494` speaks of a logging fallback that
  `enable_receipts` installs; it does not.

*Algorithms*

* A NaN `logs_shutdown_timeout_seconds` is accepted
  (`_config_validation.py:72-100`, "Validate every backoff/timeout float").
* Client certificate and key are checked only as a pair (`_otlp_tls.py:60`).
* `redact_config` detaches the sink for the walk: two concurrent calls on one
  config can lose it for good (`_masking.py:24-31`, "restored in finally").
* `_mask_endpoint_url` leaves the password of "http:/user:password@host" and of a
  URL that begins with "//" and that `urlsplit` refuses, such as "//user:password@[1"
  (`_masking.py:71`, "malformed endpoints included"). A password with a raw "/", "?"
  or "#" ends the authority there, as the docstring says (75-76); what stands behind
  is printed. `MasksSound` says what is printed in each of these cases.
* With `PROVIDE_SECURITY_MAX_ATTR_COUNT` below the number of control fields of a
  record, all of them are emitted (`processors.py:310-313`, against
  `docs/guide/configuration.md:237`, "Maximum number of attributes per log event
  (excess keys dropped)").
* A blank `OTEL_SERVICE_NAME` hides the name in `OTEL_RESOURCE_ATTRIBUTES`, and an
  empty name there becomes `unknown_service` (`_resource.py:58`, `79`).
* The pattern of strict event names ends in `$` and takes a trailing newline
  (`schema/events.py:24-26`); a relaxed `Event` may have empty segments that
  `validate_event_name` annotates.
* `int(text, 16)` takes signs, underscores and spaces, so an inbound traceparent
  may be accepted that `inject_traceparent` then refuses (`propagation.py:100-107`).
* Two instruments whose names translate alike share a family: of one type, they
  give duplicate series; of two, the later one is left out (`_prom_render.py:131-148`).
* Receipts of different values may share a digest: `None`, a NaN
  and a cycle are all null.
* A field `_trace` of the caller's turns the record's level into TRACE
  (`processors.py:151`).

### Bounds

`MaxCalls`, `MaxResets`, `MaxOps`, `MaxOutside`, `MaxLogProviders`, `MaxTokens`,
`MaxCallers`, `MaxProviders`, `MaxShutdowns`, `MaxScopes`, `MaxRecords`,
`MaxEdits`, `MaxTicks`, `MaxEvents`, `MaxRedactions`, `MaxMeters`, `MaxClock`,
`MaxChanges`, and the sets of threads bound behaviours; every one is in a guard.

* `Resilience`: a threshold of two timeouts, a cooldown of one or two ticks and
  one worker per executor keep the order of events of the real 3, 30 to 1024
  seconds and 2: trip, cooldown, probe, second trip, cooldown at its cap,
  replacement of the executor with one caller still holding it, shutdown with
  both callers inside.
* `Lifecycle`: two operations are a setup that fails or succeeds and an update,
  retry, reconfiguration or shutdown after it, with one direct set or one
  `get_logger` at any point; two policies are one written and
  one not yet; two log providers are one in use and one that replaces it. The
  theorems hold for any number.
* `SignalProvider`: three providers are one installed, one discarded and one of
  the setup after a shutdown; two shutdowns let one setup build across one of them.
* `Emission`: two threads at a limit of one fill the queue and drop; three
  attribute values exceed every limit; a cap of two series evicts.
* `Propagation`: three scopes nest one of each kind inside another, across a
  spawned task.
* `LogOutput`: five operations are configure, change, rebuild, shut down and
  configure again, in two threads.
* `PromListener`: three operations start, restart and stop; three events rotate
  both files and edit the web config once. The three web configs are one usable file
  that asks for everything at once and two that fail in the two ways there are,
  inside and past `sync`'s `except`.
* `Governance`: three calls are enable, disable and enable again, or register and
  reset around a policy change.

Thread and value symmetry is used where no operator chooses among them. Deadlock
is allowed where the bounded operations come to an end and the process has
nothing left to do; in the two passing resilience runs it is not.
All actions are taken in the passing runs.

### Fairness

* `Resilience`: weak fairness of each thread's own step. The operation, the pool
  and time get none: `future.result(timeout=...)` returns by itself.
* `ProviderDrain`: weak fairness of callers (`completed.wait(timeout)`) and of a
  worker that is on its way out. The exporter gets none; `BudgetRecovers` has
  its answer as a hypothesis.
* `Lifecycle`: weak fairness of the operation in progress; its drains are
  bounded by `ProviderDrain`. Nobody has to start one, and no interrupt has to come.
* `SignalProvider`: weak fairness of a setup or shutdown in progress, whose own
  calls are bounded; nobody has to start one.

## 4. What is proved

All theorems hold for every value of the constants that satisfies the named
assumption of the module. Each follows from an inductive invariant `IInv` by
`Init => IInv`, `IInv /\ [Next]_vars => IInv'` and `IInv => P`.

* **ResilienceProofs.** `IInv` is `TypeOK`, `PermitAccounting` and
  `BreakerCoherent`. Type correctness carries `RefsOK`: a thread past the lookup
  has an executor. The count of holders changes by one in `Acquire`, `Release` and a
  guarded `Interrupt` and never grows elsewhere. Theorems `ResilienceTypes`,
  `PermitsCoverPending`, `BreakerStaysCoherent`, `GrowthAlwaysReopens`,
  `CooldownIsKept` and `ProbeAlwaysInProgress`.
* **ProviderDrainProofs.** `IInv` adds `FlagsOK` (the flags of a job say where
  its caller and worker are), `ReportOK` (a job that lost records has a failure
  recorded) and a bound on `AtRisk`, the flushes that are stranded or still
  waiting: the bound on the stranded alone is not inductive, because a waiting
  flush becomes stranded without looking at the budget again. Theorems
  `DrainTypes`, `BudgetIsExact`, `BacklogBounded`, `CleanMeansDrained`.
* **LifecycleProofs.** `InForce` speaks of idle states only, so `IInv` adds what
  holds in the middle: `OpInv` (which steps belong to which operation, and what
  they say of the generation and the providers), `PolicyInv` (how far the
  snapshot, the writing and the restoration have come, slot by slot, and which
  config the finished part agrees with) and `LogCount`. Theorems `TypesHold`,
  `PoliciesInForce`, `StoppedDetached`, `PublicationIsLast`,
  `StableProviders` and `ImplementsGenerations`, the refinement.
* **SignalProviderProofs.** `ProvidersSound` speaks of what is installed and
  served; what makes it inductive is `CarriesSound`: for every step of a setup,
  shutdown, `get_meter` or flush, what the provider, generation and readings that
  the thread carries from the last critical section are still worth. A provider in
  hand is live, in one hand only (`HeldAlone`) and not installed, so disposing of it
  harms nobody; a reader that was found fit to serve either still is, or its setup is
  too late to install it; the endpoint serves the installed provider or one whose
  shutdown has yet to change the status (`ServingAttached`). Theorems
  `ProvidersAreSound` and `ProvidersImplementLifecycle`, the safety refinement of
  `ProviderLife`: every step is a step of one provider's life or a stutter, and only
  a provider that was never installed is lost.
* **EmissionProofs.** Four invariants that need nothing of each other.
  `CallInv`: the undecided writes of all calls are a finite set (`Writes`), each
  gate removes exactly one from it while it moves exactly one counter, and a call
  that is not in progress has none; it is a set and not a sum because the
  cardinality theorems then give "one less" directly. `SlotInv`: `Core`, which
  every step of `Backpressure` keeps whether or not tickets are released, and
  `SlotsHeld`: a slot is on a ticket of a call in progress or one a log record took
  with it when it raised. `Core` is the type invariant, `TicketsDistinct`,
  `WithinLargestLimit` and `TokensHandedOut`: a ticket of the current epoch carries
  a token the counter has passed, which makes the next one new. `ValueInv`: the
  limit in force is at most the largest, and the clock a caller of
  `guard_attributes` has read is never ahead of the clock, so a value that was
  expired by that reading is expired now. `GaugeInv`: a gauge has one entry per
  attribute set, so a write that finds none makes one entry too many at most, and
  cutting the oldest half brings it back under the cap (which is false of a cap of
  one: hence `AttrMax > 1`; the code's is 1000). Theorems `EverythingIsAccountedOnce`,
  `BackpressureTypes`, `SlotsAreSound`, `AttributeLimitKept` and
  `GaugeSeriesBounded`.
* **LoggingProofs, Propagation.** `ScopesBalanced` is about the end of a scope, so
  `ContextInv` says in advance where the end of every open scope will find what it has
  to give back: a bind or a request in its own frame, which lies as deep in the stack
  as there are scopes above it that pushed a frame (`Above`, `FrameOf`), a span or a
  WebSocket in its locals. The frame holds the ids and the fields the scope found; its
  token, if it has one, restores the OpenTelemetry context the scope found and belongs
  to the task; and if it has none, the scope above found that context unchanged
  (`GivesBack`, `OtelAfter`; `EntryAfter` says the same of the baggage entry, which a
  frame restores only if it bound one). The scopes that a task had open when it cleared
  a frame without having bound it, or left one, are excepted (`clean`). Theorems
  `ContextIsAccountedFor`, `ScopesGiveBack`, `ForeignSpansDetachNothing`.
* **LoggingProofs, LogOutput.** `OutputInv` is the types and seven facts. `LockInv`: a thread is in a pass exactly while it holds
  `core._lock`. `LocalInv`: tickets and writes are on threads that are logging.
  `CountInv`: tickets freed = emitted + escaped, and logged = freed + tickets out +
  records logged by writers and not refused yet + missed. `SpareInv`: the fan-out handlers
  in use and the threads that may still attach one are at most the operations begun, so
  an unused one exists. `OneInv`: before the first pass is through, only that pass can
  have attached a handler. `ReleaseInv`: where a released writer may still be.
  `SettleInv`: unless some thread owes a rebuild or a teardown (`Owes`), what the pass
  under way has read is the slot's writer, and if none is under way the pipeline is for
  it; this is why two readings of the slot in one pass do no harm. `NotStuck` follows:
  who holds the lock waits for nobody, and so does who holds the only fan-out handler. Theorems `HandlersAreSound`,
  `OutputTakesEffect`, `HostHandlerStays`.
* **PromListenerProofs.** `IInv` says what a server keeps of the file it was started
  from and that its TLS context is at least as new as its stamp (`ServerSound`; a
  stamp read after the build would break it), what a request has read, shown and
  collected so far (`ReadSound`, `ShownSound`, `ScrapeSound`), and where the
  lifecycle operation stands (`OpSound`): between building and binding, the last
  server is the one wanted and no request has reached it. Theorems `Invariance`,
  `ResponsesAreSound`, `HandshakesAreFresh`, `TheListenerSettles`.
* **GovernanceProofs.** `SettledSound` says what a finished registration relies on,
  `RegistrationSound` that one under way finds its first hook set unless a reset
  that will mark it took the hook away, `CallSound` what a log call may conclude
  from the hooks it has read. Without `RegistrationSound` the invariant is not
  inductive: two registrations and a reset interleave. Receipts are counted by the
  set of loggers that are emitting. Theorems `ReceiptsAreSound`,
  `RegistrationHolds`.

The assumptions say that bounds are natural numbers and that the sets the counting
arguments range over are finite (`EmissionAssumption` and `LogOutputAssumption`: the
threads; `GovernanceAssumption`: the loggers). The values that stand for nobody are
nobody's: `"none"` is no task (`PropagationAssumption`) and `"free"` no thread
(`LogOutputAssumption`). `PromListenerProofs` needs none.

Only model-checked:

* all liveness (`TimedCallsReturn`, `HalfOpenEnds`, `CallsReturn`, `BudgetRecovers`,
  `OperationsEnd`, `DetachedAreDisposed`): the prover does not reason about fairness;
* the sum in `GaugeTotal` and the pure algorithms: what a fold or another recursion
  over data computes would need induction with an operator as parameter;
* the run that ends in a counterexample.

## 5. What is not modelled

* Health counters other than emitted and dropped, warnings, log wording, the
  length of backoff sleeps, HMAC signing and timestamps: no property depends on them.
* Rendering (`console.py`, `pretty.py`, `_windows_console.py`), the number format of
  the exposition and the layout of reprs: formatting.
* Which texts the generated secret patterns match: data; the algorithms take the
  matches as given.
* A thread that cannot be started after its server has bound its port
  (`_prom_listener.py:290-310`): an exhausted process.
* `get_circuit_state`, `get_runtime_status` and `wait_for_generation` only read.
* `resilient_exporter.py` calls `run_with_resilience` once per export and delegates
  the rest; import guards and lazy loading hold no state that changes later.
* The Go, Rust, TypeScript and C# implementations have the concurrency of their own
  runtimes, and the scripts of the repository check sources and versions; both are
  outside the Python package that this project is about.

`PROJECT.json` lists every component with its status.

## 6. Plan

What would add most next:

1. A composition of `Lifecycle` with `SignalProvider` in place of the installed flags,
   with `ProvidersAreSound` carried over to it.
2. A composition of `Emission`'s log calls with `LogOutput`, so that the ticket of a
   record is one of `Backpressure`'s.

The number of runs stays small: one per question. A refuting run is retired when
the code it is about is fixed.
