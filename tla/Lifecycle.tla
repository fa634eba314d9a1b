----------------------------- MODULE Lifecycle -----------------------------
(***************************************************************************)
(* The lifecycle of telemetry: setup_telemetry and shutdown_telemetry of   *)
(* setup.py, update_runtime_config and reconfigure_telemetry of            *)
(* runtime.py, the policies they install one at a time                     *)
(* (_runtime_policies.py), the providers they install and tear down, and   *)
(* the generation they publish (_lifecycle.py).                            *)
(*                                                                         *)
(* coordinator.operations is held from the first to the last step of an    *)
(* operation, so one operation is in progress at a time; its steps are     *)
(* actions.  Not under that lock: the public policy setters, and           *)
(* get_logger, which configures logging on first use.  A call that is      *)
(* refused (ConfigurationError, ProviderImmutableError) or returns early   *)
(* (setup when setup is done) changes nothing and is not an action.        *)
(* reload_runtime_from_env is Update with the environment's config.        *)
(***************************************************************************)
EXTENDS Integers

CONSTANTS
  Configs,          \* telemetry configs: [hot, cold, level, endpoint, timeout]
  Asked,            \* the ones callers pass
  NoConfig,         \* no config is published
  EnvConfig,        \* TelemetryConfig.from_env()
  DefaultHot,       \* the policies' default values
  NoEndpoint,       \* logging has no OTLP endpoint
  NoPipeline,       \* logging is not configured
  Emergency,        \* the emergency stderr pipeline is configured
  NSlots,           \* policies apply_policies writes (seven in the code)
  Loggers,          \* threads that call get_logger
  MaxOps,           \* bound: lifecycle operations in a behaviour
  MaxOutside,       \* bound: calls of the public policy setters and first uses of get_logger
  MaxLogProviders   \* bound: log providers alive at a time

(* hot stands for the sampling, queue and exporter policies, cold for the
   fields of _COLD_KEYS, level for the logging fields that only concern the
   pipeline, endpoint for the endpoint and headers of the OTLP log provider
   and timeout for the exporter field that it is built from as well.       *)
ASSUME LifecycleAssumption ==
  /\ EnvConfig \in Configs /\ Asked \subseteq Configs /\ NoConfig \notin Configs
  /\ NoPipeline \notin Configs /\ Emergency \notin Configs /\ NoPipeline # Emergency
  /\ \A c \in Configs : DOMAIN c = {"hot", "cold", "level", "endpoint", "timeout"}
  /\ \A c, d \in Configs : [c EXCEPT !.cold = d.cold] \in Configs
  /\ {NSlots, MaxLogProviders} \subseteq Nat \ {0}
  /\ {MaxOps, MaxOutside} \subseteq Nat

Slots == 1..NSlots
Signals == {"logs", "traces", "metrics"}
Hots == {c.hot : c \in Configs} \cup {DefaultHot}

\* A policy in force, and who put it there.
Policy(v, w) == [val |-> v, by |-> w]

VARIABLES
  gen,           \* coordinator._generation
  torn,          \* history: policies were put back after the publication
  policies,      \* the policies in force, slot by slot
  installed,     \* which of the tracer and meter providers we installed are live
  left,          \* history: the ones an aborted setup left behind
  pipeline,      \* logger.core._active_config, if _configured
  logRef,        \* logger.core._otel_log_provider, by the endpoint it was built from
  logProviders,  \* history: log providers built and not yet shut down
  stray,         \* history: the pipeline is the one of a get_logger
  pc,            \* step of the operation in progress
  op,            \* the operation
  target,        \* the config it applies
  saved,         \* policies rolled_back_on_failure read on entry
  slot,          \* the policy it is about to read or write
  teardowns,     \* shutdown: signals left to drain; setup: steps completed
  next,          \* the config reconfigure_telemetry sets up after its shutdown
  failed,        \* a drain raised
  lazy,          \* step of each get_logger
  ops, outside   \* operations and other calls so far

published == <<gen, torn>>
providers == <<installed, left>>
logging == <<pipeline, logRef, logProviders, stray>>
job == <<op, target, saved, slot, teardowns, next, failed>>
around == <<lazy, outside>>
vars == <<published, policies, providers, logging, pc, job, around, ops>>

G == INSTANCE Generations

Init ==
  /\ G!Init /\ torn = FALSE
  /\ policies = [s \in Slots |-> Policy(DefaultHot, "config")]
  /\ installed = {} /\ left = {}
  /\ pipeline = NoPipeline /\ logRef = NoEndpoint /\ logProviders = 0 /\ stray = FALSE
  /\ pc = "idle" /\ op = "none" /\ target = EnvConfig /\ saved = policies
  /\ slot = 1 /\ teardowns = {} /\ next = NoConfig /\ failed = FALSE
  /\ lazy = [u \in Loggers |-> "idle"]
  /\ ops = 0 /\ outside = 0
-----------------------------------------------------------------------------
(* Logging and provider state, as the operations change it. *)

\* The fields of _logging_provider_config_changed are the same.
SameProvider(c, d) == c.endpoint = d.endpoint /\ c.timeout = d.timeout

\* _can_reuse_otel_log_provider
CanReuse(c) ==
  /\ pipeline \in Configs /\ logRef # NoEndpoint
  /\ SameProvider(pipeline, c) /\ pipeline.cold = c.cold

\* _build_handlers builds a log provider.
BuildLogProvider(c) ==
  /\ c.endpoint # NoEndpoint /\ ~CanReuse(c) /\ logProviders < MaxLogProviders
  /\ logProviders' = logProviders + 1

\* configure_logging: with the provider it has, without one (no endpoint, no
\* SDK, no exporter) or with a new one, whose reference overwrites the old
\* one's.  An exception ends in the emergency pipeline: after the new provider
\* is built but before it is referenced, too.
ConfigureLogging(c) ==
  \/ pipeline' \in {c, Emergency} /\ UNCHANGED <<logRef, logProviders>>
  \/ pipeline' \in {c, Emergency} /\ BuildLogProvider(c) /\ logRef' = c.endpoint
  \/ pipeline' = Emergency /\ BuildLogProvider(c) /\ UNCHANGED logRef

\* configure_logging by an operation.
Configure(c) == ConfigureLogging(c) /\ stray' = FALSE

\* shutdown_logging, shutdown_tracing, shutdown_metrics: the provider is
\* detached under the signal's lock and drained afterwards.
Detach(s) ==
  IF s = "logs"
  THEN /\ pipeline' = NoPipeline /\ logRef' = NoEndpoint /\ stray' = FALSE
       /\ logProviders' = IF logRef = NoEndpoint THEN logProviders ELSE logProviders - 1
       /\ UNCHANGED providers
  ELSE installed' = installed \ {s} /\ left' = left \ {s} /\ UNCHANGED logging

Live(s) == IF s = "logs" THEN logRef # NoEndpoint ELSE s \in installed
-----------------------------------------------------------------------------
(* The operations' first steps. *)

Begin == pc = "idle" /\ ops < MaxOps /\ ops' = ops + 1

StartApplying(o, c) ==
  /\ op' = o /\ target' = c /\ slot' = 1 /\ teardowns' = {}
  /\ saved' = saved /\ next' = NoConfig /\ failed' = FALSE
  /\ pc' = "snapshot"

\* setup_telemetry
Setup(c) ==
  /\ Begin /\ ~gen.done
  /\ StartApplying("setup", c)
  /\ UNCHANGED <<published, policies, providers, logging, around>>

\* Bug: the refusal of a provider-changing config is dropped.
UpdateAnyway(c) ==
  /\ Begin /\ gen.config # NoConfig
  /\ StartApplying("update", [c EXCEPT !.cold = gen.config.cold])
  /\ UNCHANGED <<published, policies, providers, logging, around>>

\* update_runtime_config, and reconfigure_telemetry when no cold field differs;
\* refused when the log provider in use would have to be replaced.
Update(c) ==
  /\ Begin /\ gen.config # NoConfig
  /\ SameProvider(c, gen.config) \/ logRef = NoEndpoint
  /\ StartApplying("update", [c EXCEPT !.cold = gen.config.cold])
  /\ UNCHANGED <<published, policies, providers, logging, around>>

\* The stopped generation is published before anything is torn down.
Stop(c) ==
  /\ Begin
  /\ G!Stop /\ UNCHANGED torn
  /\ op' = "shutdown" /\ teardowns' = Signals /\ next' = c /\ failed' = FALSE
  /\ pc' = "drain"
  /\ UNCHANGED <<policies, providers, logging, target, saved, slot, around>>

\* shutdown_telemetry
Shutdown == Stop(NoConfig)

\* reconfigure_telemetry with a cold field changed and no provider of ours
\* live: shutdown, then setup.
Reconfigure(c) ==
  /\ gen.config # NoConfig /\ c.cold # gen.config.cold
  /\ \A s \in Signals : ~Live(s)
  /\ Stop(c)
-----------------------------------------------------------------------------
(* apply_runtime_config and update_runtime_config: rolled_back_on_failure
   around apply_policies, the logging rebuild and the publication.         *)

\* The loop over the policies, from step from to step to.
AtSlot(from, to) ==
  /\ pc = from
  /\ IF slot < NSlots THEN slot' = slot + 1 /\ pc' = from
     ELSE slot' = 1 /\ pc' = to

Write(p) == policies' = [policies EXCEPT ![slot] = p]

Snapshot ==
  /\ AtSlot("snapshot", "apply")
  /\ saved' = [saved EXCEPT ![slot] = policies[slot]]
  /\ UNCHANGED <<published, policies, providers, logging, op, target, teardowns, next,
                 failed, around, ops>>

\* update_runtime_config rebuilds the pipeline when the logging fields differ.
LoggingChanged ==
  op = "update" /\ (target.level # gen.config.level \/ target.endpoint # gen.config.endpoint)

\* Bug: the last policy is not written.
ApplyAllButLast ==
  /\ AtSlot("apply", IF LoggingChanged THEN "rebuild" ELSE "publish")
  /\ policies' = IF slot = NSlots THEN policies
                 ELSE [policies EXCEPT ![slot] = Policy(target.hot, "config")]
  /\ UNCHANGED <<published, providers, logging, op, target, saved, teardowns, next,
                 failed, around, ops>>

\* apply_policies
Apply ==
  /\ AtSlot("apply", IF LoggingChanged THEN "rebuild" ELSE "publish")
  /\ Write(Policy(target.hot, "config"))
  /\ UNCHANGED <<published, providers, logging, op, target, saved, teardowns, next,
                 failed, around, ops>>

Rebuild ==
  /\ pc = "rebuild" /\ pc' = "publish"
  /\ Configure(target)
  /\ UNCHANGED <<published, policies, providers, job, around, ops>>

Publish ==
  /\ pc = "publish"
  /\ G!Publish(target, gen.done) /\ torn' = FALSE
  /\ pc' = IF op = "setup" THEN "logging" ELSE "idle"
  /\ UNCHANGED <<policies, providers, logging, job, around, ops>>

\* The publication is made and the operation interrupted before it returns.
PublishInterrupted ==
  /\ pc = "publish" /\ pc' = "restore" /\ slot' = 1
  /\ G!Publish(target, gen.done) /\ torn' = TRUE
  /\ UNCHANGED <<policies, providers, logging, op, target, saved, teardowns, next,
                 failed, around, ops>>

\* A step raises (BaseException, so an interrupt too) before a generation is
\* published.
UpdateRaises ==
  /\ pc \in {"apply", "rebuild", "publish"} /\ pc' = "restore" /\ slot' = 1
  /\ UNCHANGED <<published, policies, providers, logging, op, target, saved, teardowns, next,
                 failed, around, ops>>

\* Bug: the policies are put back from the published config, which may be none.
RestoreDefaults ==
  /\ AtSlot("restore", "idle")
  /\ Write(Policy(DefaultHot, "config"))
  /\ UNCHANGED <<published, providers, logging, op, target, saved, teardowns, next,
                 failed, around, ops>>

\* The policies are put back and the exception leaves the operation.
Restore ==
  /\ AtSlot("restore", "idle")
  /\ Write(saved[slot])
  /\ UNCHANGED <<published, providers, logging, op, target, saved, teardowns, next,
                 failed, around, ops>>
-----------------------------------------------------------------------------
(* The rest of setup_telemetry. *)

SetupLogging ==
  /\ pc = "logging" /\ pc' = "traces"
  /\ Configure(target)
  /\ teardowns' = {"logs"}
  /\ UNCHANGED <<published, policies, providers, op, target, saved, slot, next, failed,
                 around, ops>>

\* setup_tracing, setup_metrics: a provider is installed unless the signal is
\* disabled or has no SDK or no exporter.
SetupProvider(s, to) ==
  /\ pc = s /\ pc' = to
  /\ installed' \in {installed, installed \cup {s}}
  /\ teardowns' = teardowns \cup {s}
  /\ UNCHANGED <<published, left, policies, logging, op, target, saved, slot, next, failed,
                 around, ops>>

\* A step inside the try raises an Exception.
SetupRaises ==
  /\ pc \in {"traces", "metrics", "finish"} /\ pc' = "undo"
  /\ UNCHANGED <<published, policies, providers, logging, job, around, ops>>

\* setup_metrics raises after the meter provider is installed: the step is not
\* in completed.
MetricsRaisesLate ==
  /\ pc = "metrics" /\ pc' = "undo"
  /\ installed' = installed \cup {"metrics"} /\ left' = left \cup {"metrics"}
  /\ UNCHANGED <<published, policies, logging, job, around, ops>>

\* The last completed step that _rollback has not undone.
LastCompleted ==
  CASE "metrics" \in teardowns -> "metrics"
    [] "metrics" \notin teardowns /\ "traces" \in teardowns -> "traces"
    [] OTHER -> "logs"

\* Bug: a step stays in the list of steps to undo.
UndoAgain ==
  /\ pc = "undo" /\ teardowns # {}
  /\ Detach(LastCompleted)
  /\ UNCHANGED <<published, policies, pc, job, around, ops>>

\* _rollback: exceptions of a teardown are logged.
Undo ==
  /\ pc = "undo" /\ teardowns # {}
  /\ Detach(LastCompleted)
  /\ teardowns' = teardowns \ {LastCompleted}
  /\ UNCHANGED <<published, policies, pc, op, target, saved, slot, next, failed, around, ops>>

\* Degraded mode: logging is configured again and setup is not done.
Degrade ==
  /\ pc = "undo" /\ teardowns = {} /\ pc' = "idle"
  /\ Configure(target)
  /\ UNCHANGED <<published, policies, providers, job, around, ops>>

\* Bug: the latch is flipped in place.
FinishInPlace ==
  /\ pc = "finish" /\ pc' = "idle"
  /\ gen' = [gen EXCEPT !.done = TRUE] /\ UNCHANGED torn
  /\ UNCHANGED <<policies, providers, logging, job, around, ops>>

\* Everything is installed: publish_setup_state(setup_done=True).
Finish ==
  /\ pc = "finish" /\ pc' = "idle"
  /\ G!Publish(gen.config, TRUE) /\ UNCHANGED torn
  /\ UNCHANGED <<policies, providers, logging, job, around, ops>>
-----------------------------------------------------------------------------
(* The rest of shutdown_telemetry. *)

\* run_drains_together: the three teardowns in any order; one may raise.
Drain(s, raises) ==
  /\ pc = "drain" /\ s \in teardowns
  /\ raises => Live(s)
  /\ Detach(s)
  /\ teardowns' = teardowns \ {s} /\ failed' = (failed \/ raises)
  /\ UNCHANGED <<published, policies, pc, op, target, saved, slot, next, around, ops>>

\* _reset_runtime
ResetRuntime ==
  /\ pc = "drain" /\ teardowns = {} /\ pc' = "reset" /\ slot' = 1
  /\ G!Publish(NoConfig, gen.done) /\ torn' = FALSE
  /\ UNCHANGED <<policies, providers, logging, op, target, saved, teardowns, next,
                 failed, around, ops>>

\* _reset_sampling, _reset_queues, _reset_resilience.
ResetPolicies ==
  /\ pc = "reset"
  /\ Write(Policy(DefaultHot, "config"))
  /\ IF slot < NSlots
     THEN slot' = slot + 1 /\ UNCHANGED <<pc, op, target, saved, teardowns, next, failed>>
     ELSE IF next # NoConfig /\ ~failed
          THEN StartApplying("setup", next)
          ELSE /\ pc' = "idle" /\ slot' = 1
               /\ UNCHANGED <<op, target, saved, teardowns, next, failed>>
  /\ UNCHANGED <<published, providers, logging, around, ops>>
-----------------------------------------------------------------------------
(* An exception leaves the operation where it stands: an interrupt where only
   Exception is caught, or any exception of the steps of setup_telemetry that
   are outside its try (the listener's among them).                        *)
Escape ==
  /\ pc \in {"snapshot", "restore", "logging", "traces", "metrics", "finish", "undo", "reset"}
  /\ pc' = "idle"
  /\ left' = IF op = "setup" THEN left \cup installed ELSE left
  /\ torn' = (torn \/ pc = "restore")
  /\ UNCHANGED <<gen, policies, installed, logging, job, around, ops>>
-----------------------------------------------------------------------------
(* Around the operations. *)

\* set_sampling_policy, set_queue_policy, set_exporter_policy.
SetDirectly(s, v) ==
  /\ outside < MaxOutside /\ outside' = outside + 1
  /\ policies' = [policies EXCEPT ![s] = Policy(v, "direct")]
  /\ UNCHANGED <<published, providers, logging, pc, job, lazy, ops>>

\* get_logger looks at _configured without the lock ...
LazyStart(u) ==
  /\ lazy[u] = "idle" /\ pipeline = NoPipeline
  /\ outside < MaxOutside /\ outside' = outside + 1
  /\ lazy' = [lazy EXCEPT ![u] = "sampling"]
  /\ UNCHANGED <<published, policies, providers, logging, pc, job, ops>>

\* ... installs the logs sampling rate of the environment ...
LazySampling(u) ==
  /\ lazy[u] = "sampling" /\ lazy' = [lazy EXCEPT ![u] = "configure"]
  /\ policies' = [policies EXCEPT ![1] = Policy(EnvConfig.hot, "lazy")]
  /\ UNCHANGED <<published, providers, logging, pc, job, outside, ops>>

\* ... and configures logging from it, unless that config is active already:
\* over whatever pipeline and log provider a setup has put there meanwhile.
LazyConfigure(u) ==
  /\ lazy[u] = "configure" /\ lazy' = [lazy EXCEPT ![u] = "idle"]
  /\ IF pipeline = EnvConfig THEN UNCHANGED logging
     ELSE ConfigureLogging(EnvConfig) /\ stray' = TRUE
  /\ UNCHANGED <<published, policies, providers, pc, job, outside, ops>>

-----------------------------------------------------------------------------
OpStep ==
  \/ Snapshot \/ Apply \/ Rebuild \/ Publish \/ UpdateRaises \/ Restore
  \/ SetupLogging \/ SetupProvider("traces", "metrics") \/ SetupProvider("metrics", "finish")
  \/ SetupRaises \/ MetricsRaisesLate \/ Undo \/ Degrade \/ Finish
  \/ \E s \in Signals, raises \in BOOLEAN : Drain(s, raises)
  \/ ResetRuntime \/ ResetPolicies

Call == Shutdown \/ \E c \in Asked : Setup(c) \/ Update(c) \/ Reconfigure(c)

Others ==
  \/ \E s \in Slots, v \in Hots : SetDirectly(s, v)
  \/ \E u \in Loggers : LazyStart(u) \/ LazySampling(u) \/ LazyConfigure(u)

Interrupted == PublishInterrupted \/ Escape

Next == Call \/ OpStep \/ Interrupted \/ Others

Spec == Init /\ [][Next]_vars

\* The thread inside the operation keeps running: its drains have deadlines.
FairSpec == Spec /\ WF_vars(OpStep)
-----------------------------------------------------------------------------
Policies == [Slots -> [val : Hots, by : {"config", "direct", "lazy"}]]

ProviderTypes ==
  /\ {installed, left} \subseteq SUBSET {"traces", "metrics"} /\ stray \in BOOLEAN
  /\ pipeline \in Configs \cup {NoPipeline, Emergency}
  /\ logProviders \in Nat /\ logRef \in {c.endpoint : c \in Configs} \cup {NoEndpoint}

JobTypes ==
  /\ pc \in {"idle", "snapshot", "apply", "rebuild", "publish", "restore", "logging",
             "traces", "metrics", "finish", "undo", "drain", "reset"}
  /\ op \in {"none", "setup", "update", "shutdown"} /\ target \in Configs
  /\ slot \in Slots /\ teardowns \subseteq Signals
  /\ next \in Configs \cup {NoConfig} /\ failed \in BOOLEAN
  /\ ops \in 0..MaxOps

AroundTypes ==
  /\ lazy \in [Loggers -> {"idle", "sampling", "configure"}]
  /\ outside \in 0..MaxOutside

TypeOK ==
  /\ gen \in [number : Nat, config : Configs \cup {NoConfig}, done : BOOLEAN]
  /\ torn \in BOOLEAN /\ policies \in Policies /\ saved \in Policies
  /\ ProviderTypes /\ JobTypes /\ AroundTypes

\* Policy p is what config c asks for, unless somebody else put it there.
Agrees(p, c) == p.by = "config" => p.val = c.hot

(* Between operations the policies in force are those of the published
   config, whether the last operation succeeded, failed half-way and was
   rolled back, or left telemetry degraded; only a policy set by somebody
   else may differ.  Except (torn) when an interrupt hits after a publication
   and before the end of the operation, or in the middle of putting the
   policies back, until the next publication.                              *)
InForce ==
  pc = "idle" /\ gen.config # NoConfig /\ ~torn
    => \A s \in Slots : Agrees(policies[s], gen.config)

(* Policies first, publication second: a generation with a new config appears
   when every one of its policies is in force.                             *)
PublishedLast ==
  [][gen'.config # NoConfig /\ gen'.config # gen.config
       => \A s \in Slots : Agrees(policies[s], gen'.config)]_vars

\* The pipeline in place has the provider fields of the published config.
PipelineIsPublished ==
  pipeline \in Configs /\ SameProvider(pipeline, gen.config) /\ pipeline.cold = gen.config.cold

(* While the published generation says setup is done, no tracer or meter
   provider appears or disappears, the log provider in use is not lost, and
   update_runtime_config and reconfigure_telemetry do not replace it, although
   each of them rebuilds the pipeline.  It is replaced by a get_logger that
   found logging unconfigured before the setup and goes on after it (stray'),
   and by an update that finds the pipeline of such a get_logger (stray), the
   emergency pipeline or the one of an update that raised.                 *)
ProvidersStable ==
  [][gen.done /\ gen'.done
       => /\ installed' = installed
          /\ logRef # NoEndpoint => logRef' # NoEndpoint
          /\ logRef # NoEndpoint /\ logProviders' > logProviders
               => stray \/ stray' \/ ~PipelineIsPublished]_vars

(* After a shutdown, and after a setup that failed, no tracer or meter
   provider of ours is left installed: except the ones an interrupted setup
   leaves behind, a setup that fails outside its try, and a setup_metrics that
   raises after it has installed its provider.                             *)
StoppedMeansDetached ==
  pc = "idle" /\ ~gen.done => installed \subseteq left

(* The generations readers see are those of the abstract lifecycle.        *)
GenerationsSpec == G!Spec

(* Every lifecycle operation comes to an end and lets the next one in.     *)
OperationsEnd == pc # "idle" ~> pc = "idle"

(* Where the operation is and what that says of the generation and of the
   providers: the part of the inductive invariant about control.           *)
OpInv ==
  /\ gen.done => gen.config # NoConfig
  /\ pc # "idle" /\ op # "update" => ~gen.done
  /\ pc \in {"snapshot", "apply", "rebuild", "publish", "restore"} => op \in {"setup", "update"}
  /\ pc \in {"logging", "traces", "metrics", "finish", "undo"} => op = "setup" /\ gen.config = target
  /\ pc \in {"drain", "reset"} => op = "shutdown"
  /\ pc = "reset" => gen.config = NoConfig
  /\ op = "update" /\ pc \in {"snapshot", "apply", "rebuild", "publish", "restore"}
       => target.cold = gen.config.cold
  /\ gen.done /\ pc \in {"snapshot", "apply", "rebuild"} /\ logRef # NoEndpoint /\ ~stray
       => SameProvider(target, gen.config)
  /\ ~gen.done /\ pc \notin {"traces", "metrics", "finish", "undo", "drain"}
       => installed \subseteq left
  /\ ~gen.done => installed \subseteq teardowns \cup left

(* What the policies in force and the ones put aside agree with at each step:
   the part of the inductive invariant about policies.                     *)
PolicyInv ==
  /\ pc \in {"idle", "snapshot", "logging", "traces", "metrics", "finish", "undo"}
       /\ gen.config # NoConfig /\ ~torn => \A s \in Slots : Agrees(policies[s], gen.config)
  /\ pc = "snapshot" /\ gen.config # NoConfig /\ ~torn
       => \A s \in Slots : s < slot => Agrees(saved[s], gen.config)
  /\ pc \in {"apply", "rebuild", "publish", "restore"} /\ gen.config # NoConfig /\ ~torn
       => \A s \in Slots : Agrees(saved[s], gen.config)
  /\ pc = "apply" => \A s \in Slots : s < slot => Agrees(policies[s], target)
  /\ pc \in {"rebuild", "publish"} => \A s \in Slots : Agrees(policies[s], target)
  /\ pc = "restore" /\ gen.config # NoConfig /\ ~torn
       => \A s \in Slots : s < slot => Agrees(policies[s], gen.config)

\* A log provider in use has been built.
LogCount == logRef # NoEndpoint => logProviders >= 1

IInv == TypeOK /\ OpInv /\ PolicyInv /\ LogCount

=============================================================================
