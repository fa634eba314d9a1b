--------------------------- MODULE LifecycleProofs ---------------------------
(***************************************************************************)
(* Theorems about Lifecycle for any configs, policies and loggers.  The    *)
(* inductive invariant adds to the types where the operation is (OpInv)    *)
(* and what the policies in force and the ones put aside agree with at     *)
(* that step (PolicyInv).                                                  *)
(***************************************************************************)
EXTENDS Lifecycle, TLAPS

\* The numeric facts of the assumption.
LEMMA Bounds == NSlots \in Nat /\ NSlots >= 1 /\ MaxOps \in Nat /\ MaxOutside \in Nat
  BY LifecycleAssumption

\* A config's policies are among the values a policy takes.
LEMMA HotsOfConfigs == ASSUME NEW c \in Configs PROVE c.hot \in Hots
  BY DEF Hots

\* NoConfig is not a config.
LEMMA NoConfigIsNone == NoConfig \notin Configs
  BY LifecycleAssumption

\* The fields of a config.
LEMMA Fields ==
  \A c \in Configs : DOMAIN c = {"hot", "cold", "level", "endpoint", "timeout"}
  BY LifecycleAssumption

\* Callers pass configs.
LEMMA AskedAreConfigs == Asked \subseteq Configs
  BY LifecycleAssumption

\* Every policy record is well-typed.
LEMMA PolicyTypes ==
  ASSUME NEW v \in Hots, NEW w \in {"config", "direct", "lazy"}
  PROVE  Policy(v, w) \in [val : Hots, by : {"config", "direct", "lazy"}]
  BY DEF Policy

\* Writing a policy leaves the policies well-typed.
LEMMA WriteTypes ==
  ASSUME NEW f \in Policies, NEW s \in Slots,
         NEW p \in [val : Hots, by : {"config", "direct", "lazy"}]
  PROVE  [f EXCEPT ![s] = p] \in Policies
  BY DEF Policies

\* The default policy is among the values a policy takes.
LEMMA DefaultIsHot == DefaultHot \in Hots
  BY DEF Hots

\* What ConfigureLogging leaves behind has its type.
LEMMA LoggingTypes ==
  ASSUME TypeOK, NEW c \in Configs, ConfigureLogging(c)
  PROVE  /\ pipeline' \in Configs \cup {NoPipeline, Emergency}
         /\ logProviders' \in Nat
         /\ logRef' \in {d.endpoint : d \in Configs} \cup {NoEndpoint}
  BY DEF ConfigureLogging, BuildLogProvider, TypeOK, ProviderTypes

\* The environment's config and a config with the cold fields of another.
LEMMA Merged ==
  /\ EnvConfig \in Configs
  /\ \A c, d \in Configs : [c EXCEPT !.cold = d.cold] \in Configs
  BY LifecycleAssumption

-----------------------------------------------------------------------------
\* The initial state satisfies the inductive invariant.
LEMMA InitInv == Init => IInv
  <1> SUFFICES ASSUME Init PROVE IInv OBVIOUS
  <1>2. gen = [number |-> 0, config |-> NoConfig, done |-> FALSE]
    BY DEF Init, G!Init, G!Generation
  <1>3. policies \in Policies /\ saved \in Policies
    BY DefaultIsHot, PolicyTypes DEF Init, Policies
  <1>4. TypeOK
    <2>1. gen \in [number : Nat, config : Configs \cup {NoConfig}, done : BOOLEAN] BY <1>2
    <2>2. ProviderTypes BY DEF Init, ProviderTypes
    <2>3. slot \in Slots /\ ops \in 0..MaxOps BY Bounds DEF Init, Slots
    <2>4. JobTypes BY <2>3, Merged DEF Init, JobTypes, Signals
    <2>5. AroundTypes BY Bounds DEF Init, AroundTypes
    <2>6. torn \in BOOLEAN BY DEF Init
    <2> QED BY <1>3, <2>1, <2>2, <2>4, <2>5, <2>6 DEF TypeOK
  <1>5. OpInv BY <1>2 DEF Init, OpInv
  <1>6. PolicyInv BY <1>2 DEF Init, PolicyInv
  <1>7. LogCount BY DEF Init, LogCount
  <1> QED BY <1>4, <1>5, <1>6, <1>7 DEF IInv

\* The loop over the policies stays within the policies.
LEMMA SlotStep ==
  ASSUME JobTypes, NEW from, NEW to, AtSlot(from, to)
  PROVE  slot' \in Slots /\ pc' \in {from, to}
  BY Bounds DEF JobTypes, AtSlot, Slots

\* A publication is a generation.
LEMMA GenTypes ==
  ASSUME TypeOK, NEW c \in Configs \cup {NoConfig}, NEW d \in BOOLEAN, G!Publish(c, d)
  PROVE  gen' \in [number : Nat, config : Configs \cup {NoConfig}, done : BOOLEAN]
  BY DEF TypeOK, G!Publish, G!Generation

\* Detaching a provider keeps the providers well-typed, given that a log
\* provider in use has been counted.
LEMMA DetachTypes ==
  ASSUME TypeOK, LogCount, NEW s \in Signals, Detach(s)
  PROVE  ProviderTypes'
  <1> USE DEF Detach, logging, providers, TypeOK, ProviderTypes
  <1>1. CASE s = "logs"
    <2>1. logProviders' \in Nat BY <1>1 DEF LogCount
    <2> QED BY <1>1, <2>1
  <1>2. CASE s # "logs"
    BY <1>2
  <1> QED BY <1>1, <1>2

\* Detaching and configuring keep a log provider in use counted.
LEMMA CountKept ==
  ASSUME TypeOK, LogCount,
         \/ \E s \in Signals : Detach(s)
         \/ \E c \in Configs : ConfigureLogging(c)
         \/ UNCHANGED logging
  PROVE  LogCount'
  BY DEF LogCount, Detach, logging, ConfigureLogging, BuildLogProvider, TypeOK, ProviderTypes

\* The record a publication makes.
LEMMA PublishFields ==
  ASSUME NEW c, NEW d, G!Publish(c, d)
  PROVE  gen'.config = c /\ gen'.done = d /\ gen'.number = gen.number + 1
  BY DEF G!Publish, G!Generation

\* The steps that publish, and the ones that leave the generation alone.
LEMMA GenSteps ==
  ASSUME [Next]_vars
  PROVE  \/ UNCHANGED gen
         \/ Publish \/ PublishInterrupted \/ Finish \/ ResetRuntime
         \/ \E c \in Configs \cup {NoConfig} : Stop(c)
  BY AskedAreConfigs
  DEF Next, Call, OpStep, Interrupted, Others, published, providers, Shutdown,
      Reconfigure, vars, Setup, Update, Snapshot, Apply, Rebuild, UpdateRaises,
      PublishInterrupted, Escape, Restore, SetupLogging, SetupProvider, SetupRaises,
      MetricsRaisesLate, Undo, Degrade, Drain, ResetPolicies, SetDirectly, LazyStart,
      LazySampling, LazyConfigure

\* The published generation keeps its type.
LEMMA GenerationStep ==
  ASSUME TypeOK, [Next]_vars
  PROVE  gen' \in [number : Nat, config : Configs \cup {NoConfig}, done : BOOLEAN]
  <1>a. gen \in [number : Nat, config : Configs \cup {NoConfig}, done : BOOLEAN]
    BY DEF TypeOK
  <1>b. gen.config \in Configs \cup {NoConfig} /\ gen.done \in BOOLEAN
    BY <1>a
  <1>1. CASE UNCHANGED gen
    BY <1>a, <1>1
  <1>2. CASE Publish \/ PublishInterrupted
    BY <1>b, <1>2, GenTypes DEF Publish, PublishInterrupted, TypeOK, JobTypes
  <1>3. CASE Finish \/ ResetRuntime
    BY <1>b, <1>3, GenTypes DEF Finish, ResetRuntime
  <1>4. CASE \E c \in Configs \cup {NoConfig} : Stop(c)
    BY <1>b, <1>4, GenTypes DEF Stop, G!Stop
  <1> QED BY <1>1, <1>2, <1>3, <1>4, GenSteps

\* torn stays a truth value.
LEMMA TornStep ==
  ASSUME TypeOK, [Next]_vars
  PROVE  torn' \in BOOLEAN
  <1>a. torn \in BOOLEAN BY DEF TypeOK
  <1>1. CASE UNCHANGED torn
    BY <1>a, <1>1
  <1>2. CASE Publish \/ PublishInterrupted \/ ResetRuntime \/ Escape
    BY <1>2 DEF Publish, PublishInterrupted, ResetRuntime, Escape
  <1> QED
    BY <1>1, <1>2
    DEF Next, Call, OpStep, Interrupted, Others, Shutdown, Reconfigure, vars, published,
        Setup, Update, Stop, Snapshot, Apply, Rebuild, UpdateRaises, Restore,
        SetupLogging, SetupProvider, SetupRaises, MetricsRaisesLate, Undo, Degrade,
        Finish, Drain, ResetPolicies, SetDirectly, LazyStart, LazySampling, LazyConfigure

\* The policies in force and the ones put aside keep their type.
LEMMA PoliciesStep ==
  ASSUME TypeOK, [Next]_vars
  PROVE  policies' \in Policies /\ saved' \in Policies
  <1>a. policies \in Policies /\ saved \in Policies /\ slot \in Slots /\ target \in Configs
    BY DEF TypeOK, JobTypes
  <1>b. 1 \in Slots
    BY Bounds DEF Slots
  <1>0. CASE UNCHANGED <<policies, saved>>
    BY <1>0, <1>a
  <1>1. CASE Snapshot
    <2>1. policies[slot] \in [val : Hots, by : {"config", "direct", "lazy"}]
      BY <1>a DEF Policies
    <2> QED BY <1>1, <1>a, <2>1, WriteTypes DEF Snapshot
  <1>2. CASE Apply
    <2>1. Policy(target.hot, "config") \in [val : Hots, by : {"config", "direct", "lazy"}]
      BY <1>a, PolicyTypes, HotsOfConfigs
    <2> QED BY <1>2, <1>a, <2>1, WriteTypes DEF Apply, Write
  <1>3. CASE Restore
    <2>1. saved[slot] \in [val : Hots, by : {"config", "direct", "lazy"}]
      BY <1>a DEF Policies
    <2> QED BY <1>3, <1>a, <2>1, WriteTypes DEF Restore, Write
  <1>4. CASE ResetPolicies
    <2>1. Policy(DefaultHot, "config") \in [val : Hots, by : {"config", "direct", "lazy"}]
      BY PolicyTypes, DefaultIsHot
    <2> QED BY <1>4, <1>a, <2>1, WriteTypes DEF ResetPolicies, Write, StartApplying
  <1>5. ASSUME NEW g \in Slots, NEW v \in Hots, SetDirectly(g, v)
        PROVE  policies' \in Policies /\ saved' \in Policies
    BY <1>5, <1>a, WriteTypes, PolicyTypes DEF SetDirectly, job
  <1>6. ASSUME NEW u \in Loggers, LazySampling(u)
        PROVE  policies' \in Policies /\ saved' \in Policies
    BY <1>6, <1>a, <1>b, WriteTypes, PolicyTypes, HotsOfConfigs, Merged
    DEF LazySampling, job
  <1> QED
    BY <1>0, <1>1, <1>2, <1>3, <1>4, <1>5, <1>6
    DEF Next, Call, OpStep, Interrupted, Others, published, providers, Shutdown,
        Reconfigure, vars, Setup, Update, Stop, Snapshot, Apply, Rebuild, Publish,
        UpdateRaises, PublishInterrupted, Escape, Restore, SetupLogging, SetupProvider,
        SetupRaises, MetricsRaisesLate, Undo, Degrade, Finish, Drain, ResetRuntime,
        ResetPolicies, SetDirectly, LazyStart, LazySampling, LazyConfigure, StartApplying,
        job

\* The providers and the logging pipeline keep their type and their count.
LEMMA ProvidersStep ==
  ASSUME TypeOK, LogCount, [Next]_vars
  PROVE  ProviderTypes' /\ LogCount'
  <1>a. ProviderTypes /\ target \in Configs /\ LastCompleted \in Signals
    BY DEF TypeOK, JobTypes, LastCompleted, Signals
  <1>0. CASE UNCHANGED <<providers, logging>>
    BY <1>0, <1>a, CountKept DEF ProviderTypes, logging, providers
  <1>1. CASE Rebuild \/ SetupLogging \/ Degrade
    BY <1>1, <1>a, LoggingTypes, CountKept
    DEF Rebuild, SetupLogging, Degrade, Configure, ProviderTypes, providers
  <1>6. CASE Escape
    BY <1>6, <1>a, CountKept DEF Escape, ProviderTypes, logging
  <1>2. CASE \/ SetupProvider("traces", "metrics") \/ SetupProvider("metrics", "finish")
             \/ MetricsRaisesLate
    BY <1>2, <1>a, CountKept DEF SetupProvider, MetricsRaisesLate, ProviderTypes, logging
  <1>3. CASE Undo
    BY <1>3, <1>a, DetachTypes, CountKept DEF Undo
  <1>4. CASE \E s \in Signals, r \in BOOLEAN : Drain(s, r)
    BY <1>4, DetachTypes, CountKept DEF Drain
  <1>5. ASSUME NEW u \in Loggers, LazyConfigure(u) PROVE ProviderTypes' /\ LogCount'
    BY <1>5, <1>a, LoggingTypes, CountKept, Merged
    DEF LazyConfigure, ProviderTypes, logging, providers
  <1> QED
    BY <1>0, <1>1, <1>2, <1>3, <1>4, <1>5, <1>6
    DEF Next, Call, OpStep, Interrupted, Others, published, providers, Shutdown,
        Reconfigure, vars, Setup, Update, Stop, Snapshot, Apply, Rebuild, Publish,
        UpdateRaises, PublishInterrupted, Escape, Restore, SetupLogging, SetupProvider,
        SetupRaises, MetricsRaisesLate, Undo, Degrade, Finish, Drain, ResetRuntime,
        ResetPolicies, SetDirectly, LazyStart, LazySampling, LazyConfigure

\* The state of the operation keeps its type.
LEMMA JobStep ==
  ASSUME TypeOK, [Next]_vars
  PROVE  JobTypes'
  <1>a. JobTypes /\ gen.config \in Configs \cup {NoConfig}
    BY DEF TypeOK
  <1>b. 1 \in Slots
    BY Bounds DEF Slots
  <1>o. ASSUME Begin PROVE ops' \in 0..MaxOps
    BY <1>o, <1>a, Bounds DEF Begin, JobTypes
  <1>0. CASE UNCHANGED <<pc, job, ops>>
    BY <1>0, <1>a DEF job, JobTypes
  <1>1. ASSUME NEW c \in Configs, Setup(c) PROVE JobTypes'
    BY <1>1, <1>a, <1>b, <1>o DEF Setup, Begin, StartApplying, JobTypes
  <1>2. ASSUME NEW c \in Configs, Update(c) PROVE JobTypes'
    BY <1>2, <1>a, <1>b, <1>o, Merged DEF Update, Begin, StartApplying, JobTypes
  <1>3. ASSUME NEW c \in Configs \cup {NoConfig}, Stop(c) PROVE JobTypes'
    BY <1>3, <1>a, <1>o DEF Stop, Begin, JobTypes
  <1>4. CASE Snapshot \/ Restore
    BY <1>4, <1>a, SlotStep DEF Snapshot, Restore, JobTypes
  <1>5. CASE Apply
    BY <1>5, <1>a, SlotStep DEF Apply, JobTypes
  <1>6. CASE Rebuild \/ Publish \/ SetupRaises \/ MetricsRaisesLate \/ Degrade \/ Finish
    BY <1>6, <1>a
    DEF Rebuild, Publish, SetupRaises, MetricsRaisesLate, Degrade, Finish, job, JobTypes
  <1>7. CASE \/ SetupLogging
             \/ SetupProvider("traces", "metrics") \/ SetupProvider("metrics", "finish")
    BY <1>7, <1>a DEF SetupLogging, SetupProvider, JobTypes, Signals
  <1>8. CASE Undo \/ \E s \in Signals, r \in BOOLEAN : Drain(s, r)
    BY <1>8, <1>a DEF Undo, Drain, JobTypes
  <1>9. CASE UpdateRaises \/ PublishInterrupted \/ ResetRuntime
    BY <1>9, <1>a, <1>b DEF UpdateRaises, PublishInterrupted, ResetRuntime, JobTypes
  <1>11. CASE Escape
    BY <1>11, <1>a DEF Escape, job, JobTypes
  <1>10. CASE ResetPolicies
    <2>1. slot' \in Slots
      BY <1>10, <1>a, <1>b, Bounds DEF ResetPolicies, StartApplying, JobTypes, Slots
    <2> QED BY <1>10, <1>a, <2>1 DEF ResetPolicies, StartApplying, JobTypes
  <1> QED
    BY <1>0, <1>1, <1>2, <1>3, <1>4, <1>5, <1>6, <1>7, <1>8, <1>9, <1>10, <1>11, AskedAreConfigs
    DEF Next, Call, OpStep, Interrupted, Others, published, providers, Shutdown,
        Reconfigure, vars, SetDirectly, LazyStart, LazySampling, LazyConfigure

\* What runs around the operations keeps its type.
LEMMA AroundStep ==
  ASSUME TypeOK, [Next]_vars
  PROVE  AroundTypes'
  <1>a. AroundTypes /\ gen.config \in Configs \cup {NoConfig} /\ gen.done \in BOOLEAN
    BY DEF TypeOK
  <1>0. CASE UNCHANGED around
    BY <1>0, <1>a DEF around, AroundTypes
  <1>1. ASSUME NEW g \in Slots, NEW v \in Hots, SetDirectly(g, v) PROVE AroundTypes'
    BY <1>1, <1>a, Bounds DEF SetDirectly, AroundTypes
  <1>2. ASSUME NEW u \in Loggers, LazyStart(u) \/ LazySampling(u) \/ LazyConfigure(u)
        PROVE  AroundTypes'
    <2>1. outside' \in 0..MaxOutside
      BY <1>2, <1>a, Bounds DEF LazyStart, LazySampling, LazyConfigure, AroundTypes
    <2> QED BY <1>2, <1>a, <2>1 DEF LazyStart, LazySampling, LazyConfigure, AroundTypes
  <1> QED
    BY <1>0, <1>1, <1>2
    DEF Next, Call, OpStep, Interrupted, Others, published, providers, Shutdown,
        Reconfigure, vars, Setup, Update, Stop, Snapshot, Apply, Rebuild, Publish,
        UpdateRaises, PublishInterrupted, Escape, Restore, SetupLogging, SetupProvider,
        SetupRaises, MetricsRaisesLate, Undo, Degrade, Finish, Drain, ResetRuntime,
        ResetPolicies, SetDirectly, LazyStart, LazySampling, LazyConfigure

\* Every step keeps the types, and counts the log provider in use.
LEMMA TypeStep ==
  ASSUME TypeOK, LogCount, [Next]_vars
  PROVE  TypeOK' /\ LogCount'
  BY GenerationStep, TornStep, PoliciesStep, ProvidersStep, JobStep, AroundStep DEF TypeOK

\* Every step keeps the part of the invariant about control.
LEMMA OpStepInv ==
  ASSUME TypeOK, OpInv, [Next]_vars
  PROVE  OpInv'
  <1>a. /\ gen.done \in BOOLEAN /\ target \in Configs /\ installed \subseteq {"traces", "metrics"}
        /\ pc \in {"idle", "snapshot", "apply", "rebuild", "publish", "restore", "logging",
                   "traces", "metrics", "finish", "undo", "drain", "reset"}
        /\ op \in {"none", "setup", "update", "shutdown"}
        /\ next \in Configs \cup {NoConfig}
    BY DEF TypeOK, ProviderTypes, JobTypes
  <1>l. LastCompleted \in teardowns \/ LastCompleted = "logs"
    BY DEF LastCompleted
  <1>0. CASE UNCHANGED <<gen, providers, logRef, stray, pc, op, target, teardowns>>
    BY <1>0 DEF OpInv, providers
  <1>1. ASSUME NEW c \in Configs, Setup(c) PROVE OpInv'
    BY <1>1 DEF Setup, Begin, StartApplying, OpInv, published, providers
  <1>2. ASSUME NEW c \in Configs, Update(c) PROVE OpInv'
    <2>1. /\ [c EXCEPT !.cold = gen.config.cold].cold = gen.config.cold
          /\ SameProvider([c EXCEPT !.cold = gen.config.cold], c)
      BY Fields DEF SameProvider
    <2> QED
      BY <1>2, <2>1
      DEF Update, Begin, StartApplying, OpInv, SameProvider, published, providers, logging
  <1>3. ASSUME NEW c \in Configs \cup {NoConfig}, Stop(c) PROVE OpInv'
    BY <1>3, <1>a, PublishFields DEF Stop, Begin, G!Stop, OpInv, Signals, providers
  <1>4. CASE Snapshot
    BY <1>4 DEF Snapshot, AtSlot, OpInv, published, providers, logging
  <1>5. CASE Apply
    BY <1>5 DEF Apply, AtSlot, LoggingChanged, OpInv, published, providers, logging
  <1>6. CASE Restore
    BY <1>6 DEF Restore, AtSlot, OpInv, published, providers, logging
  <1>7. CASE Rebuild \/ UpdateRaises \/ SetupRaises \/ MetricsRaisesLate
    BY <1>7
    DEF Rebuild, UpdateRaises, SetupRaises, MetricsRaisesLate, job, OpInv, published,
        providers, logging
  <1>17. CASE PublishInterrupted
    BY <1>17, <1>a, PublishFields, NoConfigIsNone
    DEF PublishInterrupted, OpInv, providers, logging
  <1>18. CASE Escape
    BY <1>18, <1>a DEF Escape, job, OpInv, logging
  <1>19. ASSUME NEW u \in Loggers, LazyConfigure(u) PROVE OpInv'
    BY <1>19 DEF LazyConfigure, job, OpInv, published, providers, logging
  <1>8. CASE Publish
    BY <1>8, <1>a, PublishFields, NoConfigIsNone DEF Publish, job, OpInv, providers, logging
  <1>9. CASE SetupLogging
    BY <1>9 DEF SetupLogging, OpInv, published, providers
  <1>10. CASE SetupProvider("traces", "metrics") \/ SetupProvider("metrics", "finish")
    BY <1>10 DEF SetupProvider, OpInv, published, logging
  <1>11. CASE Undo
    BY <1>11, <1>a, <1>l DEF Undo, Detach, OpInv, published, providers, logging
  <1>12. CASE Degrade
    BY <1>12 DEF Degrade, job, OpInv, published, providers
  <1>13. CASE Finish
    BY <1>13, <1>a, PublishFields, NoConfigIsNone DEF Finish, job, OpInv, providers, logging
  <1>14. ASSUME NEW g \in Signals, NEW r \in BOOLEAN, Drain(g, r) PROVE OpInv'
    BY <1>14, <1>a DEF Drain, Detach, OpInv, published, providers, logging
  <1>15. CASE ResetRuntime
    BY <1>15, <1>a, PublishFields DEF ResetRuntime, OpInv, providers, logging
  <1>16. CASE ResetPolicies
    BY <1>16 DEF ResetPolicies, StartApplying, OpInv, published, providers, logging
  <1> QED
    BY <1>0, <1>1, <1>2, <1>3, <1>4, <1>5, <1>6, <1>7, <1>8, <1>9, <1>10, <1>11, <1>12,
       <1>13, <1>14, <1>15, <1>16, <1>17, <1>18, <1>19, AskedAreConfigs
    DEF Next, Call, OpStep, Interrupted, Others, published, providers, Shutdown,
        Reconfigure, vars, SetDirectly, LazyStart, LazySampling, logging, job

\* What somebody else set, or the same policy, agrees with the same config.
LEMMA PolicyKept ==
  ASSUME PolicyInv, UNCHANGED <<published, pc, target, saved, slot>>,
         \A s \in Slots : policies'[s] = policies[s] \/ policies'[s].by # "config"
  PROVE  PolicyInv'
  BY DEF PolicyInv, Agrees, published

\* A policy a config asks for agrees with that config.
LEMMA ConfigAgrees == \A c : Agrees(Policy(c.hot, "config"), c)
  BY DEF Agrees, Policy

\* Writing policy p in slot t.
LEMMA Written ==
  ASSUME NEW f \in Policies, NEW t \in Slots, NEW p, NEW s \in Slots
  PROVE  [f EXCEPT ![t] = p][s] = IF s = t THEN p ELSE f[s]
  BY DEF Policies

\* Every step keeps what the policies agree with.
LEMMA PolicyStepInv ==
  ASSUME TypeOK, OpInv, PolicyInv, [Next]_vars
  PROVE  PolicyInv'
  <1>a. /\ policies \in Policies /\ saved \in Policies /\ target \in Configs
        /\ slot \in 1..NSlots /\ NSlots \in Nat /\ 1 \in Slots /\ slot \in Slots
    BY Bounds DEF TypeOK, JobTypes, Slots
  <1>b. \A s \in Slots : s \in 1..NSlots
    BY DEF Slots
  <1>0. ASSUME UNCHANGED vars PROVE PolicyInv'
    BY <1>0, PolicyKept DEF vars, job
  <1>1. ASSUME NEW c \in Configs, Setup(c) \/ Update(c) PROVE PolicyInv'
    BY <1>1, <1>a, <1>b DEF Setup, Update, Begin, StartApplying, PolicyInv, published
  <1>3. ASSUME NEW c \in Configs \cup {NoConfig}, Stop(c) PROVE PolicyInv'
    BY <1>3 DEF Stop, Begin, PolicyInv, published
  <1>4. ASSUME Snapshot PROVE PolicyInv'
    <2>1. \A s \in Slots : saved'[s] = IF s = slot THEN policies[slot] ELSE saved[s]
      BY <1>4, <1>a, Written DEF Snapshot
    <2>2. CASE slot < NSlots
      <3>1. /\ pc = "snapshot" /\ pc' = "snapshot" /\ slot' = slot + 1
            /\ UNCHANGED <<published, target, policies>>
        BY <1>4, <2>2 DEF Snapshot, AtSlot
      <3>2. \A s \in Slots : s < slot' => s < slot \/ s = slot
        BY <1>a, <1>b, <3>1
      <3>3. gen.config # NoConfig /\ ~torn => \A s \in Slots : s < slot' => Agrees(saved'[s], gen.config)
        BY <1>a, <2>1, <3>1, <3>2 DEF PolicyInv, published
      <3> QED BY <3>1, <3>3 DEF PolicyInv, published
    <2>3. CASE ~(slot < NSlots)
      <3>1. /\ pc = "snapshot" /\ pc' = "apply" /\ slot' = 1 /\ UNCHANGED <<published, target, policies>>
        BY <1>4, <2>3 DEF Snapshot, AtSlot
      <3>2. \A s \in Slots : ~(s < slot') /\ (s < slot \/ s = slot)
        BY <1>a, <1>b, <2>3, <3>1
      <3>3. gen.config # NoConfig /\ ~torn => \A s \in Slots : Agrees(saved'[s], gen.config)
        BY <1>a, <2>1, <3>1, <3>2 DEF PolicyInv, published
      <3> QED BY <3>1, <3>2, <3>3 DEF PolicyInv, published
    <2> QED BY <2>2, <2>3
  <1>5. ASSUME Apply PROVE PolicyInv'
    <2>1. \A s \in Slots : policies'[s] = IF s = slot THEN Policy(target.hot, "config")
                                          ELSE policies[s]
      BY <1>5, <1>a, Written DEF Apply, Write
    <2>2. CASE slot < NSlots
      <3>1. /\ pc = "apply" /\ pc' = "apply" /\ slot' = slot + 1
            /\ UNCHANGED <<published, target, saved>>
        BY <1>5, <2>2 DEF Apply, AtSlot
      <3>2. \A s \in Slots : s < slot' => s < slot \/ s = slot
        BY <1>a, <1>b, <3>1
      <3>3. \A s \in Slots : s < slot' => Agrees(policies'[s], target)
        BY <1>a, <2>1, <3>1, <3>2, ConfigAgrees DEF PolicyInv, published
      <3> QED BY <3>1, <3>3 DEF PolicyInv, published
    <2>3. CASE ~(slot < NSlots)
      <3>1. /\ pc = "apply" /\ pc' \in {"rebuild", "publish"} /\ UNCHANGED <<published, target, saved>>
        BY <1>5, <2>3 DEF Apply, AtSlot
      <3>2. \A s \in Slots : s < slot \/ s = slot
        BY <1>a, <1>b, <2>3
      <3>3. \A s \in Slots : Agrees(policies'[s], target)
        BY <1>a, <2>1, <3>1, <3>2, ConfigAgrees DEF PolicyInv, published
      <3> QED BY <3>1, <3>3 DEF PolicyInv, published
    <2> QED BY <2>2, <2>3
  <1>6. ASSUME Rebuild \/ UpdateRaises PROVE PolicyInv'
    BY <1>6, <1>a, <1>b DEF Rebuild, UpdateRaises, job, PolicyInv, published
  <1>8. ASSUME PublishInterrupted PROVE PolicyInv'
    BY <1>8, <1>a, <1>b, PublishFields DEF PublishInterrupted, PolicyInv
  <1>12. ASSUME Escape PROVE PolicyInv'
    <2>2. ~torn' => ~torn /\ pc # "restore" BY <1>12 DEF Escape
    <2>3. pc = "reset" => gen.config = NoConfig BY DEF OpInv
    <2>4. /\ pc' = "idle" /\ UNCHANGED <<gen, policies>>
          /\ pc \in {"snapshot", "restore", "logging", "traces", "metrics", "finish", "undo", "reset"}
      BY <1>12 DEF Escape
    <2> QED BY <2>2, <2>3, <2>4 DEF PolicyInv
  <1>7. ASSUME Publish PROVE PolicyInv'
    BY <1>7, PublishFields DEF Publish, job, PolicyInv, published
  <1>9. ASSUME Restore PROVE PolicyInv'
    <2>1. \A s \in Slots : policies'[s] = IF s = slot THEN saved[slot] ELSE policies[s]
      BY <1>9, <1>a, Written DEF Restore, Write
    <2>2. CASE slot < NSlots
      <3>1. /\ pc = "restore" /\ pc' = "restore" /\ slot' = slot + 1
            /\ UNCHANGED <<published, target, saved>>
        BY <1>9, <2>2 DEF Restore, AtSlot
      <3>2. \A s \in Slots : s < slot' => s < slot \/ s = slot
        BY <1>a, <1>b, <3>1
      <3>3. gen.config # NoConfig /\ ~torn => \A s \in Slots : s < slot' => Agrees(policies'[s], gen.config)
        BY <1>a, <2>1, <3>1, <3>2 DEF PolicyInv, published
      <3> QED BY <3>1, <3>3 DEF PolicyInv, published
    <2>3. CASE ~(slot < NSlots)
      <3>1. /\ pc = "restore" /\ pc' = "idle" /\ UNCHANGED <<published, target, saved>>
        BY <1>9, <2>3 DEF Restore, AtSlot
      <3>2. \A s \in Slots : s < slot \/ s = slot
        BY <1>a, <1>b, <2>3
      <3>3. gen.config # NoConfig /\ ~torn => \A s \in Slots : Agrees(policies'[s], gen.config)
        BY <1>a, <2>1, <3>1, <3>2 DEF PolicyInv, published
      <3> QED BY <3>1, <3>3 DEF PolicyInv, published
    <2> QED BY <2>2, <2>3
  <1>10. ASSUME SetupLogging \/ SetupRaises \/ MetricsRaisesLate \/ Degrade
         PROVE PolicyInv'
    BY <1>10
    DEF SetupLogging, SetupRaises, MetricsRaisesLate, Degrade, job, PolicyInv, published
  <1>11. ASSUME SetupProvider("traces", "metrics") \/ SetupProvider("metrics", "finish")
         PROVE PolicyInv'
    BY <1>11 DEF SetupProvider, PolicyInv, published
  <1>13. ASSUME Undo PROVE PolicyInv'
    BY <1>13, PolicyKept DEF Undo
  <1>15. ASSUME Finish PROVE PolicyInv'
    BY <1>15, PublishFields DEF Finish, job, PolicyInv, published
  <1>16. ASSUME NEW g \in Signals, NEW r \in BOOLEAN, Drain(g, r) PROVE PolicyInv'
    BY <1>16, PolicyKept DEF Drain
  <1>17. ASSUME ResetRuntime PROVE PolicyInv'
    BY <1>17 DEF ResetRuntime, PolicyInv, published
  <1>18. ASSUME ResetPolicies PROVE PolicyInv'
    <2>1. gen'.config = NoConfig BY <1>18 DEF ResetPolicies, OpInv, published
    <2> QED BY <1>18, <1>a, <1>b, <2>1 DEF ResetPolicies, StartApplying, PolicyInv, published
  <1>19. ASSUME NEW g \in Slots, NEW v \in Hots, SetDirectly(g, v) PROVE PolicyInv'
    <2>1. \A s \in Slots : policies'[s] = IF s = g THEN Policy(v, "direct") ELSE policies[s]
      BY <1>19, <1>a, Written DEF SetDirectly
    <2> QED BY <1>19, <2>1, PolicyKept DEF SetDirectly, job, Policy
  <1>20. ASSUME NEW u \in Loggers, LazyStart(u) \/ LazyConfigure(u) PROVE PolicyInv'
    BY <1>20, PolicyKept DEF LazyStart, LazyConfigure, job
  <1>21. ASSUME NEW u \in Loggers, LazySampling(u) PROVE PolicyInv'
    <2>1. \A s \in Slots : policies'[s] = IF s = 1 THEN Policy(EnvConfig.hot, "lazy")
                                          ELSE policies[s]
      BY <1>21, <1>a, Written DEF LazySampling
    <2> QED BY <1>21, <2>1, PolicyKept DEF LazySampling, job, Policy
  <1> QED
    BY <1>0, <1>1, <1>3, <1>4, <1>5, <1>6, <1>7, <1>8, <1>9, <1>10, <1>11, <1>12, <1>13, <1>15, <1>16,
       <1>17, <1>18, <1>19, <1>20, <1>21, AskedAreConfigs
    DEF Next, Call, OpStep, Interrupted, Others, published, providers, Shutdown, Reconfigure

\* The inductive invariant holds throughout.
LEMMA Invariance == Spec => []IInv
  <1>1. IInv /\ [Next]_vars => IInv'
    BY TypeStep, OpStepInv, PolicyStepInv DEF IInv
  <1> QED BY InitInv, <1>1, PTL DEF Spec

-----------------------------------------------------------------------------
(* Every variable keeps its type; in particular the count of log providers,
   which shutdown_logging decrements, never goes below zero.               *)
THEOREM TypesHold == Spec => []TypeOK
  <1>1. IInv => TypeOK BY DEF IInv
  <1> QED BY Invariance, <1>1, PTL

(* Between operations the policies in force are those of the published
   config, except the ones somebody else set, after success, rollback and
   degraded setup alike.                                                   *)
THEOREM PoliciesInForce == Spec => []InForce
  <1>1. IInv => InForce BY DEF IInv, PolicyInv, InForce
  <1> QED BY Invariance, <1>1, PTL

(* After a shutdown, and after a setup that failed, no tracer or meter
   provider of ours is left installed, except the ones left behind by a setup
   that was interrupted or failed outside its try, and by a setup_metrics that
   raised after its provider was installed.                                *)
THEOREM StoppedDetached == Spec => []StoppedMeansDetached
  <1>1. IInv => StoppedMeansDetached BY DEF IInv, OpInv, StoppedMeansDetached
  <1> QED BY Invariance, <1>1, PTL

(* A generation with a new config appears when every one of its policies is
   in force.                                                               *)
THEOREM PublicationIsLast == Spec => PublishedLast
  <1> DEFINE Last == gen'.config # NoConfig /\ gen'.config # gen.config
                       => \A s \in Slots : Agrees(policies[s], gen'.config)
  <1>1. IInv /\ [Next]_vars => Last
    <2> SUFFICES ASSUME IInv, [Next]_vars PROVE Last OBVIOUS
    <2>1. CASE Publish \/ PublishInterrupted
      BY <2>1, PublishFields DEF Publish, PublishInterrupted, IInv, PolicyInv
    <2>2. CASE Finish
      BY <2>2, PublishFields DEF Finish
    <2>3. CASE ResetRuntime
      BY <2>3, PublishFields DEF ResetRuntime
    <2>4. CASE \E c \in Configs \cup {NoConfig} : Stop(c)
      BY <2>4, PublishFields DEF Stop, G!Stop
    <2> QED BY <2>1, <2>2, <2>3, <2>4, GenSteps
  <1> QED BY Invariance, <1>1, PTL DEF Spec, PublishedLast

(* While the published generation says setup is done, no tracer or meter
   provider appears or disappears, the log provider in use is not lost, and it
   is replaced only by a get_logger that found logging unconfigured before the
   setup, after such a get_logger, or when the pipeline in place is not the
   published config's.                                                     *)
THEOREM StableProviders == Spec => ProvidersStable
  <1> DEFINE Kept == /\ installed' = installed
                     /\ logRef # NoEndpoint => logRef' # NoEndpoint
                     /\ logRef # NoEndpoint /\ logProviders' > logProviders
                          => stray \/ stray' \/ ~PipelineIsPublished
  <1>1. IInv /\ [Next]_vars => (gen.done /\ gen'.done => Kept)
    <2> SUFFICES ASSUME IInv, [Next]_vars, gen.done, gen'.done PROVE Kept OBVIOUS
    <2>a. OpInv /\ logProviders \in Nat BY DEF IInv, TypeOK, ProviderTypes
    <2>b. pc \notin {"logging", "traces", "metrics", "finish", "undo", "drain", "reset"}
      BY <2>a DEF OpInv
    <2>c. ASSUME NEW c, ConfigureLogging(c) PROVE logRef # NoEndpoint => logRef' # NoEndpoint
      BY <2>c DEF ConfigureLogging, BuildLogProvider
    <2>1. CASE UNCHANGED <<installed, logRef, logProviders>>
      BY <2>1, <2>a
    <2>2. CASE \E u \in Loggers : LazyConfigure(u)
      <3>1. UNCHANGED logging \/ (ConfigureLogging(EnvConfig) /\ stray')
        BY <2>2 DEF LazyConfigure
      <3>2. installed' = installed BY <2>2 DEF LazyConfigure, providers
      <3> QED BY <3>1, <3>2, <2>a, <2>c DEF logging
    <2>3. CASE Rebuild
      <3>1. installed' = installed /\ ConfigureLogging(target)
        BY <2>3 DEF Rebuild, Configure, providers
      <3>2. ASSUME logRef # NoEndpoint, ~stray, PipelineIsPublished
            PROVE  logProviders' = logProviders
        <4>1. SameProvider(target, gen.config) /\ target.cold = gen.config.cold
          BY <2>3, <2>a, <3>2 DEF Rebuild, OpInv
        <4>2. CanReuse(target)
          BY <3>2, <4>1 DEF CanReuse, PipelineIsPublished, SameProvider
        <4> QED BY <3>1, <4>2 DEF ConfigureLogging, BuildLogProvider
      <3> QED BY <3>1, <3>2, <2>a, <2>c
    <2> QED
      BY <2>b, <2>1, <2>2, <2>3
      DEF Next, Call, OpStep, Interrupted, Others, Shutdown, Reconfigure, vars, logging,
          providers, Setup, Update, Stop, G!Stop, G!Publish, G!Generation, Snapshot,
          Apply, Publish, PublishInterrupted, UpdateRaises, Restore, Escape, SetupLogging,
          SetupProvider, SetupRaises, MetricsRaisesLate, Undo, Degrade, Finish, Drain,
          ResetRuntime, ResetPolicies, SetDirectly, LazyStart, LazySampling
  <1> QED BY Invariance, <1>1, PTL DEF Spec, ProvidersStable

(* The lifecycle implements the abstract one: what readers of the coordinator
   see is a sequence of installs, a latch, stops and clears.               *)
THEOREM ImplementsGenerations == Spec => GenerationsSpec
  <1>1. Init => G!Init BY DEF Init
  <1>2. IInv /\ [Next]_vars => [G!Next]_gen
    <2> SUFFICES ASSUME IInv, [Next]_vars PROVE [G!Next]_gen OBVIOUS
    <2>1. CASE Publish \/ PublishInterrupted
      BY <2>1 DEF Publish, PublishInterrupted, IInv, TypeOK, JobTypes, G!Next, G!Install
    <2>2. CASE Finish
      BY <2>2, NoConfigIsNone DEF Finish, IInv, TypeOK, JobTypes, OpInv, G!Next, G!Latch
    <2>3. CASE ResetRuntime
      <3>1. gen.done = FALSE BY <2>3 DEF ResetRuntime, IInv, TypeOK, OpInv
      <3> QED BY <2>3, <3>1 DEF ResetRuntime, G!Next, G!Clear
    <2>4. CASE \E c \in Configs \cup {NoConfig} : Stop(c)
      BY <2>4 DEF Stop, G!Next
    <2> QED BY <2>1, <2>2, <2>3, <2>4, GenSteps
  <1> QED BY Invariance, <1>1, <1>2, PTL DEF Spec, GenerationsSpec, G!Spec
=============================================================================
