------------------------ MODULE SignalProviderProofs ------------------------
(***************************************************************************)
(* Theorems about SignalProvider for any threads, meter names and bounds.  *)
(* The inductive invariant says, for every thread, what the provider, the  *)
(* generation and the readings it carries from one step to the next are    *)
(* still worth: a provider in hand is live, in one hand only and not       *)
(* installed, and a reader that was found to be allowed to serve either    *)
(* still is or its thread is too late.                                     *)
(***************************************************************************)
EXTENDS SignalProvider, TLAPS

\* The thread has a provider it must install or dispose of.
InHand(t) == call[t].at \in {"built", "status", "dispose"} /\ call[t].mine # NoProvider

\* What thread t carries is still worth what its next step takes it for.
CarriesSound(t) ==
  /\ call[t].at = "idle" => call[t] = Idle
  /\ call[t].at \in {"built", "dispose"} => call[t].mine # NoProvider
  /\ InHand(t) => call[t].mine \in Providers /\ life[call[t].mine] = "live" /\ call[t].mine # slot.ref
  /\ call[t].at \in {"build", "built", "flush", "draining"} => call[t].gen <= slot.gen
  /\ call[t].at = "built" => born[call[t].mine] = call[t].gen
  /\ call[t].at = "built" /\ call[t].pull = "ready" => TooLate(t) \/ otelGlobal = NoProvider \/ hostLate
  /\ call[t].at = "status" => Metrics
  /\ call[t].at \in {"cache", "fetch", "store"} => usable[t]
  /\ call[t].at = "owned" => call[t].saw # "owned"
  /\ call[t].at = "flush" /\ call[t].saw = "owned" => slot.ref # NoProvider \/ slot.gen > call[t].gen
  /\ call[t].at = "draining" => call[t].mine \in Providers

\* No two threads have the same provider in hand.
HeldAlone ==
  \A t, u \in Threads : InHand(t) /\ InHand(u) /\ call[t].mine = call[u].mine => t = u

\* The reader that serves belongs to the installed provider, or to one whose
\* shutdown has yet to change the status.
ServingAttached ==
  /\ endpoint.serving # NoProvider =>
       \/ endpoint.serving = slot.ref
       \/ \E t \in Threads : call[t].at = "status" /\ call[t].mine = endpoint.serving
  /\ endpoint.status = "ready" => endpoint.serving # NoProvider
  /\ ~Metrics => endpoint.serving = NoProvider

\* The history variable stays true once the global is the host's.
HostLateIsHost == hostLate => otelGlobal = Host

IInv ==
  /\ ProvidersSound
  /\ \A t \in Threads : CarriesSound(t)
  /\ HeldAlone /\ ServingAttached /\ HostLateIsHost
-----------------------------------------------------------------------------
(* Lemmas                                                                  *)

CallType == [at : Steps, gen : 0 .. MaxShutdowns, mine : Handles, pull : Statuses, name : Names,
             saw : {"nothing", "installed", "owned"},
             says : {"nothing", "not_installed", "not_owned", "flushed", "timed_out", "failed"}]

\* The numbers of the assumption.
LEMMA Bounds == MaxProviders \in Nat /\ MaxShutdowns \in Nat /\ "default" \in Names
  BY SignalProviderAssumption

\* What providers and handles are.
LEMMA HandleFacts ==
  /\ Providers \subseteq Handles /\ NoProvider \in Handles /\ Host \in Handles
  /\ NoProvider \notin Providers /\ Host \notin Providers /\ Host # NoProvider
  BY Bounds DEF Providers, Handles, NoProvider, Host

\* An idle call is a call.
LEMMA IdleType == Idle \in CallType
  BY Bounds DEF Idle, CallType, Steps, Handles, Statuses

\* The initial state satisfies the invariant.
LEMMA InitInv == Init => IInv
  <1> SUFFICES ASSUME Init PROVE IInv OBVIOUS
  <1>1. call \in [Threads -> CallType] BY IdleType DEF Init
  <1>2. TypeOK
    <2>1. otelGlobal \in Handles /\ meters \in [Names -> Handles] /\ got \in [Threads -> Handles]
      BY HandleFacts DEF Init
    <2>2. endpoint \in [status : Statuses, serving : Providers \cup {NoProvider}]
      BY DEF Init, Statuses
    <2>3. slot \in [ref : Providers \cup {NoProvider}, set : BOOLEAN, gen : 0 .. MaxShutdowns]
      BY Bounds DEF Init
    <2>4. born \in [Providers -> 0 .. MaxShutdowns] BY Bounds DEF Init
    <2> QED BY <1>1, <2>1, <2>2, <2>3, <2>4 DEF Init, TypeOK, CallType
  <1>3. \A t \in Threads : call[t] = Idle /\ call[t].at = "idle" BY DEF Init, Idle
  <1>4. ProvidersSound
    BY <1>2, <1>3
    DEF Init, ProvidersSound, NoProviderLeaked, InstalledIsCurrent, NeverServesDisposed,
        ReadyServesGlobal, HandedOutUsable, FlushHonest
  <1>5. \A t \in Threads : CarriesSound(t) BY <1>3 DEF CarriesSound, InHand
  <1>6. HeldAlone BY <1>3 DEF HeldAlone, InHand
  <1>7. ServingAttached /\ HostLateIsHost BY DEF Init, ServingAttached, HostLateIsHost
  <1> QED BY <1>4, <1>5, <1>6, <1>7 DEF IInv

\* What a thread carries keeps its worth while others act, as long as they leave its
\* provider alone, let no generation come back and take the global only by
\* installing.
LEMMA OtherCarries ==
  ASSUME TypeOK, TypeOK', NEW u \in Threads, CarriesSound(u),
         call'[u] = call[u], usable'[u] = usable[u], signal' = signal, hostLate' = hostLate,
         InHand(u) => /\ life'[call[u].mine] = "live" /\ call[u].mine # slot'.ref
                      /\ born'[call[u].mine] = born[call[u].mine],
         slot.gen <= slot'.gen,
         slot.ref # NoProvider => slot'.ref # NoProvider \/ slot'.gen > slot.gen,
         otelGlobal' = otelGlobal \/ slot'.ref # NoProvider
  PROVE  CarriesSound(u)'
  <1>1. slot.gen \in Int /\ slot'.gen \in Int /\ call[u].gen \in Int BY DEF TypeOK
  <1>2. InHand(u)' <=> InHand(u) BY DEF InHand
  <1>3. call[u].at = "built" => InHand(u) BY DEF CarriesSound, InHand
  <1>4. call[u].at \in {"build", "built", "flush", "draining"} => call[u].gen <= slot'.gen
    BY <1>1 DEF CarriesSound
  <1>5. ASSUME call[u].at = "built", call[u].pull = "ready"
        PROVE  TooLate(u)' \/ otelGlobal' = NoProvider \/ hostLate'
    <2>1. CASE TooLate(u)
      <3>1. call[u].gen <= slot.gen BY <1>5 DEF CarriesSound
      <3> QED BY <2>1, <3>1, <1>1 DEF TooLate
    <2>2. CASE ~TooLate(u) BY <2>2, <1>5 DEF CarriesSound, TooLate
    <2> QED BY <2>1, <2>2
  <1>6. call[u].at = "flush" /\ call[u].saw = "owned" => slot'.ref # NoProvider \/ slot'.gen > call[u].gen
    BY <1>1 DEF CarriesSound
  <1> QED BY <1>2, <1>3, <1>4, <1>5, <1>6 DEF CarriesSound, Metrics, TooLate

\* A step of a thread that has no provider in hand, before or after, and leaves the
\* slot, the global and the providers alone.  It may stop the endpoint from serving.
LEMMA QuietStep ==
  ASSUME IInv, TypeOK', NEW t \in Threads,
         UNCHANGED <<signal, slot, otelGlobal, life, born, hostLate>>,
         endpoint' = endpoint \/ (endpoint'.serving = NoProvider /\ endpoint'.status # "ready"),
         \A u \in Threads : u # t => call'[u] = call[u] /\ usable'[u] = usable[u] /\ got'[u] = got[u],
         call[t].at \notin {"built", "status", "dispose"},
         call'[t].at \notin {"built", "status", "dispose"},
         got'[t] # NoProvider => usable'[t],
         call'[t].at = "report" /\ call'[t].says = "flushed" =>
           call'[t].mine \in Providers \/ call'[t].gen > 0,
         CarriesSound(t)'
  PROVE  IInv'
  <1>t. TypeOK BY DEF IInv, ProvidersSound
  <1>1. \A u \in Threads : CarriesSound(u)'
    <2> SUFFICES ASSUME NEW u \in Threads, u # t PROVE CarriesSound(u)' OBVIOUS
    <2>1. CarriesSound(u) BY DEF IInv
    <2>2. InHand(u) => call[u].mine \in Providers /\ life[call[u].mine] = "live" /\ call[u].mine # slot.ref
      BY <2>1 DEF CarriesSound
    <2>3. slot.gen \in Int BY <1>t DEF TypeOK
    <2> QED BY <1>t, <2>1, <2>2, <2>3, OtherCarries
  <1>2. \A u \in Threads : InHand(u)' <=> InHand(u) BY DEF InHand
  <1>3. ~InHand(t) BY DEF InHand
  <1>4. HeldAlone' BY <1>2, <1>3 DEF IInv, HeldAlone
  <1>5. \A u \in Threads, p \in Providers : Holds(u, p) => Holds(u, p)' BY DEF Holds
  <1>6. NoProviderLeaked' BY <1>5 DEF IInv, ProvidersSound, NoProviderLeaked
  <1>7. InstalledIsCurrent' BY DEF IInv, ProvidersSound, InstalledIsCurrent
  <1>8. NeverServesDisposed' /\ ReadyServesGlobal'
    BY DEF IInv, ProvidersSound, NeverServesDisposed, ReadyServesGlobal
  <1>9. HandedOutUsable' /\ FlushHonest' BY DEF IInv, ProvidersSound, HandedOutUsable, FlushHonest
  <1>10. ServingAttached' /\ HostLateIsHost'
    BY DEF IInv, ServingAttached, HostLateIsHost, Metrics
  <1> QED BY <1>1, <1>4, <1>6, <1>7, <1>8, <1>9, <1>10 DEF IInv, ProvidersSound

\* The parts of the invariant a step of thread t starts from.
LEMMA Given ==
  ASSUME IInv, NEW t \in Threads
  PROVE  /\ TypeOK /\ CarriesSound(t) /\ call[t] \in CallType /\ call \in [Threads -> CallType]
         /\ call[t].at = "idle" => call[t] = Idle
         /\ slot.gen \in 0 .. MaxShutdowns /\ slot.gen \in Int /\ call[t].gen \in Int
         /\ HandedOutUsable /\ FlushHonest
  BY DEF IInv, ProvidersSound, TypeOK, CallType, CarriesSound

\* Statuses the endpoint is given when it does not serve.
LEMMA StatusType ==
  ASSUME NEW s \in Statuses, SetStatus(s)
  PROVE  /\ endpoint' \in [status : Statuses, serving : Providers \cup {NoProvider}]
         /\ endpoint'.serving = NoProvider /\ endpoint'.status = s
  BY DEF SetStatus

\* setup with the signal disabled, or without the SDK: only the flag and the status.
LEMMA FlagsInv ==
  ASSUME IInv, NEW t \in Threads, SetupDisabled(t) \/ SetupWithoutOtel(t)
  PROVE  IInv'
  <1>g. TypeOK /\ CarriesSound(t) /\ HandedOutUsable /\ FlushHonest BY Given
  <1>1. UNCHANGED <<signal, otel, slot, otelGlobal, life, born, meters, call, got, usable, hostLate>>
        /\ disabled' \in BOOLEAN /\ call[t] = Idle
    BY DEF SetupDisabled, SetupWithoutOtel
  <1>2. /\ endpoint' \in [status : Statuses, serving : Providers \cup {NoProvider}]
        /\ endpoint' = endpoint \/ (endpoint'.serving = NoProvider /\ endpoint'.status # "ready")
    <2>1. \E s \in {"metrics_disabled", "otel_missing", "not_selected"} : MetricsStatus(s)
      BY DEF SetupDisabled, SetupWithoutOtel
    <2>2. PICK s \in {"metrics_disabled", "otel_missing", "not_selected"} : MetricsStatus(s) BY <2>1
    <2>3. s \in Statuses /\ s # "ready" BY DEF Statuses
    <2> QED BY <2>2, <2>3, <1>g, StatusType DEF MetricsStatus, TypeOK
  <1>3. TypeOK' BY <1>g, <1>1, <1>2 DEF TypeOK
  <1>4. CarriesSound(t)' BY <1>g, <1>1 DEF CarriesSound, InHand, TooLate, Metrics
  <1>5. call[t].at = "idle" BY <1>1 DEF Idle
  <1>6. got'[t] # NoProvider => usable'[t] BY <1>g, <1>1 DEF HandedOutUsable
  <1> QED BY <1>1, <1>2, <1>3, <1>4, <1>5, <1>6, QuietStep

\* The first critical section of setup.
LEMMA SetupBeginInv ==
  ASSUME IInv, NEW t \in Threads, NEW w \in BOOLEAN, SetupBegin(t, w)
  PROVE  IInv'
  <1>g. /\ TypeOK /\ CarriesSound(t) /\ call[t] \in CallType /\ call \in [Threads -> CallType]
        /\ slot.gen \in 0 .. MaxShutdowns /\ slot.gen \in Int /\ HandedOutUsable /\ FlushHonest
    BY Given
  <1>i. call[t] = Idle /\ call[t].at = "idle" BY DEF SetupBegin, Idle
  <1>1. UNCHANGED <<signal, otel, slot, otelGlobal, life, born, endpoint, meters, got, usable, hostLate>>
        /\ disabled' \in BOOLEAN
    BY DEF SetupBegin
  <1>2. CASE slot.ref # NoProvider
    <2>1. call' = call BY <1>2 DEF SetupBegin
    <2>2. TypeOK' BY <1>g, <1>1, <2>1 DEF TypeOK
    <2>3. CarriesSound(t)' BY <1>g, <1>1, <2>1 DEF CarriesSound, InHand, TooLate, Metrics
    <2> QED BY <1>g, <1>i, <1>1, <2>1, <2>2, <2>3, QuietStep DEF HandedOutUsable
  <1>3. CASE slot.ref = NoProvider
    <2>1. call' = [call EXCEPT ![t].at = "build", ![t].gen = slot.gen,
                               ![t].pull = IF w THEN "ready" ELSE "not_selected"]
      BY <1>3 DEF SetupBegin
    <2>2. /\ call' \in [Threads -> CallType] /\ call'[t].at = "build" /\ call'[t].gen = slot.gen
          /\ \A u \in Threads : u # t => call'[u] = call[u]
      BY <1>g, <2>1 DEF CallType, Steps, Statuses
    <2>3. TypeOK' BY <1>g, <1>1, <2>2 DEF TypeOK, CallType
    <2>4. CarriesSound(t)' BY <1>g, <1>1, <2>2 DEF CarriesSound, InHand
    <2> QED BY <1>g, <1>i, <1>1, <2>2, <2>3, <2>4, QuietStep DEF HandedOutUsable
  <1> QED BY <1>2, <1>3

\* A step of a thread with no provider in hand that only moves the thread and hands
\* it something out.
LEMMA CallStep ==
  ASSUME IInv, NEW t \in Threads,
         UNCHANGED <<signal, otel, disabled, slot, otelGlobal, life, born, endpoint, hostLate>>,
         meters' \in [Names -> Handles], call' \in [Threads -> CallType],
         got' \in [Threads -> Handles], usable' \in [Threads -> BOOLEAN],
         \A u \in Threads : u # t => call'[u] = call[u] /\ usable'[u] = usable[u] /\ got'[u] = got[u],
         call[t].at \notin {"built", "status", "dispose"},
         call'[t].at \notin {"built", "status", "dispose"},
         got'[t] # NoProvider => usable'[t],
         call'[t].at = "report" /\ call'[t].says = "flushed" =>
           call'[t].mine \in Providers \/ call'[t].gen > 0,
         CarriesSound(t)'
  PROVE  IInv'
  <1>1. TypeOK BY Given
  <1>2. TypeOK' BY <1>1 DEF TypeOK, CallType
  <1> QED BY <1>2, QuietStep

\* A thread that is idle again carries nothing.
LEMMA IdleCarries ==
  ASSUME NEW t \in Threads, call'[t] = Idle
  PROVE  CarriesSound(t)' /\ call'[t].at = "idle"
  BY DEF CarriesSound, InHand, Idle

\* A call that returns leaves every other call as it is.
LEMMA ReturnCall ==
  ASSUME IInv, NEW t \in Threads, Return(t)
  PROVE  /\ call' \in [Threads -> CallType] /\ call'[t] = Idle /\ call'[t].at = "idle" /\ CarriesSound(t)'
         /\ \A u \in Threads : u # t => call'[u] = call[u]
  <1>1. call \in [Threads -> CallType] BY Given
  <1>2. call' \in [Threads -> CallType] /\ call'[t] = Idle /\ \A u \in Threads : u # t => call'[u] = call[u]
    BY <1>1, IdleType DEF Return
  <1> QED BY <1>2, IdleCarries

\* setup_metrics without an exporter.
LEMMA MeterExporterFailsInv ==
  ASSUME IInv, NEW t \in Threads, MeterExporterFails(t)
  PROVE  IInv'
  <1>g. TypeOK /\ HandedOutUsable BY Given
  <1>1. UNCHANGED <<signal, otel, disabled, slot, otelGlobal, life, born, meters, got, usable, hostLate>>
        /\ call[t].at = "build" /\ SetStatus("setup_failed") /\ Return(t)
    BY DEF MeterExporterFails
  <1>2. /\ endpoint' \in [status : Statuses, serving : Providers \cup {NoProvider}]
        /\ endpoint'.serving = NoProvider /\ endpoint'.status = "setup_failed"
    BY <1>1, StatusType DEF Statuses
  <1>3. /\ call' \in [Threads -> CallType] /\ call'[t].at = "idle" /\ CarriesSound(t)'
        /\ \A u \in Threads : u # t => call'[u] = call[u]
    BY <1>1, ReturnCall
  <1>4. TypeOK' BY <1>g, <1>1, <1>2, <1>3 DEF TypeOK, CallType
  <1> QED BY <1>g, <1>1, <1>2, <1>3, <1>4, QuietStep DEF HandedOutUsable

\* Building raises: the call ends and nothing else changes.
LEMMA BuildRaisesInv ==
  ASSUME IInv, NEW t \in Threads, BuildRaises(t)
  PROVE  IInv'
  <1>g. TypeOK /\ HandedOutUsable BY Given
  <1>1. /\ UNCHANGED <<signal, otel, disabled, slot, otelGlobal, life, born, endpoint, meters, got,
                      usable, hostLate>>
        /\ call[t].at = "build" /\ Return(t)
    BY DEF BuildRaises
  <1>2. /\ call' \in [Threads -> CallType] /\ call'[t].at = "idle" /\ CarriesSound(t)'
        /\ \A u \in Threads : u # t => call'[u] = call[u]
    BY <1>1, ReturnCall
  <1> QED BY <1>g, <1>1, <1>2, CallStep DEF TypeOK, HandedOutUsable

\* The first step of get_tracer and get_meter.
LEMMA GetInv ==
  ASSUME IInv, NEW t \in Threads, GetTracer(t) \/ \E n \in Names : GetMeter(t, n)
  PROVE  IInv'
  <1>g. TypeOK /\ CarriesSound(t) /\ call[t] \in CallType /\ call \in [Threads -> CallType] BY Given
  <1>1. /\ UNCHANGED <<signal, otel, disabled, slot, otelGlobal, life, born, endpoint, meters, hostLate>>
        /\ call[t] = Idle /\ usable' = [usable EXCEPT ![t] = Effective]
        /\ got' = [got EXCEPT ![t] = NoProvider]
    BY DEF GetTracer, GetMeter, HandOut
  <1>2. Effective \in BOOLEAN BY <1>g DEF Effective, TypeOK, Real
  <1>3. /\ meters' \in [Names -> Handles]
        /\ got' \in [Threads -> Handles] /\ got'[t] = NoProvider
        /\ usable' \in [Threads -> BOOLEAN] /\ usable'[t] = Effective
        /\ \A u \in Threads : u # t => usable'[u] = usable[u] /\ got'[u] = got[u]
    BY <1>g, <1>1, <1>2, HandleFacts DEF TypeOK
  <1>4. call[t].at = "idle" BY <1>1 DEF Idle
  <1>5. CASE ~Effective
    <2>1. call' = call BY <1>5 DEF GetTracer, GetMeter
    <2>2. CarriesSound(t)' BY <1>1, <2>1, IdleCarries
    <2> QED BY <1>g, <1>1, <1>3, <1>4, <2>1, <2>2, CallStep
  <1>6. CASE Effective
    <2>1. \E n \in Names, s \in {"cache", "fetch"} : call' = [call EXCEPT ![t].name = n, ![t].at = s]
      <3>1. CASE GetTracer(t)
        <4>1. call' = [call EXCEPT ![t].at = "fetch"] BY <1>6, <3>1 DEF GetTracer
        <4>2. call[t].name \in Names BY <1>g DEF CallType
        <4>3. call' = [call EXCEPT ![t].name = call[t].name, ![t].at = "fetch"]
          BY <4>1, <4>2, <1>g DEF CallType
        <4> QED BY <4>2, <4>3
      <3>2. CASE \E n \in Names : GetMeter(t, n) BY <1>6, <3>2 DEF GetMeter
      <3> QED BY <3>1, <3>2
    <2>2. PICK n \in Names, s \in {"cache", "fetch"} : call' = [call EXCEPT ![t].name = n, ![t].at = s]
      BY <2>1
    <2>3. /\ call' \in [Threads -> CallType] /\ call'[t].at = s
          /\ \A u \in Threads : u # t => call'[u] = call[u]
      BY <1>g, <2>2 DEF CallType, Steps
    <2>4. CarriesSound(t)' BY <1>6, <1>3, <2>3 DEF CarriesSound, InHand
    <2> QED BY <1>1, <1>3, <1>4, <2>3, <2>4, CallStep
  <1> QED BY <1>5, <1>6

\* The later steps of get_tracer and get_meter: the thread had found a usable
\* provider, and is handed whatever the cache or the global holds now.
LEMMA HandOutInv ==
  ASSUME IInv, NEW t \in Threads, ReadCache(t) \/ Fetch(t) \/ Store(t)
  PROVE  IInv'
  <1>g. /\ TypeOK /\ CarriesSound(t) /\ call[t] \in CallType /\ call \in [Threads -> CallType]
        /\ HandedOutUsable
    BY Given
  <1>1. /\ UNCHANGED <<signal, otel, disabled, slot, otelGlobal, life, born, endpoint, usable, hostLate>>
        /\ call[t].at \in {"cache", "fetch", "store"}
    BY DEF ReadCache, Fetch, Store
  <1>2. usable[t] /\ usable'[t] /\ usable' \in [Threads -> BOOLEAN] BY <1>g, <1>1 DEF CarriesSound, TypeOK
  <1>3. meters' \in [Names -> Handles] BY <1>g DEF ReadCache, Fetch, Store, TypeOK, CallType
  <1>4. got' \in [Threads -> Handles] /\ \A u \in Threads : u # t => got'[u] = got[u]
    BY <1>g DEF ReadCache, Fetch, Store, HandOut, TypeOK, CallType
  <1>5. CASE Return(t)
    <2>1. /\ call' \in [Threads -> CallType] /\ call'[t].at = "idle" /\ CarriesSound(t)'
          /\ \A u \in Threads : u # t => call'[u] = call[u]
      BY <1>5, ReturnCall
    <2> QED BY <1>1, <1>2, <1>3, <1>4, <2>1, CallStep
  <1>6. CASE ~Return(t)
    <2>1. \E s \in {"fetch", "store"}, p \in Handles : call' = [call EXCEPT ![t].at = s, ![t].mine = p]
      <3>1. call[t].mine \in Handles /\ otelGlobal \in Handles BY <1>g DEF CallType, TypeOK
      <3>2. CASE ReadCache(t)
        <4>1. call' = [call EXCEPT ![t].at = "fetch"] BY <1>6, <3>2 DEF ReadCache
        <4>2. call' = [call EXCEPT ![t].at = "fetch", ![t].mine = call[t].mine]
          BY <4>1, <1>g DEF CallType
        <4> QED BY <3>1, <4>2
      <3>3. CASE Fetch(t) BY <1>6, <3>1, <3>3 DEF Fetch
      <3>4. CASE Store(t) BY <1>6, <3>4 DEF Store
      <3> QED BY <3>2, <3>3, <3>4
    <2>2. PICK s \in {"fetch", "store"}, p \in Handles : call' = [call EXCEPT ![t].at = s, ![t].mine = p]
      BY <2>1
    <2>3. /\ call' \in [Threads -> CallType] /\ call'[t].at = s
          /\ \A u \in Threads : u # t => call'[u] = call[u]
      BY <1>g, <2>2 DEF CallType, Steps
    <2>4. CarriesSound(t)' BY <1>2, <2>3 DEF CarriesSound, InHand
    <2> QED BY <1>1, <1>2, <1>3, <1>4, <2>3, <2>4, CallStep
  <1> QED BY <1>5, <1>6

\* The answer of a flush: a "flushed" comes from an owned provider.
LEMMA ReportCall ==
  ASSUME IInv, NEW t \in Threads, NEW outcome \in {"flushed", "timed_out", "failed"}, Report(t, outcome),
         call[t].gen <= slot.gen, call[t].saw = "owned" => call[t].mine \in Providers \/ slot.gen > call[t].gen
  PROVE  /\ call' \in [Threads -> CallType] /\ call'[t].at = "report"
         /\ \A u \in Threads : u # t => call'[u] = call[u]
         /\ call'[t].says = "flushed" => call'[t].mine \in Providers \/ call'[t].gen > 0
         /\ CarriesSound(t)'
  <1>g. /\ call[t] \in CallType /\ call \in [Threads -> CallType]
        /\ slot.gen \in 0 .. MaxShutdowns /\ MaxShutdowns \in Nat
    BY Given, Bounds
  <1> DEFINE says == SignalFlushResult(call[t].saw, outcome)
             done == [Idle EXCEPT !.at = "report", !.says = says]
             full == [done EXCEPT !.mine = call[t].mine, !.gen = slot.gen - call[t].gen]
             c == IF says # "flushed" THEN done ELSE full
  <1>1. call' = [call EXCEPT ![t] = c] BY DEF Report
  <1>2. call[t].saw \in {"nothing", "installed", "owned"} /\ call[t].gen \in 0 .. MaxShutdowns
        /\ call[t].mine \in Handles
    BY <1>g DEF CallType
  <1>3. says \in {"not_installed", "not_owned", "flushed", "timed_out", "failed"}
        /\ (says = "flushed" => call[t].saw = "owned")
    BY <1>2 DEF SignalFlushResult
  <1>4. done \in CallType /\ done.at = "report" /\ done.says = says
    BY <1>3, IdleType DEF CallType, Steps, Idle
  <1>5. slot.gen - call[t].gen \in 0 .. MaxShutdowns BY <1>g, <1>2
  <1>6. full \in CallType /\ full.at = "report" /\ full.says = says /\ full.mine = call[t].mine
        /\ full.gen = slot.gen - call[t].gen
    BY <1>2, <1>4, <1>5 DEF CallType
  <1>7. c \in CallType /\ c.at = "report" /\ c.says = says BY <1>4, <1>6
  <1>8. c.says = "flushed" => c.mine \in Providers \/ c.gen > 0
    <2>1. slot.gen > call[t].gen => slot.gen - call[t].gen > 0 BY <1>g, <1>2
    <2> QED BY <1>3, <1>6, <1>7, <2>1
  <1>9. call'[t] = c /\ call' \in [Threads -> CallType] /\ \A u \in Threads : u # t => call'[u] = call[u]
    BY <1>1, <1>7, <1>g
  <1>10. CarriesSound(t)' BY <1>7, <1>9 DEF CarriesSound, InHand
  <1> HIDE DEF c
  <1> QED BY <1>7, <1>8, <1>9, <1>10

\* What a flush carries from one reading to the next stays true.
LEMMA FlushInv ==
  ASSUME IInv, NEW t \in Threads, Flush(t)
  PROVE  IInv'
  <1>g. /\ TypeOK /\ CarriesSound(t) /\ call[t] \in CallType /\ call \in [Threads -> CallType]
        /\ slot.gen \in 0 .. MaxShutdowns /\ slot.gen \in Int /\ call[t].gen \in Int /\ HandedOutUsable
    BY Given
  <1>1. /\ UNCHANGED <<signal, otel, disabled, slot, otelGlobal, life, born, endpoint, meters, got,
                       usable, hostLate>>
        /\ call[t].at \in {"idle", "owned", "flush", "draining", "report"}
    BY DEF Flush, FlushBegin, FlushOwned, FlushTake, FlushDrained, FlushReturn, Idle
  <1>2. /\ meters' \in [Names -> Handles] /\ got' \in [Threads -> Handles]
        /\ usable' \in [Threads -> BOOLEAN] /\ (got'[t] # NoProvider => usable'[t])
    BY <1>g, <1>1 DEF TypeOK, HandedOutUsable
  <1> SUFFICES /\ call' \in [Threads -> CallType] /\ CarriesSound(t)'
               /\ \A u \in Threads : u # t => call'[u] = call[u]
               /\ call'[t].at \notin {"built", "status", "dispose"}
               /\ call'[t].at = "report" /\ call'[t].says = "flushed" =>
                    call'[t].mine \in Providers \/ call'[t].gen > 0
    BY <1>1, <1>2, CallStep
  <1>3. CASE FlushBegin(t)
    <2>1. PICK s \in {"nothing", "installed"} : call' = [call EXCEPT ![t].at = "owned", ![t].saw = s]
      BY <1>3 DEF FlushBegin
    <2>2. /\ call' \in [Threads -> CallType] /\ call'[t].at = "owned" /\ call'[t].saw = s
          /\ \A u \in Threads : u # t => call'[u] = call[u]
      BY <1>g, <2>1 DEF CallType, Steps
    <2>3. CarriesSound(t)' BY <2>2 DEF CarriesSound, InHand
    <2> QED BY <2>2, <2>3
  <1>4. CASE FlushOwned(t)
    <2> DEFINE s == IF call[t].saw = "installed" /\ slot.ref # NoProvider THEN "owned" ELSE call[t].saw
    <2>1. call' = [call EXCEPT ![t].at = "flush", ![t].gen = slot.gen, ![t].saw = s]
      BY <1>4, <1>g DEF FlushOwned, CallType
    <2>2. call[t].saw # "owned" BY <1>4, <1>g DEF FlushOwned, CarriesSound
    <2>3. s \in {"nothing", "installed", "owned"} /\ (s = "owned" => slot.ref # NoProvider)
      BY <1>g, <2>2 DEF CallType
    <2> HIDE DEF s
    <2>4. /\ call' \in [Threads -> CallType] /\ call'[t].at = "flush" /\ call'[t].saw = s
          /\ call'[t].gen = slot.gen
          /\ \A u \in Threads : u # t => call'[u] = call[u]
      BY <1>g, <2>1, <2>3 DEF CallType, Steps
    <2>5. CarriesSound(t)' BY <1>1, <1>g, <2>3, <2>4 DEF CarriesSound, InHand
    <2> QED BY <2>4, <2>5
  <1>5. CASE FlushTake(t)
    <2>0. call[t].at = "flush" /\ call[t].gen <= slot.gen BY <1>5, <1>g DEF FlushTake, CarriesSound
    <2>1. CASE slot.ref = NoProvider
      <3>1. Report(t, "flushed") BY <1>5, <2>1 DEF FlushTake
      <3>2. call[t].saw = "owned" => slot.gen > call[t].gen BY <2>0, <2>1, <1>g DEF CarriesSound
      <3> QED BY <2>0, <3>1, <3>2, ReportCall
    <2>2. CASE slot.ref # NoProvider
      <3>1. call' = [call EXCEPT ![t].at = "draining", ![t].mine = slot.ref] BY <1>5, <2>2 DEF FlushTake
      <3>2. slot.ref \in Providers BY <2>2, <1>g DEF TypeOK
      <3>3. /\ call' \in [Threads -> CallType] /\ call'[t].at = "draining" /\ call'[t].mine = slot.ref
            /\ call'[t].gen = call[t].gen
            /\ \A u \in Threads : u # t => call'[u] = call[u]
        BY <1>g, <3>1, <3>2, HandleFacts DEF CallType, Steps
      <3>4. CarriesSound(t)' BY <1>1, <2>0, <3>2, <3>3 DEF CarriesSound, InHand
      <3> QED BY <3>3, <3>4
    <2> QED BY <2>1, <2>2
  <1>6. CASE FlushDrained(t)
    <2>1. call[t].gen <= slot.gen /\ call[t].mine \in Providers
      BY <1>6, <1>g DEF FlushDrained, CarriesSound
    <2>2. PICK outcome \in {"flushed", "timed_out", "failed"} : Report(t, outcome)
      BY <1>6 DEF FlushDrained
    <2> QED BY <2>1, <2>2, ReportCall
  <1>7. CASE FlushReturn(t)
    <2>1. Return(t) BY <1>7 DEF FlushReturn
    <2> QED BY <2>1, ReturnCall
  <1> QED BY <1>3, <1>4, <1>5, <1>6, <1>7 DEF Flush

\* What holds of a provider in hand, and of the installed one.
LEMMA HeldFacts ==
  ASSUME IInv, NEW u \in Threads, InHand(u)
  PROVE  call[u].mine \in Providers /\ life[call[u].mine] = "live" /\ call[u].mine # slot.ref
  BY DEF IInv, CarriesSound

\* Build: the new provider was unbuilt, so it is in nobody else's hand.
LEMMA BuildInv ==
  ASSUME IInv, NEW t \in Threads, Build(t)
  PROVE  IInv'
  <1>g. /\ TypeOK /\ CarriesSound(t) /\ call[t] \in CallType /\ call \in [Threads -> CallType]
        /\ slot.gen \in 0 .. MaxShutdowns /\ slot.gen \in Int /\ call[t].gen \in Int
        /\ HandedOutUsable /\ FlushHonest
    BY Given
  <1>1. /\ call[t].at = "build"
        /\ UNCHANGED <<signal, otel, disabled, slot, otelGlobal, endpoint, meters, got, usable, hostLate>>
    BY DEF Build
  <1>2. PICK p \in Providers :
          /\ \A q \in Providers : life[q] = "unbuilt" <=> q >= p
          /\ life' = [life EXCEPT ![p] = "live"]
          /\ born' = [born EXCEPT ![p] = call[t].gen]
          /\ call' = [call EXCEPT ![t].at = "built", ![t].mine = p, ![t].pull = PullStatus(t)]
    BY DEF Build
  <1>3. p \in Int /\ p # NoProvider /\ p \in Handles BY HandleFacts DEF Providers
  <1>4. life[p] = "unbuilt" BY <1>2, <1>3
  <1>5. PullStatus(t) \in Statuses /\ (PullStatus(t) = "ready" => otelGlobal = NoProvider)
    BY <1>g DEF PullStatus, CallType, Statuses
  <1>6. /\ call' \in [Threads -> CallType] /\ call'[t].at = "built" /\ call'[t].mine = p
        /\ call'[t].gen = call[t].gen /\ call'[t].pull = PullStatus(t)
        /\ \A u \in Threads : u # t => call'[u] = call[u]
    BY <1>g, <1>2, <1>3, <1>5 DEF CallType, Steps
  <1>7. /\ life' \in [Providers -> {"unbuilt", "live", "lost", "disposed"}] /\ born' \in [Providers -> 0 .. MaxShutdowns]
        /\ life'[p] = "live" /\ born'[p] = call[t].gen
        /\ \A q \in Providers : q # p => life'[q] = life[q] /\ born'[q] = born[q]
    BY <1>g, <1>2 DEF TypeOK, CallType
  <1>8. p # slot.ref /\ p # endpoint.serving
    BY <1>3, <1>4, <1>g DEF TypeOK, IInv, ProvidersSound, NeverServesDisposed
  <1>9. \A q \in Providers : life[q] = "live" => q # p /\ life'[q] = "live" /\ born'[q] = born[q]
    BY <1>4, <1>7
  <1>10. TypeOK' BY <1>g, <1>1, <1>6, <1>7, <1>9 DEF TypeOK, CallType
  <1>11. CarriesSound(t)'
    BY <1>g, <1>1, <1>3, <1>5, <1>6, <1>7, <1>8 DEF CarriesSound, InHand
  <1>12. ASSUME NEW u \in Threads, u # t PROVE CarriesSound(u)'
    <2>1. CarriesSound(u) BY DEF IInv
    <2>2. InHand(u) => /\ life'[call[u].mine] = "live" /\ call[u].mine # slot'.ref
                       /\ born'[call[u].mine] = born[call[u].mine]
      BY <1>1, <1>9, HeldFacts
    <2> QED BY <1>1, <1>6, <1>12, <1>g, <1>10, <2>1, <2>2, OtherCarries
  <1>13. \A u \in Threads : u # t => (InHand(u)' <=> InHand(u)) /\ call'[u].mine = call[u].mine
    BY <1>6 DEF InHand
  <1>14. \A u \in Threads : u # t /\ InHand(u) => call[u].mine # p BY <1>4, HeldFacts
  <1>15. HeldAlone' BY <1>6, <1>13, <1>14 DEF IInv, HeldAlone
  <1>16. NoProviderLeaked'
    <2> SUFFICES ASSUME NEW q \in Providers, life'[q] = "live"
                 PROVE  q = slot'.ref \/ \E u \in Threads : Holds(u, q)'
      BY DEF NoProviderLeaked
    <2>1. CASE q = p BY <2>1, <1>6 DEF Holds
    <2>2. CASE q # p
      <3>1. life[q] = "live" BY <2>2, <1>7
      <3>2. \A u \in Threads : Holds(u, q) => Holds(u, q)' BY <1>1, <1>6 DEF Holds
      <3> QED BY <1>1, <3>1, <3>2 DEF IInv, ProvidersSound, NoProviderLeaked
    <2> QED BY <2>1, <2>2
  <1>17. InstalledIsCurrent' /\ NeverServesDisposed' /\ ReadyServesGlobal'
    BY <1>g, <1>1, <1>9
    DEF IInv, ProvidersSound, InstalledIsCurrent, NeverServesDisposed, ReadyServesGlobal, TypeOK
  <1>18. HandedOutUsable' /\ FlushHonest' BY <1>g, <1>1, <1>6 DEF HandedOutUsable, FlushHonest
  <1>19. ServingAttached' /\ HostLateIsHost'
    BY <1>1, <1>6 DEF IInv, ServingAttached, HostLateIsHost, Metrics
  <1> QED BY <1>10, <1>11, <1>12, <1>15, <1>16, <1>17, <1>18, <1>19 DEF IInv, ProvidersSound

\* The provider in hand is shut down, or lost: it was in no other hand, not installed, and
\* its reader did not serve.
LEMMA DisposeInv ==
  ASSUME IInv, NEW t \in Threads,
         SpanExporterFails(t) \/ SpanExporterRaises(t) \/ Discard(t) \/ Dispose(t)
  PROVE  IInv'
  <1>g. TypeOK /\ CarriesSound(t) /\ slot.gen \in Int /\ HandedOutUsable /\ FlushHonest BY Given
  <1> DEFINE p == call[t].mine
  <1>1. PICK v \in {"lost", "disposed"} :
        /\ call[t].at \in {"built", "dispose"} /\ Return(t) /\ life' = [life EXCEPT ![p] = v]
        /\ UNCHANGED <<signal, otel, disabled, slot, otelGlobal, born, endpoint, meters, got, usable, hostLate>>
    BY DEF SpanExporterFails, SpanExporterRaises, Discard, Dispose
  <1>2. InHand(t) /\ p \in Providers /\ life[p] = "live" /\ p # slot.ref
    BY <1>1, <1>g DEF CarriesSound, InHand
  <1>3. /\ call' \in [Threads -> CallType] /\ call'[t].at = "idle" /\ CarriesSound(t)'
        /\ \A u \in Threads : u # t => call'[u] = call[u]
    BY <1>1, ReturnCall
  <1>4. \A u \in Threads : u # t /\ InHand(u) => call[u].mine # p BY <1>2 DEF IInv, HeldAlone
  <1>5. p # endpoint.serving
    <2>1. \A u \in Threads : call[u].at = "status" /\ call[u].mine = p => u = t
      BY <1>2, <1>4 DEF InHand
    <2> QED BY <1>1, <1>2, <2>1, HandleFacts DEF IInv, ServingAttached
  <1> HIDE DEF p
  <1>6. /\ life' \in [Providers -> {"unbuilt", "live", "lost", "disposed"}] /\ life'[p] = v /\ v # "live"
        /\ \A q \in Providers : q # p => life'[q] = life[q]
    BY <1>g, <1>1, <1>2 DEF TypeOK
  <1>7. TypeOK' BY <1>g, <1>1, <1>2, <1>3, <1>6 DEF TypeOK, CallType
  <1>8. ASSUME NEW u \in Threads, u # t PROVE CarriesSound(u)'
    <2>1. CarriesSound(u) BY DEF IInv
    <2>2. InHand(u) => /\ life'[call[u].mine] = "live" /\ call[u].mine # slot'.ref
                       /\ born'[call[u].mine] = born[call[u].mine]
      BY <1>1, <1>4, <1>6, <1>8, HeldFacts
    <2> QED BY <1>1, <1>3, <1>8, <1>g, <1>7, <2>1, <2>2, OtherCarries
  <1>9. ~InHand(t)' BY <1>3 DEF InHand
  <1>10. \A u \in Threads : u # t => (InHand(u)' <=> InHand(u)) /\ call'[u].mine = call[u].mine
    BY <1>3 DEF InHand
  <1>11. HeldAlone' BY <1>9, <1>10 DEF IInv, HeldAlone
  <1>12. NoProviderLeaked'
    <2> SUFFICES ASSUME NEW q \in Providers, life'[q] = "live"
                 PROVE  q = slot'.ref \/ \E u \in Threads : Holds(u, q)'
      BY DEF NoProviderLeaked
    <2>1. q # p /\ life[q] = "live" BY <1>6
    <2>2. \A u \in Threads : Holds(u, q) => Holds(u, q)' BY <1>3, <2>1 DEF Holds, p
    <2> QED BY <1>1, <2>1, <2>2 DEF IInv, ProvidersSound, NoProviderLeaked
  <1>13. InstalledIsCurrent' /\ NeverServesDisposed' /\ ReadyServesGlobal'
    BY <1>g, <1>1, <1>2, <1>5, <1>6
    DEF IInv, ProvidersSound, InstalledIsCurrent, NeverServesDisposed, ReadyServesGlobal, TypeOK
  <1>14. HandedOutUsable' /\ FlushHonest' BY <1>g, <1>1, <1>3 DEF HandedOutUsable, FlushHonest
  <1>15. ServingAttached' /\ HostLateIsHost'
    BY <1>1, <1>3 DEF IInv, ServingAttached, HostLateIsHost, Metrics
  <1> QED BY <1>3, <1>7, <1>8, <1>11, <1>12, <1>13, <1>14, <1>15 DEF IInv, ProvidersSound

\* Install: the thread is in time, so nothing is installed, and its provider leaves
\* its hand for the slot.  A reader that may serve found the global free, and it
\* still is, unless the host took it.
LEMMA InstallInv ==
  ASSUME IInv, NEW t \in Threads, InstallTracer(t) \/ InstallMeter(t)
  PROVE  IInv'
  <1>g. /\ TypeOK /\ CarriesSound(t) /\ call[t] \in CallType /\ slot.gen \in Int
        /\ HandedOutUsable /\ FlushHonest
    BY Given
  <1> DEFINE p == call[t].mine
  <1>1. /\ call[t].at = "built" /\ ~TooLate(t) /\ Return(t)
        /\ otelGlobal' = SetGlobal(p) /\ slot' = [slot EXCEPT !.ref = p, !.set = TRUE]
        /\ UNCHANGED <<signal, otel, disabled, life, born, got, usable, hostLate>>
    BY DEF InstallTracer, InstallMeter, Install
  <1>2. InHand(t) /\ p \in Providers /\ p # NoProvider /\ life[p] = "live" /\ born[p] = call[t].gen
    BY <1>1, <1>g DEF CarriesSound, InHand
  <1>3. slot.ref = NoProvider /\ slot.gen = call[t].gen BY <1>1 DEF TooLate
  <1>4. /\ slot' \in [ref : Providers \cup {NoProvider}, set : BOOLEAN, gen : 0 .. MaxShutdowns]
        /\ slot'.ref = p /\ slot'.gen = slot.gen
    BY <1>g, <1>1, <1>2 DEF TypeOK
  <1>5. /\ call' \in [Threads -> CallType] /\ call'[t].at = "idle" /\ CarriesSound(t)'
        /\ \A u \in Threads : u # t => call'[u] = call[u]
    BY <1>1, ReturnCall
  <1>6. otelGlobal' \in Handles /\ (otelGlobal = NoProvider => otelGlobal' = p)
        /\ (otelGlobal # NoProvider => otelGlobal' = otelGlobal)
    BY <1>g, <1>1, <1>2, HandleFacts DEF SetGlobal, TypeOK
  <1>7. meters' \in [Names -> Handles]
    BY <1>g, <1>6, HandleFacts DEF InstallTracer, InstallMeter, TypeOK
  <1>8. \/ ~Metrics /\ endpoint' = endpoint
        \/ call[t].pull = "ready" /\ endpoint' = [status |-> "ready", serving |-> p]
        \/ \E s \in Statuses : s # "ready" /\ endpoint' = [status |-> s, serving |-> NoProvider]
    <2>1. CASE InstallTracer(t) BY <2>1 DEF InstallTracer
    <2>2. CASE InstallMeter(t) /\ call[t].pull = "ready" BY <2>2 DEF InstallMeter, MarkReady
    <2>3. CASE InstallMeter(t) /\ call[t].pull # "ready"
      BY <2>3, <1>g DEF InstallMeter, SetStatus, CallType
    <2> QED BY <2>1, <2>2, <2>3
  <1>9. call[t].pull = "ready" => otelGlobal = NoProvider \/ hostLate
    BY <1>1, <1>g DEF CarriesSound
  <1>10. \A u \in Threads : u # t /\ InHand(u) => call[u].mine # p BY <1>2 DEF IInv, HeldAlone
  <1>n. ServingAttached /\ HostLateIsHost BY DEF IInv, ProvidersSound
  <1> HIDE DEF p
  <1>11. endpoint' \in [status : Statuses, serving : Providers \cup {NoProvider}]
    BY <1>g, <1>2, <1>8 DEF TypeOK, Statuses
  <1>12. TypeOK' BY <1>g, <1>1, <1>2, <1>4, <1>5, <1>6, <1>7, <1>11 DEF TypeOK, CallType
  <1>13. ASSUME NEW u \in Threads, u # t PROVE CarriesSound(u)'
    <2>1. CarriesSound(u) BY DEF IInv
    <2>2. InHand(u) => /\ life'[call[u].mine] = "live" /\ call[u].mine # slot'.ref
                       /\ born'[call[u].mine] = born[call[u].mine]
      BY <1>1, <1>4, <1>10, <1>13, HeldFacts
    <2>3. slot'.ref # NoProvider BY <1>2, <1>4
    <2> QED BY <1>1, <1>4, <1>5, <1>13, <1>g, <1>12, <2>1, <2>2, <2>3, OtherCarries
  <1>14. ~InHand(t)' BY <1>5 DEF InHand
  <1>15. \A u \in Threads : u # t => (InHand(u)' <=> InHand(u)) /\ call'[u].mine = call[u].mine
    BY <1>5 DEF InHand
  <1>16. HeldAlone' BY <1>14, <1>15 DEF IInv, HeldAlone
  <1>17. NoProviderLeaked'
    <2> SUFFICES ASSUME NEW q \in Providers, life'[q] = "live", q # p
                 PROVE  \E u \in Threads : Holds(u, q)'
      BY <1>4 DEF NoProviderLeaked
    <2>1. \A u \in Threads : Holds(u, q) => Holds(u, q)' BY <1>5 DEF Holds, p
    <2>2. q # slot.ref BY <1>3, HandleFacts
    <2> QED BY <1>1, <2>1, <2>2 DEF IInv, ProvidersSound, NoProviderLeaked
  <1>18. InstalledIsCurrent' BY <1>1, <1>2, <1>3, <1>4 DEF InstalledIsCurrent
  <1>19. NeverServesDisposed' /\ ServingAttached'
    <2>1. CASE ~Metrics /\ endpoint' = endpoint
      BY <2>1, <1>1, <1>n DEF NeverServesDisposed, ServingAttached, Metrics
    <2>2. CASE call[t].pull = "ready" /\ endpoint' = [status |-> "ready", serving |-> p]
      <3>1. Metrics BY <2>2, <1>1, <1>8, <1>2, <1>n DEF ServingAttached, InstallTracer, InstallMeter
      <3> QED BY <2>2, <3>1, <1>1, <1>2, <1>4 DEF NeverServesDisposed, ServingAttached, Metrics
    <2>3. CASE \E s \in Statuses : s # "ready" /\ endpoint' = [status |-> s, serving |-> NoProvider]
      BY <2>3 DEF NeverServesDisposed, ServingAttached
    <2> QED BY <1>8, <2>1, <2>2, <2>3
  <1>20. ReadyServesGlobal' /\ HostLateIsHost'
    <2>1. HostLateIsHost' BY <1>1, <1>6, <1>n, HandleFacts DEF HostLateIsHost
    <2>2. CASE ~Metrics /\ endpoint' = endpoint
      BY <2>1, <2>2, <1>n DEF ServingAttached, ReadyServesGlobal
    <2>3. CASE call[t].pull = "ready" /\ endpoint' = [status |-> "ready", serving |-> p]
      BY <2>1, <2>3, <1>1, <1>6, <1>9 DEF ReadyServesGlobal
    <2>4. CASE \E s \in Statuses : s # "ready" /\ endpoint' = [status |-> s, serving |-> NoProvider]
      BY <2>1, <2>4 DEF ReadyServesGlobal
    <2> QED BY <1>8, <2>1, <2>2, <2>3, <2>4
  <1>21. HandedOutUsable' /\ FlushHonest' BY <1>g, <1>1, <1>5 DEF HandedOutUsable, FlushHonest
  <1> QED BY <1>5, <1>12, <1>13, <1>16, <1>17, <1>18, <1>19, <1>20, <1>21 DEF IInv, ProvidersSound

\* Detach: the provider leaves the slot for the hand of the shutdown, and every
\* thread that is still building is too late from now on.
LEMMA DetachInv ==
  ASSUME IInv, NEW t \in Threads, DetachTracer(t) \/ DetachMeter(t)
  PROVE  IInv'
  <1>g. /\ TypeOK /\ call \in [Threads -> CallType] /\ call[t] \in CallType
        /\ slot.gen \in 0 .. MaxShutdowns /\ slot.gen \in Int /\ HandedOutUsable /\ FlushHonest
    BY Given
  <1>1. /\ call[t] = Idle /\ slot.gen < MaxShutdowns /\ slot' = [slot EXCEPT !.ref = NoProvider, !.gen = @ + 1]
        /\ UNCHANGED <<signal, otel, disabled, otelGlobal, life, born, endpoint, got, usable, hostLate>>
    BY DEF DetachTracer, DetachMeter, Detach
  <1>2. /\ slot' \in [ref : Providers \cup {NoProvider}, set : BOOLEAN, gen : 0 .. MaxShutdowns]
        /\ slot'.ref = NoProvider /\ slot'.gen = slot.gen + 1
    <2>1. slot.gen + 1 \in 0 .. MaxShutdowns BY <1>g, <1>1, Bounds
    <2>2. slot \in [ref : Providers \cup {NoProvider}, set : BOOLEAN, gen : 0 .. MaxShutdowns]
      BY <1>g DEF TypeOK
    <2> QED BY <1>1, <2>1, <2>2
  <1>3. call[t].at = "idle" /\ call[t].mine = NoProvider BY <1>1 DEF Idle
  <1>4. slot.ref \in Handles /\ slot.ref \in Providers \cup {NoProvider} BY <1>g, HandleFacts DEF TypeOK
  <1>5. /\ call' \in [Threads -> CallType] /\ \A u \in Threads : u # t => call'[u] = call[u]
        /\ \/ slot.ref = NoProvider /\ ~Metrics /\ call'[t] = Idle
           \/ slot.ref # NoProvider /\ ~Metrics /\ call'[t].at = "dispose" /\ call'[t].mine = slot.ref
           \/ Metrics /\ call'[t].at = "status" /\ call'[t].mine = slot.ref
    <2>1. CASE DetachTracer(t) /\ slot.ref = NoProvider BY <2>1, <1>g, <1>1 DEF DetachTracer
    <2>2. CASE DetachTracer(t) /\ slot.ref # NoProvider
      <3>1. call' = [call EXCEPT ![t].at = "dispose", ![t].mine = slot.ref] /\ ~Metrics
        BY <2>2 DEF DetachTracer
      <3> QED BY <3>1, <2>2, <1>g, <1>4 DEF CallType, Steps
    <2>3. CASE DetachMeter(t)
      <3>1. call' = [call EXCEPT ![t].at = "status", ![t].mine = slot.ref] /\ Metrics
        BY <2>3 DEF DetachMeter
      <3> QED BY <3>1, <1>g, <1>4 DEF CallType, Steps
    <2> QED BY <2>1, <2>2, <2>3
  <1>6. meters' \in [Names -> Handles] BY <1>g, HandleFacts DEF DetachTracer, DetachMeter, TypeOK
  <1>7. TypeOK' BY <1>g, <1>1, <1>2, <1>5, <1>6 DEF TypeOK, CallType
  <1>8. slot.ref # NoProvider => life[slot.ref] = "live" BY <1>g DEF TypeOK
  <1>9. CarriesSound(t)'
    <2>1. CASE call'[t] = Idle BY <2>1, IdleCarries
    <2>2. CASE call'[t].at = "dispose" /\ slot.ref # NoProvider /\ call'[t].mine = slot.ref
      BY <2>2, <1>1, <1>2, <1>4, <1>8 DEF CarriesSound, InHand
    <2>3. CASE call'[t].at = "status" /\ Metrics /\ call'[t].mine = slot.ref
      BY <2>3, <1>1, <1>2, <1>4, <1>8 DEF CarriesSound, InHand, Metrics
    <2> QED BY <1>5, <2>1, <2>2, <2>3
  <1>10. ASSUME NEW u \in Threads, u # t PROVE CarriesSound(u)'
    <2>1. CarriesSound(u) BY DEF IInv
    <2>2. InHand(u) => /\ life'[call[u].mine] = "live" /\ call[u].mine # slot'.ref
                       /\ born'[call[u].mine] = born[call[u].mine]
      BY <1>1, <1>2, HeldFacts, HandleFacts
    <2>3. slot.gen <= slot'.gen /\ slot'.gen > slot.gen BY <1>g, <1>2
    <2> QED BY <1>1, <1>5, <1>10, <1>g, <1>7, <2>1, <2>2, <2>3, OtherCarries
  <1>11. InHand(t)' => call'[t].mine = slot.ref BY <1>5 DEF InHand, Idle
  <1>12. \A u \in Threads : u # t => (InHand(u)' <=> InHand(u)) /\ call'[u].mine = call[u].mine
    BY <1>5 DEF InHand
  <1>13. \A u \in Threads : InHand(u) => call[u].mine # slot.ref BY HeldFacts
  <1>14. HeldAlone' BY <1>11, <1>12, <1>13 DEF IInv, HeldAlone
  <1>15. NoProviderLeaked'
    <2> SUFFICES ASSUME NEW q \in Providers, life'[q] = "live"
                 PROVE  \E u \in Threads : Holds(u, q)'
      BY DEF NoProviderLeaked
    <2>1. CASE q = slot.ref BY <2>1, <1>5, HandleFacts DEF Holds
    <2>2. CASE q # slot.ref
      <3>1. \A u \in Threads : Holds(u, q) => Holds(u, q)' BY <1>3, <1>5 DEF Holds
      <3> QED BY <1>1, <2>2, <3>1 DEF IInv, ProvidersSound, NoProviderLeaked
    <2> QED BY <2>1, <2>2
  <1>16. InstalledIsCurrent' /\ NeverServesDisposed' /\ ReadyServesGlobal'
    BY <1>1, <1>2
    DEF IInv, ProvidersSound, InstalledIsCurrent, NeverServesDisposed, ReadyServesGlobal
  <1>17. HandedOutUsable' /\ FlushHonest'
    <2>1. call'[t].at # "report" BY <1>5 DEF Idle
    <2> QED BY <1>g, <1>1, <1>5, <2>1 DEF HandedOutUsable, FlushHonest
  <1>18. ServingAttached'
    <2>1. ServingAttached BY DEF IInv
    <2>2. CASE ~Metrics BY <2>1, <2>2, <1>1 DEF ServingAttached, Metrics
    <2>3. CASE Metrics
      <3>1. call'[t].at = "status" /\ call'[t].mine = slot.ref BY <2>3, <1>5
      <3>2. \A u \in Threads : call[u].at = "status" => call'[u] = call[u] BY <1>3, <1>5
      <3> QED BY <2>1, <2>3, <3>1, <3>2, <1>1 DEF ServingAttached, Metrics
    <2> QED BY <2>2, <2>3
  <1>19. HostLateIsHost' BY <1>1 DEF IInv, HostLateIsHost
  <1> QED BY <1>7, <1>9, <1>10, <1>14, <1>15, <1>16, <1>17, <1>18, <1>19 DEF IInv, ProvidersSound

\* The endpoint stops serving; the provider stays in the hand of the shutdown.
LEMMA ShutDownStatusInv ==
  ASSUME IInv, NEW t \in Threads, ShutDownStatus(t)
  PROVE  IInv'
  <1>g. /\ TypeOK /\ CarriesSound(t) /\ call \in [Threads -> CallType] /\ call[t] \in CallType
        /\ slot.gen \in Int /\ HandedOutUsable /\ FlushHonest
    BY Given
  <1>1. /\ call[t].at = "status" /\ SetStatus("shut_down")
        /\ UNCHANGED <<signal, otel, disabled, slot, otelGlobal, life, born, meters, got, usable, hostLate>>
    BY DEF ShutDownStatus
  <1>2. /\ endpoint' \in [status : Statuses, serving : Providers \cup {NoProvider}]
        /\ endpoint'.serving = NoProvider /\ endpoint'.status = "shut_down"
    BY <1>1, StatusType DEF Statuses
  <1>3. /\ call' \in [Threads -> CallType] /\ \A u \in Threads : u # t => call'[u] = call[u]
        /\ \/ call[t].mine = NoProvider /\ call'[t] = Idle /\ call'[t].at = "idle"
           \/ call[t].mine # NoProvider /\ call'[t].at = "dispose" /\ call'[t].mine = call[t].mine
    <2>1. CASE call[t].mine = NoProvider
      <3>1. Return(t) BY <2>1 DEF ShutDownStatus
      <3> QED BY <2>1, <3>1, ReturnCall
    <2>2. CASE call[t].mine # NoProvider
      <3>1. call' = [call EXCEPT ![t].at = "dispose"] BY <2>2 DEF ShutDownStatus
      <3> QED BY <2>2, <3>1, <1>g DEF CallType, Steps
    <2> QED BY <2>1, <2>2
  <1>4. TypeOK' BY <1>g, <1>1, <1>2, <1>3 DEF TypeOK, CallType
  <1>5. \A u \in Threads : (InHand(u)' <=> InHand(u)) /\ (InHand(u) => call'[u].mine = call[u].mine)
    BY <1>1, <1>3 DEF InHand
  <1>6. CarriesSound(t)'
    <2>1. CASE call'[t] = Idle BY <2>1, IdleCarries
    <2>2. CASE call[t].mine # NoProvider /\ call'[t].at = "dispose" /\ call'[t].mine = call[t].mine
      <3>1. InHand(t) BY <2>2, <1>1 DEF InHand
      <3>2. call[t].mine \in Providers /\ life[call[t].mine] = "live" /\ call[t].mine # slot.ref
        BY <3>1, HeldFacts
      <3> QED BY <2>2, <3>2, <1>1 DEF CarriesSound, InHand
    <2> QED BY <1>3, <2>1, <2>2
  <1>7. ASSUME NEW u \in Threads, u # t PROVE CarriesSound(u)'
    <2>1. CarriesSound(u) BY DEF IInv
    <2>2. InHand(u) => /\ life'[call[u].mine] = "live" /\ call[u].mine # slot'.ref
                       /\ born'[call[u].mine] = born[call[u].mine]
      BY <1>1, HeldFacts
    <2> QED BY <1>1, <1>3, <1>7, <1>g, <1>4, <2>1, <2>2, OtherCarries
  <1>8. HeldAlone' BY <1>5 DEF IInv, HeldAlone
  <1>9. NoProviderLeaked'
    <2>1. \A u \in Threads, q \in Providers : Holds(u, q) => Holds(u, q)'
      BY <1>1, <1>3, HandleFacts DEF Holds
    <2> QED BY <1>1, <2>1 DEF IInv, ProvidersSound, NoProviderLeaked
  <1>10. InstalledIsCurrent' BY <1>1 DEF IInv, ProvidersSound, InstalledIsCurrent
  <1>11. NeverServesDisposed' /\ ReadyServesGlobal' /\ ServingAttached'
    BY <1>2 DEF NeverServesDisposed, ReadyServesGlobal, ServingAttached
  <1>12. HandedOutUsable' /\ FlushHonest' BY <1>g, <1>1, <1>3 DEF HandedOutUsable, FlushHonest
  <1>13. HostLateIsHost' BY <1>1 DEF IInv, HostLateIsHost
  <1> QED BY <1>4, <1>6, <1>7, <1>8, <1>9, <1>10, <1>11, <1>12, <1>13 DEF IInv, ProvidersSound

\* The host takes the global: a reader that serves hangs on the global, so none
\* does yet, and those still to be attached are the history variable's case.
LEMMA HostInstallsInv ==
  ASSUME IInv, HostInstalls
  PROVE  IInv'
  <1>g. TypeOK /\ ServingAttached /\ ReadyServesGlobal /\ HostLateIsHost BY DEF IInv, ProvidersSound
  <1>1. /\ otelGlobal = NoProvider /\ otelGlobal' = Host
        /\ hostLate' = \E t \in Threads : call[t].at = "built" /\ call[t].pull = "ready"
        /\ UNCHANGED <<signal, otel, disabled, slot, life, born, endpoint, meters, call, got, usable>>
    BY DEF HostInstalls
  <1>2. hostLate' \in BOOLEAN BY <1>1
  <1>3. TypeOK' BY <1>g, <1>1, <1>2, HandleFacts DEF TypeOK
  <1>4. ~hostLate /\ endpoint.status # "ready"
    BY <1>g, <1>1, HandleFacts DEF ServingAttached, ReadyServesGlobal, HostLateIsHost
  <1>5. ASSUME NEW u \in Threads PROVE CarriesSound(u)'
    <2>1. CarriesSound(u) BY DEF IInv
    <2> QED BY <1>1, <2>1 DEF CarriesSound, InHand, TooLate, Metrics
  <1>6. HeldAlone' BY <1>1 DEF IInv, HeldAlone, InHand
  <1>7. NoProviderLeaked' /\ InstalledIsCurrent' /\ NeverServesDisposed'
    BY <1>1 DEF IInv, ProvidersSound, NoProviderLeaked, Holds, InstalledIsCurrent, NeverServesDisposed
  <1>8. ReadyServesGlobal' /\ HostLateIsHost' BY <1>1, <1>4 DEF ReadyServesGlobal, HostLateIsHost
  <1>9. HandedOutUsable' /\ FlushHonest'
    BY <1>1 DEF IInv, ProvidersSound, HandedOutUsable, FlushHonest
  <1>10. ServingAttached' BY <1>g, <1>1 DEF ServingAttached, Metrics
  <1> QED BY <1>3, <1>5, <1>6, <1>7, <1>8, <1>9, <1>10 DEF IInv, ProvidersSound

\* Every step keeps the invariant.
LEMMA StepInv == IInv /\ [Next]_vars => IInv'
  <1> SUFFICES ASSUME IInv, [Next]_vars PROVE IInv' OBVIOUS
  <1>1. CASE UNCHANGED vars
    <2>1. TypeOK' BY <1>1 DEF vars, IInv, ProvidersSound, TypeOK
    <2>2. ASSUME NEW t \in Threads PROVE CarriesSound(t)'
      BY <1>1 DEF vars, IInv, CarriesSound, InHand, TooLate, Metrics
    <2>3. HeldAlone' /\ ServingAttached' /\ HostLateIsHost'
      BY <1>1 DEF vars, IInv, HeldAlone, InHand, ServingAttached, HostLateIsHost, Metrics
    <2>4. NoProviderLeaked' /\ InstalledIsCurrent' /\ NeverServesDisposed' /\ ReadyServesGlobal'
          /\ HandedOutUsable' /\ FlushHonest'
      BY <1>1 DEF vars, IInv, ProvidersSound, NoProviderLeaked, Holds, InstalledIsCurrent,
                  NeverServesDisposed, ReadyServesGlobal, HandedOutUsable, FlushHonest
    <2> QED BY <2>1, <2>2, <2>3, <2>4 DEF IInv, ProvidersSound
  <1>2. CASE HostInstalls BY <1>2, HostInstallsInv
  <1>3. ASSUME NEW t \in Threads, Setup(t) PROVE IInv'
    BY <1>3, FlagsInv, SetupBeginInv, MeterExporterFailsInv, BuildRaisesInv, BuildInv, DisposeInv, InstallInv DEF Setup
  <1>4. ASSUME NEW t \in Threads, Shutdown(t) PROVE IInv'
    BY <1>4, DetachInv, ShutDownStatusInv, DisposeInv DEF Shutdown
  <1>5. ASSUME NEW t \in Threads, Get(t) PROVE IInv' BY <1>5, GetInv, HandOutInv DEF Get
  <1>6. ASSUME NEW t \in Threads, Flush(t) PROVE IInv' BY <1>6, FlushInv
  <1> QED BY <1>1, <1>2, <1>3, <1>4, <1>5, <1>6 DEF Next

\* The inductive invariant is an invariant.
LEMMA Invariance == Spec => []IInv
  <1> QED BY InitInv, StepInv, PTL DEF Spec

-----------------------------------------------------------------------------
(* Theorems                                                                *)

\* However setups, shutdowns, flushes, handle fetches and a host application race in
\* tracing/provider.py and metrics/provider.py, no provider leaks, an installed one is
\* current and live, the endpoint serves no drained reader, handles come from usable
\* providers and a flush reports no drain that did not happen.
THEOREM ProvidersAreSound == Spec => []ProvidersSound
  <1>1. IInv => ProvidersSound BY DEF IInv
  <1> QED BY Invariance, <1>1, PTL

\* Some setup has p in hand, still to be installed.
Building(p) == \E t \in Threads : call[t].at = "built" /\ call[t].mine = p

\* The phase of one provider.
LEMMA PhaseAt ==
  ASSUME NEW p \in Providers
  PROVE  Phase[p] = IF life[p] # "live" THEN life[p] ELSE IF p = slot.ref THEN "installed"
                    ELSE IF Building(p) THEN "built" ELSE "detached"
  BY DEF Phase, Building

LEMMA PhaseAtNext ==
  ASSUME NEW p \in Providers
  PROVE  Phase'[p] = IF life'[p] # "live" THEN life'[p] ELSE IF p = slot'.ref THEN "installed"
                     ELSE IF Building(p)' THEN "built" ELSE "detached"
  BY DEF Phase, Building

\* A step that changes the phase of one provider only.
LEMMA PhaseStep ==
  ASSUME NEW p \in Providers, NEW x, Phase'[p] = x,
         \A q \in Providers : q # p => Phase'[q] = Phase[q]
  PROVE  Phase' = [Phase EXCEPT ![p] = x]
  <1>1. Phase = [q \in Providers |-> Phase[q]] /\ Phase' = [q \in Providers |-> Phase'[q]] BY DEF Phase
  <1> QED BY <1>1

\* A step that leaves the providers, the slot and the builds alone changes no phase.
LEMMA PhaseSame ==
  ASSUME life' = life, slot'.ref = slot.ref, NEW t \in Threads,
         call[t].at # "built", call'[t].at # "built",
         \A u \in Threads : u # t => call'[u] = call[u]
  PROVE  Phase' = Phase
  <1>1. ASSUME NEW p \in Providers PROVE Building(p)' <=> Building(p) BY DEF Building
  <1>2. ASSUME NEW p \in Providers PROVE Phase'[p] = Phase[p] BY <1>1, PhaseAt, PhaseAtNext
  <1>3. Phase = [q \in Providers |-> Phase[q]] /\ Phase' = [q \in Providers |-> Phase'[q]] BY DEF Phase
  <1> QED BY <1>2, <1>3

\* Steps of setup, get and flush that neither build, install nor dispose.
LEMMA QuietPhase ==
  ASSUME IInv, NEW t \in Threads,
         \/ SetupDisabled(t) \/ SetupWithoutOtel(t) \/ (\E w \in BOOLEAN : SetupBegin(t, w))
         \/ MeterExporterFails(t) \/ BuildRaises(t) \/ Get(t) \/ Flush(t) \/ ShutDownStatus(t)
  PROVE  Phase' = Phase
  <1>g. call[t] \in CallType /\ call \in [Threads -> CallType] BY Given
  <1> SUFFICES /\ life' = life /\ slot'.ref = slot.ref /\ call[t].at # "built" /\ call'[t].at # "built"
               /\ \A u \in Threads : u # t => call'[u] = call[u]
    BY PhaseSame
  <1>0. ASSUME call' = call, call[t] = Idle PROVE call[t].at # "built" /\ call'[t].at # "built"
    BY <1>0 DEF Idle
  <1>1. CASE SetupDisabled(t) \/ SetupWithoutOtel(t)
    BY <1>0, <1>1 DEF SetupDisabled, SetupWithoutOtel
  <1>2. CASE \E w \in BOOLEAN : SetupBegin(t, w)
    BY <1>2, <1>g DEF SetupBegin, CallType, Idle
  <1>3. CASE MeterExporterFails(t) \/ BuildRaises(t)
    BY <1>3, ReturnCall DEF MeterExporterFails, BuildRaises
  <1>4. CASE GetTracer(t) \/ \E n \in Names : GetMeter(t, n)
    <2>1. call[t] = Idle /\ UNCHANGED <<life, slot>> BY <1>4 DEF GetTracer, GetMeter
    <2>2. CASE ~Effective BY <2>1, <2>2, <1>0, <1>4 DEF GetTracer, GetMeter
    <2>3. CASE Effective
      <3>1. CASE GetTracer(t) BY <2>1, <2>3, <3>1, <1>g DEF GetTracer, CallType, Idle
      <3>2. CASE \E n \in Names : GetMeter(t, n) BY <2>1, <2>3, <3>2, <1>g DEF GetMeter, CallType, Idle
      <3> QED BY <1>4, <3>1, <3>2
    <2> QED BY <2>2, <2>3
  <1>5. CASE ReadCache(t)
    <2>1. call[t].at # "built" /\ UNCHANGED <<life, slot>> BY <1>5 DEF ReadCache
    <2>2. CASE Return(t) BY <2>1, <2>2, ReturnCall
    <2>3. CASE ~Return(t) BY <2>1, <2>3, <1>5, <1>g DEF ReadCache, CallType
    <2> QED BY <2>2, <2>3
  <1>6. CASE Fetch(t)
    <2>1. call[t].at # "built" /\ UNCHANGED <<life, slot>> BY <1>6 DEF Fetch
    <2>2. CASE Return(t) BY <2>1, <2>2, ReturnCall
    <2>3. CASE ~Return(t) BY <2>1, <2>3, <1>6, <1>g DEF Fetch, CallType
    <2> QED BY <2>2, <2>3
  <1>7. CASE Store(t) BY <1>7, ReturnCall DEF Store
  <1>8. CASE FlushBegin(t) BY <1>8, <1>g DEF FlushBegin, CallType, Idle
  <1>9. CASE FlushOwned(t) BY <1>9, <1>g DEF FlushOwned, CallType
  <1>10. ASSUME NEW outcome \in {"flushed", "timed_out", "failed"}, Report(t, outcome)
         PROVE  call'[t].at # "built" /\ \A u \in Threads : u # t => call'[u] = call[u]
    BY <1>10, <1>g DEF Report, Idle, CallType
  <1>11. CASE FlushTake(t)
    <2>1. CASE slot.ref = NoProvider BY <2>1, <1>10, <1>11 DEF FlushTake
    <2>2. CASE slot.ref # NoProvider BY <2>2, <1>11, <1>g DEF FlushTake, CallType
    <2> QED BY <2>1, <2>2
  <1>12. CASE FlushDrained(t) BY <1>10, <1>12 DEF FlushDrained
  <1>13. CASE FlushReturn(t) BY <1>13, ReturnCall DEF FlushReturn
  <1>14. CASE ShutDownStatus(t)
    <2>1. call[t].at # "built" /\ UNCHANGED <<life, slot>> BY <1>14 DEF ShutDownStatus
    <2>2. CASE Return(t) BY <2>1, <2>2, ReturnCall
    <2>3. CASE ~Return(t) BY <2>1, <2>3, <1>14, <1>g DEF ShutDownStatus, CallType
    <2> QED BY <2>2, <2>3
  <1> QED BY <1>1, <1>2, <1>3, <1>4, <1>5, <1>6, <1>7, <1>8, <1>9, <1>11, <1>12, <1>13, <1>14
          DEF Get, Flush

\* Every step of the providers is a step of the abstract lifecycle, or none.
LEMMA LifeStep == IInv /\ [Next]_vars => [Life!Next]_Phase
  <1> SUFFICES ASSUME IInv, [Next]_vars PROVE Life!Next \/ Phase' = Phase
    BY DEF Phase
  <1>t. TypeOK BY DEF IInv, ProvidersSound
  <1>1. CASE UNCHANGED vars BY <1>1 DEF vars, Phase
  <1>2. CASE HostInstalls BY <1>2 DEF HostInstalls, Phase
  <1>3. ASSUME NEW t \in Threads, Build(t) PROVE Life!Next
    <2>g. call[t] \in CallType /\ call \in [Threads -> CallType] BY Given
    <2>1. PICK p \in Providers :
            /\ \A q \in Providers : life[q] = "unbuilt" <=> q >= p
            /\ life' = [life EXCEPT ![p] = "live"]
            /\ call' = [call EXCEPT ![t].at = "built", ![t].mine = p, ![t].pull = PullStatus(t)]
      BY <1>3 DEF Build
    <2>2. p \in Int /\ call[t].at = "build" /\ slot' = slot BY <1>3 DEF Build, Providers
    <2>3. life[p] = "unbuilt" BY <2>1, <2>2
    <2>4. life'[p] = "live" /\ \A q \in Providers : q # p => life'[q] = life[q] BY <2>1, <1>t DEF TypeOK
    <2>5. p # slot.ref BY <2>3, <1>t, HandleFacts DEF TypeOK
    <2>6. call'[t].at = "built" /\ call'[t].mine = p /\ \A u \in Threads : u # t => call'[u] = call[u]
      BY <2>1, <2>g DEF CallType
    <2>7. Building(p)' BY <2>6 DEF Building
    <2>8. ASSUME NEW q \in Providers, q # p PROVE Building(q)' <=> Building(q)
      BY <2>2, <2>6, <2>8 DEF Building
    <2>9. Phase[p] = "unbuilt" /\ Phase'[p] = "built"
      BY <2>2, <2>3, <2>4, <2>5, <2>7, PhaseAt, PhaseAtNext
    <2>10. ASSUME NEW q \in Providers, q # p PROVE Phase'[q] = Phase[q]
      BY <2>2, <2>4, <2>8, <2>10, PhaseAt, PhaseAtNext
    <2>11. Phase' = [Phase EXCEPT ![p] = "built"] BY <2>9, <2>10, PhaseStep
    <2> QED BY <2>9, <2>11 DEF Life!Next, Life!Build, Life!Move
  <1>4. ASSUME NEW t \in Threads,
               SpanExporterFails(t) \/ SpanExporterRaises(t) \/ Discard(t) \/ Dispose(t)
        PROVE  Life!Next
    <2> DEFINE p == call[t].mine
    <2>1. PICK v \in {"lost", "disposed"} :
          /\ call[t].at \in {"built", "dispose"} /\ (v = "lost" => call[t].at = "built")
          /\ Return(t) /\ life' = [life EXCEPT ![p] = v]
          /\ slot' = slot
      BY <1>4 DEF SpanExporterFails, SpanExporterRaises, Discard, Dispose
    <2>2. p \in Providers /\ life[p] = "live" /\ p # slot.ref
      BY <2>1 DEF IInv, CarriesSound, InHand
    <2>3. call'[t].at = "idle" /\ \A u \in Threads : u # t => call'[u] = call[u] BY <2>1, ReturnCall
    <2>4. life'[p] = v /\ \A q \in Providers : q # p => life'[q] = life[q]
      BY <2>1, <2>2, <1>t DEF TypeOK
    <2>5. ASSUME NEW q \in Providers, q # p PROVE Building(q)' <=> Building(q)
      BY <2>3, <2>5 DEF Building
    <2>9. call[t].at = "built" => Building(p) BY DEF Building
    <2> HIDE DEF p
    <2>6. /\ Phase[p] \in {"built", "detached"} /\ Phase'[p] = v
          /\ v = "lost" => Phase[p] = "built"
      BY <2>1, <2>2, <2>4, <2>9, PhaseAt, PhaseAtNext
    <2>7. ASSUME NEW q \in Providers, q # p PROVE Phase'[q] = Phase[q]
      BY <2>1, <2>4, <2>5, <2>7, PhaseAt, PhaseAtNext
    <2>8. Phase' = [Phase EXCEPT ![p] = v] BY <2>2, <2>6, <2>7, PhaseStep
    <2> QED BY <2>2, <2>6, <2>8 DEF Life!Next, Life!Dispose, Life!Lose, Life!Move
  <1>5. ASSUME NEW t \in Threads, InstallTracer(t) \/ InstallMeter(t) PROVE Life!Next
    <2> DEFINE p == call[t].mine
    <2>1. /\ call[t].at = "built" /\ ~TooLate(t) /\ Return(t) /\ life' = life
          /\ slot' = [slot EXCEPT !.ref = p, !.set = TRUE]
      BY <1>5 DEF InstallTracer, InstallMeter, Install
    <2>2. p \in Providers /\ life[p] = "live" BY <2>1 DEF IInv, CarriesSound, InHand
    <2>3. slot.ref = NoProvider /\ slot'.ref = p BY <2>1, <1>t DEF TooLate, TypeOK
    <2>4. call'[t].at = "idle" /\ \A u \in Threads : u # t => call'[u] = call[u] BY <2>1, ReturnCall
    <2>5. ASSUME NEW q \in Providers, q # p PROVE Building(q)' <=> Building(q)
      BY <2>4, <2>5 DEF Building
    <2>6. Building(p) BY <2>1 DEF Building
    <2> HIDE DEF p
    <2>7. ASSUME NEW q \in Providers PROVE Phase[q] # "installed"
      <3>1. q # slot.ref BY <2>3, HandleFacts
      <3>2. life[q] # "installed" BY <1>t DEF TypeOK
      <3> QED BY <3>1, <3>2, PhaseAt
    <2>8. Phase[p] = "built" /\ Phase'[p] = "installed"
      BY <2>1, <2>2, <2>3, <2>6, HandleFacts, PhaseAt, PhaseAtNext
    <2>9. ASSUME NEW q \in Providers, q # p PROVE Phase'[q] = Phase[q]
      <3>1. q # slot.ref BY <2>3, HandleFacts
      <3> QED BY <2>1, <2>3, <2>5, <2>9, <3>1, PhaseAt, PhaseAtNext
    <2>10. Phase' = [Phase EXCEPT ![p] = "installed"] BY <2>2, <2>8, <2>9, PhaseStep
    <2> QED BY <2>2, <2>7, <2>8, <2>10 DEF Life!Next, Life!Install, Life!Move
  <1>6. ASSUME NEW t \in Threads, DetachTracer(t) \/ DetachMeter(t) PROVE Life!Next \/ Phase' = Phase
    <2>g. call[t] \in CallType /\ call \in [Threads -> CallType] BY Given
    <2>1. /\ call[t] = Idle /\ life' = life /\ slot' = [slot EXCEPT !.ref = NoProvider, !.gen = @ + 1]
      BY <1>6 DEF DetachTracer, DetachMeter, Detach
    <2>2. call[t].at = "idle" /\ slot'.ref = NoProvider BY <2>1, <1>t DEF Idle, TypeOK
    <2>3. call'[t].at # "built" /\ \A u \in Threads : u # t => call'[u] = call[u]
      BY <1>6, <2>2, <2>g DEF DetachTracer, DetachMeter, CallType
    <2>4. CASE slot.ref = NoProvider BY <2>1, <2>2, <2>3, <2>4, PhaseSame
    <2>5. CASE slot.ref # NoProvider
      <3>0. slot.ref \in Providers BY <2>5, <1>t DEF TypeOK
      <3>p. PICK p \in Providers : p = slot.ref BY <3>0
      <3>1. life[p] = "live" BY <2>5, <3>p, <1>t DEF TypeOK
      <3>2. ~Building(p)'
        <4>1. \A u \in Threads : call[u].at = "built" => call[u].mine # p
          BY <3>p DEF IInv, CarriesSound, InHand
        <4> QED BY <4>1, <2>3 DEF Building
      <3>3. ASSUME NEW q \in Providers PROVE Building(q)' <=> Building(q) BY <2>2, <2>3 DEF Building
      <3>4. p # slot'.ref BY <2>2, <2>5, <3>p
      <3>5. Phase[p] = "installed" /\ Phase'[p] = "detached"
        BY <2>1, <3>p, <3>1, <3>2, <3>4, PhaseAt, PhaseAtNext
      <3>6. ASSUME NEW q \in Providers, q # p PROVE Phase'[q] = Phase[q]
        <4>1. q # slot'.ref BY <2>2, HandleFacts
        <4> QED BY <2>1, <3>p, <3>3, <3>6, <4>1, PhaseAt, PhaseAtNext
      <3>7. Phase' = [Phase EXCEPT ![p] = "detached"] BY <3>5, <3>6, PhaseStep
      <3> QED BY <3>5, <3>7 DEF Life!Next, Life!Detach, Life!Move
    <2> QED BY <2>4, <2>5
  <1>7. ASSUME NEW t \in Threads, Setup(t) PROVE Life!Next \/ Phase' = Phase
    BY <1>3, <1>4, <1>5, <1>7, QuietPhase DEF Setup
  <1>8. ASSUME NEW t \in Threads, Shutdown(t) PROVE Life!Next \/ Phase' = Phase
    BY <1>4, <1>6, <1>8, QuietPhase DEF Shutdown
  <1>9. ASSUME NEW t \in Threads, Get(t) \/ Flush(t) PROVE Life!Next \/ Phase' = Phase
    BY <1>9, QuietPhase
  <1> QED BY <1>1, <1>2, <1>7, <1>8, <1>9 DEF Next

\* Both provider modules implement the abstract lifecycle: each provider they build is
\* installed at most once and alone, and shut down only when it is not installed,
\* for any number of threads, providers and shutdowns.
THEOREM ProvidersImplementLifecycle == Spec => LifeSpec
  <1>1. Init => Life!Init
    BY DEF Init, Life!Init, Phase
  <1> QED BY <1>1, LifeStep, Invariance, PTL DEF Spec, LifeSpec, Life!Spec
=============================================================================
