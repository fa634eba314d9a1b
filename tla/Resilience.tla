----------------------------- MODULE Resilience -----------------------------
(***************************************************************************)
(* resilience.py for one signal: the circuit breaker, the retry loop, the  *)
(* bounded semaphore of pending submissions and the replaceable timeout    *)
(* executor, shared by the threads that call run_with_resilience.          *)
(*                                                                         *)
(* A critical section of resilience._lock is one action, and so is every   *)
(* step between two of them that another thread can see.  Semaphores and   *)
(* executors are created on first use and dropped while threads still hold *)
(* them.  Only a shutdown drops a semaphore, so semaphore n is the one     *)
(* used after n shutdowns.  An executor is a member of Executors, which    *)
(* stands for another executor once it has been dropped and no thread      *)
(* holds it.  Time is the number of ticks since the breaker last tripped,  *)
(* which stops counting once no cooldown can exceed it.  Health counters,  *)
(* warnings and the length of a backoff sleep are not modelled.            *)
(***************************************************************************)
EXTENDS Integers, FiniteSets

CONSTANTS
  Threads,        \* threads that export this signal
  LoopThreads,    \* the ones that run inside an asyncio event loop
  Interruptible,  \* the ones a KeyboardInterrupt can reach (the main thread)
  Policies,       \* exporter policies that may be set for the signal
  DefaultPolicy,  \* ExporterPolicy()
  Threshold,      \* _CIRCUIT_BREAKER_THRESHOLD
  BaseCooldown,   \* _CIRCUIT_BASE_COOLDOWN, in ticks
  MaxCooldown,    \* _CIRCUIT_MAX_COOLDOWN, in ticks
  MaxExponent,    \* largest n for which 2 ** n converts to a float (1023)
  MaxAttempts,    \* MAX_EXPORT_ATTEMPTS
  MaxPending,     \* _EXECUTOR_MAX_PENDING
  Executors,      \* timeout executors, one more than there are threads
  NoExecutor,     \* the signal has no executor
  Workers,        \* max_workers of a timeout executor
  MaxCalls,       \* bound: calls of run_with_resilience in a behaviour
  MaxResets       \* bound: shutdowns in a behaviour

ASSUME ResilienceAssumption ==
  /\ IsFiniteSet(Threads)
  /\ LoopThreads \subseteq Threads /\ Interruptible \subseteq Threads
  /\ Policies \subseteq [retries  : Int,     timed    : BOOLEAN,
                         failOpen : BOOLEAN, blocking : BOOLEAN]
  /\ DefaultPolicy \in Policies
  /\ {Threshold, BaseCooldown, MaxCooldown, MaxAttempts, MaxPending, Workers}
       \subseteq Nat \ {0}
  /\ {MaxExponent, MaxCalls, MaxResets} \subseteq Nat
  /\ NoExecutor \notin Executors
  /\ IsFiniteSet(Executors) /\ Cardinality(Executors) > Cardinality(Threads)

VARIABLES
  policy,       \* _policies[signal]
  consecutive,  \* _consecutive_timeouts[signal]
  elapsed,      \* time.monotonic() - _circuit_tripped_at[signal], capped
  openCount,    \* _open_count[signal]
  probing,      \* _half_open_probing[signal]
  deserted,     \* history: the probe that set the flag was interrupted
  taken,        \* permits taken from each semaphore
  executor,     \* _timeout_executors[signal]
  ghosts,       \* per executor: running operations their caller gave up on
  orphans,      \* per executor: queued operations nobody waits for any more
  calls,        \* calls made, up to MaxCalls
  resets,       \* shutdowns made, up to MaxResets
  pc,           \* where each thread is in run_with_resilience
  call          \* each thread's locals

breaker == <<consecutive, elapsed, openCount, probing, deserted>>
pools == <<taken, executor, ghosts, orphans>>
vars == <<policy, breaker, pools, calls, resets, pc, call>>
-----------------------------------------------------------------------------
(* Steps of a call.  Between "acquired" and "release" the thread holds a
   permit of the semaphore it took it from.                                *)
Holding == {"acquired", "submit", "queued", "running", "replace", "release"}
Attempting == {"attempt", "acquire", "inline", "record"} \cup Holding
Steps == {"idle", "check"} \cup Attempting

Outcomes == {"none", "ok", "timeout", "error", "dropped", "raised",
             "OverflowError", "interrupted"}

(* The locals of a call: the policy it read, the attempts it has left, the
   semaphore and the executor it looked up, whether the breaker let it
   through as a half-open probe (cleared after the first attempt), and the
   result of the attempt or of the call.                                   *)
Calls == [policy : Policies, left : 0..MaxAttempts, sem : 0..MaxResets,
          exec : Executors \cup {NoExecutor}, probe : BOOLEAN,
          outcome : Outcomes]

\* Locals before a lookup: policy p, n attempts left, result o.
Locals(p, n, o) == [policy |-> p, left |-> n, sem |-> 0,
                    exec |-> NoExecutor, probe |-> FALSE, outcome |-> o]

Minimum(a, b) == IF a < b THEN a ELSE b

\* min(max(1, policy.retries + 1), MAX_EXPORT_ATTEMPTS), and one attempt only
\* when retries would block an event loop.
Attempts(p, t) ==
  IF (t \in LoopThreads /\ ~p.blocking) \/ p.retries < 0 THEN 1
  ELSE Minimum(p.retries + 1, MaxAttempts)

\* The attempt runs on the calling thread: no timeout, or an event loop.
RunsInline(p, t) == ~p.timed \/ (t \in LoopThreads /\ ~p.blocking)

Cooldown(n) == Minimum(BaseCooldown * 2^n, MaxCooldown)

Tripped == consecutive >= Threshold

Init ==
  /\ policy = DefaultPolicy
  /\ consecutive = 0 /\ elapsed = MaxCooldown /\ openCount = 0
  /\ probing = FALSE /\ deserted = FALSE
  /\ taken = [s \in 0..MaxResets |-> 0]
  /\ executor = NoExecutor /\ ghosts = [e \in Executors |-> 0]
  /\ orphans = [e \in Executors |-> 0]
  /\ calls = 0 /\ resets = 0
  /\ pc = [t \in Threads |-> "idle"]
  /\ call = [t \in Threads |-> Locals(DefaultPolicy, 0, "none")]
-----------------------------------------------------------------------------
Goto(t, from, to) == pc[t] = from /\ pc' = [pc EXCEPT ![t] = to]

\* run_with_resilience returns or raises: its locals are gone.
Return(t, o) == call' = [call EXCEPT ![t] = Locals(DefaultPolicy, 0, o)]

FailOpenOutcome(t) == IF call[t].policy.failOpen THEN "dropped" ELSE "raised"

\* run_with_resilience reads the policy; without a timeout the breaker is not
\* consulted.
Begin(t) ==
  /\ calls < MaxCalls /\ calls' = calls + 1
  /\ Goto(t, "idle", IF policy.timed THEN "check" ELSE "attempt")
  /\ call' = [call EXCEPT ![t] =
                Locals(policy, Attempts(policy, t), "none")]
  /\ UNCHANGED <<policy, breaker, pools, resets>>

\* _check_circuit_breaker: closed.
CheckClosed(t) ==
  /\ Goto(t, "check", "attempt")
  /\ ~Tripped
  /\ UNCHANGED <<policy, breaker, pools, calls, resets, call>>

\* The cooldown is over and no probe is running: half-open, one goes through.
CheckProbe(t) ==
  /\ Goto(t, "check", "attempt")
  /\ Tripped /\ ~probing
  /\ openCount <= MaxExponent
  /\ elapsed >= Cooldown(openCount)
  /\ probing' = TRUE
  /\ call' = [call EXCEPT ![t].probe = TRUE]
  /\ UNCHANGED <<policy, consecutive, elapsed, openCount, deserted, pools, calls, resets>>

\* Bug: a rejected caller restarts the cooldown.
CheckRejectRestarts(t) ==
  /\ Goto(t, "check", "idle")
  /\ Tripped
  /\ probing \/ (openCount <= MaxExponent /\ elapsed < Cooldown(openCount))
  /\ elapsed' = 0
  /\ Return(t, FailOpenOutcome(t))
  /\ UNCHANGED <<policy, consecutive, openCount, probing, deserted, pools, calls, resets>>

\* A probe is running or the cooldown is not over: None or TimeoutError.
CheckReject(t) ==
  /\ Goto(t, "check", "idle")
  /\ Tripped
  /\ probing \/ (openCount <= MaxExponent /\ elapsed < Cooldown(openCount))
  /\ Return(t, FailOpenOutcome(t))
  /\ UNCHANGED <<policy, breaker, pools, calls, resets>>

\* 30.0 * (2 ** open_count) raises once the power no longer fits a float.
CheckOverflow(t) ==
  /\ Goto(t, "check", "idle")
  /\ Tripped /\ ~probing
  /\ openCount > MaxExponent
  /\ Return(t, "OverflowError")
  /\ UNCHANGED <<policy, breaker, pools, calls, resets>>
-----------------------------------------------------------------------------
(* _run_attempt_with_timeout *)

StartInline(t) ==
  /\ Goto(t, "attempt", "inline")
  /\ RunsInline(call[t].policy, t)
  /\ UNCHANGED <<policy, breaker, pools, calls, resets, call>>

\* The operation ends on the calling thread; it may raise TimeoutError.
InlineEnds(t, o) ==
  /\ Goto(t, "inline", "record")
  /\ call' = [call EXCEPT ![t].outcome = o]
  /\ UNCHANGED <<policy, breaker, pools, calls, resets>>

\* _get_executor_semaphore: the one in use since the last shutdown.
GetSemaphore(t) ==
  /\ Goto(t, "attempt", "acquire")
  /\ ~RunsInline(call[t].policy, t)
  /\ call' = [call EXCEPT ![t].sem = resets]
  /\ UNCHANGED <<policy, breaker, pools, calls, resets>>

\* sem.acquire(blocking=False)
Acquire(t) ==
  /\ Goto(t, "acquire", "acquired")
  /\ taken[call[t].sem] < MaxPending
  /\ taken' = [taken EXCEPT ![call[t].sem] = @ + 1]
  /\ UNCHANGED <<policy, breaker, executor, ghosts, orphans, calls, resets, call>>

\* ExecutorSaturated, an ordinary failure for the retry loop.
Saturated(t) ==
  /\ Goto(t, "acquire", "record")
  /\ taken[call[t].sem] >= MaxPending
  /\ call' = [call EXCEPT ![t].outcome = "error"]
  /\ UNCHANGED <<policy, breaker, pools, calls, resets>>

\* _get_timeout_executor, which creates the executor if there is none.
GetExecutor(t) ==
  /\ Goto(t, "acquired", "submit")
  /\ IF executor = NoExecutor
     THEN \E e \in Executors :
            /\ \A u \in Threads : call[u].exec # e
            /\ executor' = e
            /\ ghosts' = [ghosts EXCEPT ![e] = 0]
            /\ orphans' = [orphans EXCEPT ![e] = 0]
     ELSE UNCHANGED <<executor, ghosts, orphans>>
  /\ call' = [call EXCEPT ![t].exec = executor']
  /\ UNCHANGED <<policy, breaker, taken, calls, resets>>

\* An executor leaves _timeout_executors in the critical section that shuts
\* it down, so the executors that were shut down are the ones not current.
IsShutdown(e) == e # executor

Submit(t) ==
  /\ Goto(t, "submit", "queued")
  /\ ~IsShutdown(call[t].exec)
  /\ UNCHANGED <<policy, breaker, pools, calls, resets, call>>

\* submit raises RuntimeError on an executor that was shut down meanwhile.
\* The call precedes the try block, so its finally does not run.
SubmitRefused(t) ==
  /\ Goto(t, "submit", "record")
  /\ IsShutdown(call[t].exec)
  /\ call' = [call EXCEPT ![t].outcome = "error"]
  /\ UNCHANGED <<policy, breaker, pools, calls, resets>>

Running(e) == {t \in Threads : pc[t] = "running" /\ call[t].exec = e}

\* A worker of the pool takes the operation off the queue.
WorkerStarts(t) ==
  /\ Goto(t, "queued", "running")
  /\ Cardinality(Running(call[t].exec)) + ghosts[call[t].exec] < Workers
  /\ UNCHANGED <<policy, breaker, pools, calls, resets, call>>

OperationReturns(t, o) ==
  /\ Goto(t, "running", "release")
  /\ call' = [call EXCEPT ![t].outcome = o]
  /\ UNCHANGED <<policy, breaker, pools, calls, resets>>

\* The operation raises TimeoutError, which is concurrent.futures.TimeoutError.
OperationTimesOut(t) ==
  /\ Goto(t, "running", "replace")
  /\ UNCHANGED <<policy, breaker, pools, calls, resets, call>>

\* Bug: the permit is given back on timeout and again in the finally block.
DeadlineReleases(t) ==
  /\ pc[t] \in {"queued", "running"}
  /\ pc' = [pc EXCEPT ![t] = "replace"]
  /\ ghosts' = IF pc[t] = "running"
               THEN [ghosts EXCEPT ![call[t].exec] = @ + 1] ELSE ghosts
  /\ taken' = [taken EXCEPT ![call[t].sem] = @ - 1]
  /\ UNCHANGED <<policy, breaker, executor, orphans, calls, resets, call>>

\* Bug: the timeout only starts when a worker takes the operation.
DeadlineWhenRunning(t) ==
  /\ Goto(t, "running", "replace")
  /\ ghosts' = [ghosts EXCEPT ![call[t].exec] = @ + 1]
  /\ UNCHANGED <<policy, breaker, taken, executor, orphans, calls, resets, call>>

\* future.result(timeout) gives up.  cancel() takes a queued operation back; a
\* running one keeps its worker.
Deadline(t) ==
  /\ pc[t] \in {"queued", "running"}
  /\ pc' = [pc EXCEPT ![t] = "replace"]
  /\ ghosts' = IF pc[t] = "running"
               THEN [ghosts EXCEPT ![call[t].exec] = @ + 1] ELSE ghosts
  /\ UNCHANGED <<policy, breaker, taken, executor, orphans, calls, resets, call>>

\* The permit is released on the way out: the interrupt arrives inside the try.
Guarded == {"queued", "running", "replace"}

\* A KeyboardInterrupt, which no handler of the call catches, at any step of it,
\* the backoff sleep included: nothing is recorded.  An operation keeps its
\* place in the queue, or its worker.
Interrupt(t) ==
  /\ t \in Interruptible
  /\ pc[t] # "idle" /\ pc' = [pc EXCEPT ![t] = "idle"]
  /\ taken' = IF pc[t] \in Guarded
              THEN [taken EXCEPT ![call[t].sem] = @ - 1] ELSE taken
  /\ orphans' = IF pc[t] = "queued"
                THEN [orphans EXCEPT ![call[t].exec] = @ + 1] ELSE orphans
  /\ ghosts' = IF pc[t] = "running"
               THEN [ghosts EXCEPT ![call[t].exec] = @ + 1] ELSE ghosts
  /\ deserted' = (deserted \/ (probing /\ call[t].probe))
  /\ Return(t, "interrupted")
  /\ UNCHANGED <<policy, consecutive, elapsed, openCount, probing, executor, calls, resets>>

\* _maybe_replace_executor drops the executor this timeout is about to trip.
MaybeReplace(t) ==
  /\ Goto(t, "replace", "release")
  /\ executor' = IF consecutive + 1 >= Threshold THEN NoExecutor ELSE executor
  /\ call' = [call EXCEPT ![t].outcome = "timeout"]
  /\ UNCHANGED <<policy, breaker, taken, ghosts, orphans, calls, resets>>

Release(t) ==
  /\ Goto(t, "release", "record")
  /\ taken' = [taken EXCEPT ![call[t].sem] = @ - 1]
  /\ UNCHANGED <<policy, breaker, executor, ghosts, orphans, calls, resets, call>>
-----------------------------------------------------------------------------
(* _record_attempt_success, _record_attempt_failure and the rest of the
   retry loop.                                                             *)

\* Bug: the half-open flag is not cleared.
AttemptSucceededHalfOpen ==
  /\ consecutive' = 0
  /\ UNCHANGED <<probing, deserted, openCount, elapsed>>

AttemptSucceeded ==
  /\ probing' = FALSE /\ deserted' = FALSE
  /\ consecutive' = 0
  /\ openCount' = IF probing /\ openCount > 0 THEN openCount - 1 ELSE openCount
  /\ UNCHANGED elapsed

\* Bug: the time of the trip is not updated.
ReopenWithoutTime ==
  /\ openCount' = openCount + 1
  /\ UNCHANGED elapsed

Reopen ==
  /\ openCount' = openCount + 1
  /\ elapsed' = 0

AttemptFailed(isTimeout) ==
  /\ probing' = FALSE /\ deserted' = FALSE
  /\ consecutive' = CASE probing   -> consecutive
                      [] ~probing /\ isTimeout  -> consecutive + 1
                      [] ~probing /\ ~isTimeout -> 0
  /\ IF probing \/ (isTimeout /\ consecutive + 1 >= Threshold)
     THEN Reopen ELSE UNCHANGED <<openCount, elapsed>>

RecordSuccess(t) ==
  /\ Goto(t, "record", "idle")
  /\ call[t].outcome = "ok"
  /\ AttemptSucceeded
  /\ Return(t, "ok")
  /\ UNCHANGED <<policy, pools, calls, resets>>

\* Attempts remain: back off and try again without asking the breaker.
RecordFailureAndRetry(t) ==
  /\ Goto(t, "record", "attempt")
  /\ call[t].outcome # "ok" /\ call[t].left > 1
  /\ AttemptFailed(call[t].outcome = "timeout")
  /\ call' = [call EXCEPT ![t] = Locals(call[t].policy, call[t].left - 1, "none")]
  /\ UNCHANGED <<policy, pools, calls, resets>>

RecordLastFailure(t) ==
  /\ Goto(t, "record", "idle")
  /\ call[t].outcome # "ok" /\ call[t].left <= 1
  /\ AttemptFailed(call[t].outcome = "timeout")
  /\ Return(t, FailOpenOutcome(t))
  /\ UNCHANGED <<policy, pools, calls, resets>>
-----------------------------------------------------------------------------
(* What happens around the calls. *)

SetExporterPolicy(p) ==
  /\ policy' = p
  /\ UNCHANGED <<breaker, pools, calls, resets, pc, call>>

\* reset_resilience_for_tests, which shutdown_telemetry calls.  tripped_at is
\* 0.0 afterwards: longer ago than any cooldown.
Reset ==
  /\ resets < MaxResets /\ resets' = resets + 1
  /\ policy' = DefaultPolicy
  /\ consecutive' = 0 /\ elapsed' = MaxCooldown /\ openCount' = 0
  /\ probing' = FALSE /\ deserted' = FALSE
  /\ executor' = NoExecutor
  /\ UNCHANGED <<taken, ghosts, orphans, calls, pc, call>>

\* An operation nobody waits for returns and frees its worker.
GhostEnds(e) ==
  /\ ghosts[e] > 0
  /\ ghosts' = [ghosts EXCEPT ![e] = @ - 1]
  /\ UNCHANGED <<policy, breaker, taken, executor, orphans, calls, resets, pc, call>>

\* A worker takes up a queued operation whose caller was interrupted.
OrphanStarts(e) ==
  /\ orphans[e] > 0 /\ Cardinality(Running(e)) + ghosts[e] < Workers
  /\ orphans' = [orphans EXCEPT ![e] = @ - 1]
  /\ ghosts' = [ghosts EXCEPT ![e] = @ + 1]
  /\ UNCHANGED <<policy, breaker, taken, executor, calls, resets, pc, call>>

Tick ==
  /\ elapsed < MaxCooldown /\ elapsed' = elapsed + 1
  /\ UNCHANGED <<policy, consecutive, openCount, probing, deserted, pools, calls, resets, pc, call>>

\* The steps a thread takes by itself, however the operation behaves.
ThreadStep(t) ==
  \/ CheckClosed(t) \/ CheckProbe(t) \/ CheckReject(t) \/ CheckOverflow(t)
  \/ StartInline(t) \/ GetSemaphore(t) \/ Acquire(t) \/ Saturated(t)
  \/ GetExecutor(t) \/ Submit(t) \/ SubmitRefused(t)
  \/ Deadline(t) \/ MaybeReplace(t) \/ Release(t)
  \/ RecordSuccess(t) \/ RecordFailureAndRetry(t) \/ RecordLastFailure(t)

\* What the operation, its pool and the user do.
Around(t) ==
  \/ Begin(t) \/ WorkerStarts(t) \/ OperationTimesOut(t) \/ Interrupt(t)
  \/ \E o \in {"ok", "timeout", "error"} : InlineEnds(t, o)
  \/ \E o \in {"ok", "error"} : OperationReturns(t, o)

Next ==
  \/ \E t \in Threads : ThreadStep(t) \/ Around(t)
  \/ \E p \in Policies : SetExporterPolicy(p)
  \/ Reset
  \/ \E e \in Executors : GhostEnds(e) \/ OrphanStarts(e)
  \/ Tick

Spec == Init /\ [][Next]_vars

\* A thread keeps running and future.result returns at its deadline; nothing
\* is assumed of the operation, of the pool or of time.
FairSpec == Spec /\ \A t \in Threads : WF_vars(ThreadStep(t))
-----------------------------------------------------------------------------
\* A thread with a submission looked an executor up.
RefsOK ==
  \A t \in Threads : pc[t] \in Holding \ {"acquired"} => call[t].exec # NoExecutor

TypeOK ==
  /\ policy \in Policies
  /\ consecutive \in Nat /\ openCount \in Nat
  /\ probing \in BOOLEAN /\ deserted \in BOOLEAN
  /\ elapsed \in 0..MaxCooldown
  /\ taken \in [0..MaxResets -> 0..MaxPending]
  /\ executor \in Executors \cup {NoExecutor} /\ ghosts \in [Executors -> Nat]
  /\ orphans \in [Executors -> Nat]
  /\ calls \in 0..MaxCalls /\ resets \in 0..MaxResets
  /\ pc \in [Threads -> Steps]
  /\ call \in [Threads -> Calls]
  /\ RefsOK
\* Threads holding a permit of semaphore s, that is with a submission pending.
Holders(s) == {t \in Threads : pc[t] \in Holding /\ call[t].sem = s}

(* The semaphore bounds what is pending: a pending submission always has a
   permit of its own, however calls, timeouts, executor replacement and
   shutdown interleave.  So at most _EXECUTOR_MAX_PENDING submissions of one
   semaphore are pending, and BoundedSemaphore.release never raises.       *)
PermitAccounting ==
  \A s \in 0..MaxResets : Cardinality(Holders(s)) <= taken[s]

(* _half_open_probing and the two counters agree: the flag is only set while
   the breaker is tripped, and a tripped breaker has been counted, so its
   cooldown has been doubled at least once.                                *)
BreakerCoherent ==
  /\ probing => Tripped
  /\ Tripped => openCount >= 1

(* Whenever _open_count grows, whoever's attempt it is, the circuit is open
   and a full cooldown starts.                                             *)
GrowthReopens ==
  [][openCount' > openCount => elapsed' = 0 /\ consecutive' >= Threshold]_vars

(* An open circuit keeps its cooldown: unless an attempt is recorded or
   telemetry is shut down, time alone moves it, and only forward.          *)
CooldownKept ==
  [][(\A t \in Threads : pc[t] # "record" \/ pc'[t] = "record")
       /\ resets' = resets
     => /\ elapsed' >= elapsed
        /\ openCount' = openCount /\ consecutive' = consecutive]_vars

(* Callers are rejected in the name of a half-open probe only while the call
   let through as a probe is still going to record an attempt, which clears
   _half_open_probing; the one exception is a probe a KeyboardInterrupt took
   out of the retry loop, which catches Exception only.                    *)
ProbeInProgress ==
  probing /\ ~deserted => \E t \in Threads : pc[t] \in Attempting /\ call[t].probe

(* A call whose attempts run on the timeout executor returns, even if every
   operation hangs and the pool has no free worker.                        *)
TimedCallsReturn ==
  \A t \in Threads :
    (pc[t] \in Attempting /\ ~RunsInline(call[t].policy, t)) ~> pc[t] = "idle"

(* The breaker leaves half-open once a caller has an attempt in progress that
   runs on the timeout executor and that no KeyboardInterrupt can reach, even
   if every operation hangs.  A probe that runs inline, on an event loop, has
   no timeout, and an interrupted one records nothing: either can leave the
   signal half-open for good.                                              *)
HalfOpenEnds ==
  \A t \in Threads \ Interruptible :
    (probing /\ pc[t] \in Attempting /\ ~RunsInline(call[t].policy, t)) ~> ~probing

(* Permits are those of the pending submissions: none is lost.             *)
PermitsMatchPending ==
  \A s \in 0..MaxResets : taken[s] = Cardinality(Holders(s))

=============================================================================
