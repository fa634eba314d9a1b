-------------------------- MODULE ResilienceProofs --------------------------
(* Proofs about Resilience, for every number of threads, every set of
   policies and every value of the bounds.                                 *)
EXTENDS Resilience, FiniteSetTheorems, TLAPS

IInv == TypeOK /\ PermitAccounting /\ BreakerCoherent

(* What the bounds are, apart from the rest of the assumption.               *)
LEMMA Bounds ==
  /\ Threshold \in Nat \ {0} /\ MaxCooldown \in Nat \ {0} /\ MaxPending \in Nat \ {0}
  /\ MaxAttempts \in Nat \ {0} /\ MaxCalls \in Nat /\ MaxResets \in Nat
  /\ DefaultPolicy \in Policies /\ NoExecutor \notin Executors
BY ResilienceAssumption

(* The number of attempts of a call lies between one and the maximum.       *)
LEMMA AttemptsType ==
  ASSUME NEW p \in Policies, NEW t \in Threads
  PROVE  Attempts(p, t) \in 1..MaxAttempts
BY ResilienceAssumption DEF Attempts, Minimum

(* What Begin, a retry and a return leave in a thread's locals is a call.    *)
LEMMA LocalsType ==
  ASSUME NEW p \in Policies, NEW n \in 0..MaxAttempts, NEW o \in Outcomes
  PROVE  Locals(p, n, o) \in Calls
BY Bounds DEF Locals, Calls

(* The holders of a semaphore are finitely many threads.                    *)
LEMMA HoldersFinite ==
  ASSUME NEW s
  PROVE  /\ IsFiniteSet(Holders(s)) /\ Cardinality(Holders(s)) \in Nat
         /\ \A t \in Holders(s) : Cardinality(Holders(s)) >= 1
<1>1. Holders(s) \subseteq Threads
  BY DEF Holders
<1>2. IsFiniteSet(Holders(s))
  BY <1>1, ResilienceAssumption, FS_Subset
<1>3. Cardinality(Holders(s)) \in Nat
  BY <1>2, FS_CardinalityType
<1>4. ASSUME NEW t \in Holders(s) PROVE Cardinality(Holders(s)) >= 1
  BY <1>2, <1>3, FS_EmptySet
<1> QED
  BY <1>2, <1>3, <1>4

LEMMA InitInv == Init => IInv
<1> SUFFICES ASSUME Init PROVE IInv
  OBVIOUS
<1> USE Bounds DEF Init
<1>1. TypeOK
  <2>1. Locals(DefaultPolicy, 0, "none") \in Calls
    BY LocalsType DEF Outcomes
  <2>2. RefsOK
    BY DEF RefsOK, Holding
  <2>3. pc \in [Threads -> Steps] /\ call \in [Threads -> Calls]
    BY <2>1 DEF Steps
  <2>4. /\ taken \in [0..MaxResets -> 0..MaxPending]
        /\ ghosts \in [Executors -> Nat] /\ orphans \in [Executors -> Nat]
        /\ calls \in 0..MaxCalls /\ resets \in 0..MaxResets
    OBVIOUS
  <2>5. /\ executor \in Executors \cup {NoExecutor} /\ policy \in Policies
        /\ elapsed \in 0..MaxCooldown /\ consecutive \in Nat /\ openCount \in Nat
    OBVIOUS
  <2>6. probing \in BOOLEAN /\ deserted \in BOOLEAN
    OBVIOUS
  <2> QED
    BY <2>2, <2>3, <2>4, <2>5, <2>6 DEF TypeOK
<1>2. PermitAccounting
  <2>1. \A s : Holders(s) = {}
    BY DEF Holders, Holding
  <2>2. \A s \in 0..MaxResets : taken[s] = 0
    OBVIOUS
  <2>3. \A s : Cardinality(Holders(s)) = 0
    BY <2>1, FS_EmptySet
  <2> QED
    BY <2>2, <2>3 DEF PermitAccounting
<1>3. BreakerCoherent
  BY DEF BreakerCoherent, Tripped
<1> QED
  BY <1>1, <1>2, <1>3 DEF IInv

(* Recording an attempt keeps the breaker's types.                           *)
LEMMA BreakerTypes ==
  ASSUME TypeOK, AttemptSucceeded \/ AttemptFailed(TRUE) \/ AttemptFailed(FALSE)
  PROVE  /\ consecutive' \in Nat /\ openCount' \in Nat
         /\ probing' \in BOOLEAN /\ deserted' \in BOOLEAN
         /\ elapsed' \in 0..MaxCooldown
<1> USE Bounds
<1>1. consecutive \in Nat /\ openCount \in Nat /\ elapsed \in 0..MaxCooldown
  BY DEF TypeOK
<1>2. probing' \in BOOLEAN /\ deserted' \in BOOLEAN
  BY DEF AttemptSucceeded, AttemptFailed
<1>3. CASE AttemptSucceeded
  BY <1>1, <1>2, <1>3 DEF AttemptSucceeded
<1>4. ASSUME NEW b \in BOOLEAN, AttemptFailed(b)
      PROVE  consecutive' \in Nat /\ openCount' \in Nat /\ elapsed' \in 0..MaxCooldown
  <2>1. probing \in BOOLEAN
    BY DEF TypeOK
  <2>2. consecutive' \in {consecutive, consecutive + 1, 0}
    BY <1>4, <2>1 DEF AttemptFailed
  <2>3. \/ openCount' = openCount + 1 /\ elapsed' = 0
        \/ openCount' = openCount /\ elapsed' = elapsed
    BY <1>4, <2>1 DEF AttemptFailed, Reopen
  <2> QED
    BY <1>1, <2>2, <2>3
<1> QED
  BY <1>2, <1>3, <1>4

(* A step of one thread that leaves proper locals leaves proper state.       *)
LEMMA ThreadTypes ==
  ASSUME TypeOK, NEW t \in Threads, NEW step \in Steps, NEW c \in Calls,
         pc' = [pc EXCEPT ![t] = step], call' = [call EXCEPT ![t] = c],
         step \in Holding \ {"acquired"} => c.exec # NoExecutor
  PROVE  /\ pc' \in [Threads -> Steps] /\ call' \in [Threads -> Calls]
         /\ RefsOK'
BY DEF TypeOK, RefsOK

(* Every action preserves the types.  Giving a permit back stays above zero
   because the thread that gives it back is one of the holders.             *)
LEMMA TypeStep ==
  ASSUME IInv, [Next]_vars
  PROVE  TypeOK'
<1> USE Bounds
<1> TypeOK /\ PermitAccounting
  BY DEF IInv
<1>1. ASSUME NEW t \in Threads, Begin(t) PROVE TypeOK'
  <2>1. Locals(policy, Attempts(policy, t), "none") \in Calls
    BY AttemptsType, LocalsType DEF Outcomes, TypeOK
  <2> QED
    BY <1>1, <2>1 DEF Begin, Goto, TypeOK, RefsOK, breaker, pools, Steps, Attempting, Holding
<1>2. ASSUME NEW t \in Threads,
             \/ CheckClosed(t) \/ StartInline(t) \/ Submit(t) \/ WorkerStarts(t)
             \/ OperationTimesOut(t)
      PROVE  TypeOK'
  BY <1>2 DEF CheckClosed, StartInline, Submit, WorkerStarts, OperationTimesOut,
              Goto, TypeOK, RefsOK, breaker, pools, Steps, Attempting, Holding
<1>3. ASSUME NEW t \in Threads, CheckProbe(t) PROVE TypeOK'
  BY <1>3 DEF CheckProbe, Goto, TypeOK, RefsOK, Calls, breaker, pools,
              Steps, Attempting, Holding
<1>4. ASSUME NEW t \in Threads, CheckReject(t) \/ CheckOverflow(t) PROVE TypeOK'
  <2>1. PICK o \in Outcomes : call' = [call EXCEPT ![t] = Locals(DefaultPolicy, 0, o)]
    BY <1>4 DEF CheckReject, CheckOverflow, Return, FailOpenOutcome, Outcomes
  <2>2. Locals(DefaultPolicy, 0, o) \in Calls
    BY LocalsType
  <2>3. pc' = [pc EXCEPT ![t] = "idle"] /\ UNCHANGED <<policy, breaker, pools, calls, resets>>
    BY <1>4 DEF CheckReject, CheckOverflow, Goto
  <2>4. pc' \in [Threads -> Steps] /\ call' \in [Threads -> Calls] /\ RefsOK'
    BY <2>1, <2>2, <2>3, ThreadTypes DEF Steps, Holding
  <2> QED
    BY <2>3, <2>4 DEF TypeOK, breaker, pools
<1>5. ASSUME NEW t \in Threads, NEW o \in {"ok", "timeout", "error"},
             InlineEnds(t, o) \/ OperationReturns(t, o) \/ Saturated(t) \/ SubmitRefused(t)
      PROVE  TypeOK'
  <2>1. PICK u \in Outcomes : call' = [call EXCEPT ![t].outcome = u]
    BY <1>5 DEF InlineEnds, OperationReturns, Saturated, SubmitRefused, Outcomes
  <2>2. /\ call' \in [Threads -> Calls]
        /\ \A x \in Threads : call'[x].sem = call[x].sem /\ call'[x].exec = call[x].exec
    BY <2>1 DEF TypeOK, Calls
  <2> QED
    BY <1>5, <2>2 DEF InlineEnds, OperationReturns, Saturated, SubmitRefused,
         Goto, TypeOK, RefsOK, breaker, pools, Steps, Attempting, Holding
<1>6. ASSUME NEW t \in Threads, GetSemaphore(t) PROVE TypeOK'
  BY <1>6 DEF GetSemaphore, Goto, TypeOK, RefsOK, Calls, breaker, pools,
              Steps, Attempting, Holding
<1>7. ASSUME NEW t \in Threads, Acquire(t) PROVE TypeOK'
  <2>1. taken' \in [0..MaxResets -> 0..MaxPending]
    BY <1>7 DEF Acquire, TypeOK, Calls
  <2> QED
    BY <1>7, <2>1 DEF Acquire, Goto, TypeOK, RefsOK, breaker, Steps, Attempting, Holding
<1>8. ASSUME NEW t \in Threads, GetExecutor(t) PROVE TypeOK'
  <2>1. /\ executor' \in Executors
        /\ ghosts' \in [Executors -> Nat] /\ orphans' \in [Executors -> Nat]
    <3>1. /\ executor \in Executors \cup {NoExecutor}
          /\ ghosts \in [Executors -> Nat] /\ orphans \in [Executors -> Nat]
      BY DEF TypeOK
    <3>2. CASE executor = NoExecutor
      BY <1>8, <3>1, <3>2 DEF GetExecutor
    <3>3. CASE executor # NoExecutor
      BY <1>8, <3>1, <3>3 DEF GetExecutor
    <3> QED
      BY <3>2, <3>3
  <2>2. /\ [call[t] EXCEPT !.exec = executor'] \in Calls
        /\ [call[t] EXCEPT !.exec = executor'].exec # NoExecutor
    BY <2>1 DEF TypeOK, Calls
  <2>3. /\ pc' = [pc EXCEPT ![t] = "submit"]
        /\ call' = [call EXCEPT ![t] = [call[t] EXCEPT !.exec = executor']]
        /\ UNCHANGED <<policy, breaker, taken, calls, resets>>
    BY <1>8 DEF GetExecutor, Goto
  <2>4. pc' \in [Threads -> Steps] /\ call' \in [Threads -> Calls] /\ RefsOK'
    BY <2>2, <2>3, ThreadTypes DEF Steps, Attempting, Holding
  <2> QED
    BY <2>1, <2>3, <2>4 DEF TypeOK, breaker
<1>9. ASSUME NEW t \in Threads, Deadline(t) PROVE TypeOK'
  <2>1. call[t].exec \in Executors
    BY <1>9 DEF Deadline, TypeOK, RefsOK, Holding, Calls
  <2>2. ghosts' \in [Executors -> Nat]
    BY <1>9, <2>1 DEF Deadline, TypeOK
  <2>3. pc' \in [Threads -> Steps] /\ RefsOK'
    BY <1>9 DEF Deadline, TypeOK, RefsOK, Steps, Attempting, Holding
  <2> QED
    BY <1>9, <2>2, <2>3 DEF Deadline, TypeOK, breaker
<1>10. ASSUME NEW t \in Threads, pc[t] \in Holding
       PROVE  taken[call[t].sem] \in 1..MaxPending
  <2>1. call[t].sem \in 0..MaxResets
    BY DEF TypeOK, Calls
  <2>2. t \in Holders(call[t].sem)
    BY <1>10 DEF Holders
  <2>3. Cardinality(Holders(call[t].sem)) \in Nat /\ Cardinality(Holders(call[t].sem)) >= 1
    BY <2>2, HoldersFinite
  <2>4. Cardinality(Holders(call[t].sem)) <= taken[call[t].sem]
    BY <2>1 DEF PermitAccounting
  <2> QED
    BY <2>1, <2>3, <2>4 DEF TypeOK
<1>11. ASSUME NEW t \in Threads, Interrupt(t) PROVE TypeOK'
  <2>1. Locals(DefaultPolicy, 0, "interrupted") \in Calls
    BY LocalsType DEF Outcomes
  <2>2. taken' \in [0..MaxResets -> 0..MaxPending]
    <3>1. taken \in [0..MaxResets -> 0..MaxPending]
      BY DEF TypeOK
    <3>2. CASE pc[t] \in Guarded
      <4>1. taken' = [taken EXCEPT ![call[t].sem] = taken[call[t].sem] - 1]
        BY <1>11, <3>2 DEF Interrupt
      <4>2. taken[call[t].sem] - 1 \in 0..MaxPending
        <5>1. taken[call[t].sem] \in 1..MaxPending
          BY <3>2, <1>10 DEF Guarded, Holding
        <5> QED
          BY <5>1
      <4> QED
        BY <3>1, <4>1, <4>2
    <3>3. CASE pc[t] \notin Guarded
      BY <1>11, <3>1, <3>3 DEF Interrupt
    <3> QED
      BY <3>2, <3>3
  <2>3. ghosts' \in [Executors -> Nat] /\ orphans' \in [Executors -> Nat]
    <3>1. ghosts \in [Executors -> Nat] /\ orphans \in [Executors -> Nat]
      BY DEF TypeOK
    <3>2. ghosts' = ghosts \/ ghosts' = [ghosts EXCEPT ![call[t].exec] = @ + 1]
      BY <1>11 DEF Interrupt
    <3>3. orphans' = orphans \/ orphans' = [orphans EXCEPT ![call[t].exec] = @ + 1]
      BY <1>11 DEF Interrupt
    <3> QED
      BY <3>1, <3>2, <3>3
  <2>4. pc' \in [Threads -> Steps] /\ call' \in [Threads -> Calls] /\ RefsOK'
    BY <1>11, <2>1, ThreadTypes DEF Interrupt, Return, Steps, Holding
  <2>5. deserted' \in BOOLEAN
    BY <1>11 DEF Interrupt
  <2> QED
    BY <1>11, <2>2, <2>3, <2>4, <2>5 DEF Interrupt, TypeOK
<1>12. ASSUME NEW t \in Threads, MaybeReplace(t) PROVE TypeOK'
  <2>1. pc[t] = "replace" /\ call[t].exec # NoExecutor
    BY <1>12 DEF MaybeReplace, Goto, TypeOK, RefsOK, Holding
  <2>2. /\ [call[t] EXCEPT !.outcome = "timeout"] \in Calls
        /\ [call[t] EXCEPT !.outcome = "timeout"].exec # NoExecutor
    BY <2>1 DEF TypeOK, Calls, Outcomes
  <2>3. /\ pc' = [pc EXCEPT ![t] = "release"]
        /\ call' = [call EXCEPT ![t] = [call[t] EXCEPT !.outcome = "timeout"]]
    BY <1>12 DEF MaybeReplace, Goto
  <2>4. pc' \in [Threads -> Steps] /\ call' \in [Threads -> Calls] /\ RefsOK'
    BY <2>2, <2>3, ThreadTypes DEF Steps, Attempting, Holding
  <2> QED
    BY <1>12, <2>4 DEF MaybeReplace, TypeOK, breaker
<1>13. ASSUME NEW t \in Threads, Release(t) PROVE TypeOK'
  <2>1. taken[call[t].sem] \in 1..MaxPending
    BY <1>13, <1>10 DEF Release, Goto, Holding
  <2>2. taken' \in [0..MaxResets -> 0..MaxPending]
    <3>1. taken \in [0..MaxResets -> 0..MaxPending]
      BY DEF TypeOK
    <3>2. taken' = [taken EXCEPT ![call[t].sem] = taken[call[t].sem] - 1]
      BY <1>13 DEF Release
    <3>3. taken[call[t].sem] - 1 \in 0..MaxPending
      BY <2>1
    <3> QED
      BY <3>1, <3>2, <3>3
  <2> QED
    BY <1>13, <2>2 DEF Release, Goto, TypeOK, RefsOK, breaker,
         Steps, Attempting, Holding
<1>14. ASSUME NEW t \in Threads,
              RecordSuccess(t) \/ RecordFailureAndRetry(t) \/ RecordLastFailure(t)
       PROVE  TypeOK'
  <2>1. PICK p \in Policies, n \in 0..MaxAttempts, o \in Outcomes :
          call' = [call EXCEPT ![t] = Locals(p, n, o)]
    BY <1>14 DEF RecordSuccess, RecordFailureAndRetry, RecordLastFailure,
         Return, FailOpenOutcome, Outcomes, TypeOK, Calls
  <2>2. Locals(p, n, o) \in Calls
    BY LocalsType
  <2>3. AttemptSucceeded \/ AttemptFailed(TRUE) \/ AttemptFailed(FALSE)
    BY <1>14 DEF RecordSuccess, RecordFailureAndRetry, RecordLastFailure
  <2>4. /\ consecutive' \in Nat /\ openCount' \in Nat
        /\ probing' \in BOOLEAN /\ deserted' \in BOOLEAN
        /\ elapsed' \in 0..MaxCooldown
    BY <2>3, BreakerTypes
  <2>5. /\ \E step \in {"idle", "attempt"} : pc' = [pc EXCEPT ![t] = step]
        /\ UNCHANGED <<policy, pools, calls, resets>>
    BY <1>14 DEF RecordSuccess, RecordFailureAndRetry, RecordLastFailure, Goto
  <2>6. pc' \in [Threads -> Steps] /\ call' \in [Threads -> Calls] /\ RefsOK'
    BY <2>1, <2>2, <2>5, ThreadTypes DEF Steps, Attempting, Holding
  <2> QED
    BY <2>4, <2>5, <2>6 DEF TypeOK, pools
<1>15. ASSUME NEW p \in Policies, SetExporterPolicy(p) PROVE TypeOK'
  BY <1>15 DEF SetExporterPolicy, TypeOK, RefsOK, breaker, pools
<1>16. ASSUME Reset PROVE TypeOK'
  <2>1. elapsed' \in 0..MaxCooldown /\ resets' \in 0..MaxResets
    BY <1>16 DEF Reset, TypeOK
  <2> QED
    BY <1>16, <2>1 DEF Reset, TypeOK, RefsOK
<1>17. ASSUME NEW e \in Executors, GhostEnds(e) PROVE TypeOK'
  <2>1. ghosts' \in [Executors -> Nat]
    BY <1>17 DEF GhostEnds, TypeOK
  <2> QED
    BY <1>17, <2>1 DEF GhostEnds, TypeOK, RefsOK, breaker
<1>20. ASSUME NEW e \in Executors, OrphanStarts(e) PROVE TypeOK'
  <2>1. ghosts' \in [Executors -> Nat] /\ orphans' \in [Executors -> Nat]
    BY <1>20 DEF OrphanStarts, TypeOK
  <2> QED
    BY <1>20, <2>1 DEF OrphanStarts, TypeOK, RefsOK, breaker
<1>18. ASSUME Tick PROVE TypeOK'
  BY <1>18 DEF Tick, TypeOK, RefsOK, pools
<1>19. ASSUME UNCHANGED vars PROVE TypeOK'
  BY <1>19 DEF vars, TypeOK, RefsOK, breaker, pools
<1> QED
  BY <1>1, <1>2, <1>3, <1>4, <1>5, <1>6, <1>7, <1>8, <1>9, <1>11, <1>12, <1>13,
     <1>14, <1>15, <1>16, <1>17, <1>18, <1>19, <1>20 DEF Next, ThreadStep, Around

(* No new holder and no permit given back: the accounting stands.            *)
LEMMA NoNewHolder ==
  ASSUME TypeOK, PermitAccounting, taken' = taken,
         \A s \in 0..MaxResets : Holders(s)' \subseteq Holders(s)
  PROVE  PermitAccounting'
<1> SUFFICES ASSUME NEW s \in 0..MaxResets
             PROVE  Cardinality(Holders(s)') <= taken[s]
  BY DEF PermitAccounting
<1>1. Holders(s)' \subseteq Holders(s) /\ IsFiniteSet(Holders(s))
  BY HoldersFinite
<1>2. /\ Cardinality(Holders(s)') <= Cardinality(Holders(s))
      /\ Cardinality(Holders(s)') \in Nat /\ Cardinality(Holders(s)) \in Nat
  BY <1>1, FS_Subset, FS_CardinalityType
<1>3. Cardinality(Holders(s)) <= taken[s] /\ taken[s] \in Nat
  BY DEF PermitAccounting, TypeOK
<1> QED
  BY <1>2, <1>3

(* The thread that takes a permit becomes a holder.                          *)
LEMMA AcquireAccounting ==
  ASSUME TypeOK, PermitAccounting, NEW t \in Threads, Acquire(t)
  PROVE  PermitAccounting'
<1> USE Bounds
<1>0. PICK m \in 0..MaxResets : m = call[t].sem
  BY DEF TypeOK, Calls
<1>1. taken \in [0..MaxResets -> 0..MaxPending]
  BY DEF TypeOK
<1>2. Holders(m)' = Holders(m) \cup {t} /\ t \notin Holders(m)
  BY <1>0 DEF Acquire, Goto, Holders, Holding, TypeOK
<1>3. \A s : s # m => Holders(s)' = Holders(s)
  BY <1>0 DEF Acquire, Goto, Holders, Holding, TypeOK
<1>4. Cardinality(Holders(m)') = Cardinality(Holders(m)) + 1
  BY <1>2, HoldersFinite, FS_AddElement
<1>5. taken' = [taken EXCEPT ![m] = taken[m] + 1]
  BY <1>0 DEF Acquire
<1>6. Cardinality(Holders(m)) \in Nat
  BY HoldersFinite
<1> SUFFICES ASSUME NEW s \in 0..MaxResets
             PROVE  Cardinality(Holders(s)') <= taken'[s]
  BY DEF PermitAccounting
<1>7. /\ Cardinality(Holders(s)) <= taken[s] /\ taken[s] \in Nat
      /\ Cardinality(Holders(s)) \in Nat
  BY HoldersFinite DEF PermitAccounting, TypeOK
<1>8. CASE s = m
  <2>1. taken'[s] = taken[s] + 1
    BY <1>1, <1>5, <1>8
  <2> QED
    BY <1>4, <1>7, <1>8, <2>1
<1>9. CASE s # m
  BY <1>1, <1>3, <1>5, <1>7, <1>9
<1> QED
  BY <1>8, <1>9

(* The thread that gives a permit back is a holder no more.                  *)
LEMMA ReleaseAccounting ==
  ASSUME TypeOK, PermitAccounting, NEW t \in Threads,
         Release(t) \/ (Interrupt(t) /\ pc[t] \in Guarded)
  PROVE  PermitAccounting'
<1> USE Bounds
<1>0. PICK m \in 0..MaxResets : m = call[t].sem
  BY DEF TypeOK, Calls
<1>1. taken \in [0..MaxResets -> 0..MaxPending]
  BY DEF TypeOK
<1>2. Holders(m)' = Holders(m) \ {t} /\ t \in Holders(m)
  <2>1. /\ pc[t] \in Holding /\ pc' \in [Threads -> Steps] /\ pc'[t] \notin Holding
        /\ \A x \in Threads \ {t} : pc'[x] = pc[x] /\ call'[x] = call[x]
    BY DEF Release, Interrupt, Guarded, Return, Goto, Holding, TypeOK, Steps, Attempting
  <2> QED
    BY <1>0, <2>1 DEF Holders
<1>3. \A s : s # m => Holders(s)' = Holders(s)
  BY <1>0 DEF Release, Interrupt, Return, Goto, Holders, Holding, TypeOK
<1>4. Cardinality(Holders(m)') = Cardinality(Holders(m)) - 1
  <2>1. IsFiniteSet(Holders(m))
    BY HoldersFinite
  <2> QED
    BY <1>2, <2>1, FS_RemoveElement
<1>5. taken' = [taken EXCEPT ![m] = taken[m] - 1]
  BY <1>0 DEF Release, Interrupt
<1>6. Cardinality(Holders(m)) \in Nat
  BY HoldersFinite
<1> SUFFICES ASSUME NEW s \in 0..MaxResets
             PROVE  Cardinality(Holders(s)') <= taken'[s]
  BY DEF PermitAccounting
<1>7. /\ Cardinality(Holders(s)) <= taken[s] /\ taken[s] \in Nat
      /\ Cardinality(Holders(s)) \in Nat
  BY HoldersFinite DEF PermitAccounting, TypeOK
<1>8. CASE s = m
  <2>1. taken'[s] = taken[s] - 1
    BY <1>1, <1>5, <1>8
  <2> QED
    BY <1>4, <1>7, <1>8, <2>1
<1>9. CASE s # m
  BY <1>1, <1>3, <1>5, <1>7, <1>9
<1> QED
  BY <1>8, <1>9

LEMMA PermitStep ==
  ASSUME IInv, [Next]_vars
  PROVE  PermitAccounting'
<1> TypeOK /\ PermitAccounting
  BY DEF IInv
<1> SUFFICES ASSUME \A t \in Threads : ~Acquire(t) /\ ~Release(t),
                    \A t \in Threads : ~(Interrupt(t) /\ pc[t] \in Guarded)
             PROVE  taken' = taken /\ \A s \in 0..MaxResets : Holders(s)' \subseteq Holders(s)
  BY AcquireAccounting, ReleaseAccounting, NoNewHolder
<1> USE DEF Holders, Holding, Goto, TypeOK, pools
<1>1. ASSUME NEW t \in Threads,
             \/ Begin(t) \/ CheckReject(t) \/ CheckOverflow(t)
             \/ RecordSuccess(t) \/ RecordFailureAndRetry(t) \/ RecordLastFailure(t)
      PROVE  /\ taken' = taken
             /\ \A s \in 0..MaxResets : Holders(s)' \subseteq Holders(s)
  BY <1>1 DEF Begin, CheckReject, CheckOverflow, RecordSuccess, RecordFailureAndRetry,
              RecordLastFailure, Return
<1>2. ASSUME NEW t \in Threads,
             \/ CheckClosed(t) \/ StartInline(t) \/ Submit(t) \/ WorkerStarts(t)
             \/ OperationTimesOut(t) \/ Deadline(t)
      PROVE  /\ taken' = taken
             /\ \A s \in 0..MaxResets : Holders(s)' \subseteq Holders(s)
  BY <1>2 DEF CheckClosed, StartInline, Submit, WorkerStarts, OperationTimesOut, Deadline
<1>3. ASSUME NEW t \in Threads, NEW o \in {"ok", "timeout", "error"},
             \/ InlineEnds(t, o) \/ OperationReturns(t, o) \/ Saturated(t)
             \/ SubmitRefused(t) \/ MaybeReplace(t)
      PROVE  /\ taken' = taken
             /\ \A s \in 0..MaxResets : Holders(s)' \subseteq Holders(s)
  BY <1>3 DEF InlineEnds, OperationReturns, Saturated, SubmitRefused, MaybeReplace, Calls
<1>4. ASSUME NEW t \in Threads, CheckProbe(t) \/ GetSemaphore(t) \/ GetExecutor(t)
      PROVE  /\ taken' = taken
             /\ \A s \in 0..MaxResets : Holders(s)' \subseteq Holders(s)
  <2>1. CASE CheckProbe(t)
    BY <2>1 DEF CheckProbe
  <2>2. CASE GetSemaphore(t)
    BY <2>2 DEF GetSemaphore
  <2>3. CASE GetExecutor(t)
    <3>1. pc[t] = "acquired" /\ call' = [call EXCEPT ![t].exec = executor'] /\ taken' = taken
      BY <2>3 DEF GetExecutor
    <3>2. \A x \in Threads : call'[x].sem = call[x].sem
      BY <3>1 DEF Calls
    <3> QED
      BY <2>3, <3>1, <3>2 DEF GetExecutor
  <2> QED
    BY <1>4, <2>1, <2>2, <2>3
<1>5. ASSUME \/ \E p \in Policies : SetExporterPolicy(p)
             \/ Reset \/ Tick
             \/ \E e \in Executors : GhostEnds(e) \/ OrphanStarts(e)
             \/ UNCHANGED vars
      PROVE  /\ taken' = taken
             /\ \A s \in 0..MaxResets : Holders(s)' \subseteq Holders(s)
  BY <1>5 DEF SetExporterPolicy, Reset, Tick, GhostEnds, OrphanStarts, vars
\* Outside the try the permit stays taken: it is lost, not given back twice.
<1>6. ASSUME NEW t \in Threads, Interrupt(t), pc[t] \notin Guarded
      PROVE  /\ taken' = taken
             /\ \A s \in 0..MaxResets : Holders(s)' \subseteq Holders(s)
  <2>1. pc' = [pc EXCEPT ![t] = "idle"] /\ taken' = taken
    BY <1>6 DEF Interrupt
  <2>2. \A x \in Threads : pc'[x] \in Holding => pc[x] \in Holding /\ call'[x] = call[x]
    BY <1>6, <2>1 DEF Interrupt, Return
  <2> QED
    BY <2>1, <2>2
<1>7. ASSUME NEW t \in Threads, ThreadStep(t)
      PROVE  /\ taken' = taken
             /\ \A s \in 0..MaxResets : Holders(s)' \subseteq Holders(s)
  <2> HIDE DEF Holders, Holding, Goto, TypeOK, pools
  <2>1. ~Acquire(t) /\ ~Release(t)
    OBVIOUS
  <2>2. "ok" \in {"ok", "timeout", "error"}
    OBVIOUS
  <2> QED
    BY <1>1, <1>2, <1>3, <1>4, <1>7, <2>1, <2>2 DEF ThreadStep
<1>8. ASSUME NEW t \in Threads, Around(t)
      PROVE  /\ taken' = taken
             /\ \A s \in 0..MaxResets : Holders(s)' \subseteq Holders(s)
  <2>1. ~(Interrupt(t) /\ pc[t] \in Guarded)
    OBVIOUS
  <2> HIDE DEF Holders, Holding, Goto, TypeOK, pools
  <2>2. CASE Begin(t) \/ WorkerStarts(t) \/ OperationTimesOut(t)
    BY <1>1, <1>2, <2>2
  <2>3. CASE Interrupt(t)
    BY <1>6, <2>1, <2>3
  <2>4. CASE \/ \E o \in {"ok", "timeout", "error"} : InlineEnds(t, o)
             \/ \E o \in {"ok", "error"} : OperationReturns(t, o)
    BY <1>3, <2>4
  <2> QED
    BY <1>8, <2>2, <2>3, <2>4 DEF Around
<1> QED
  BY <1>5, <1>7, <1>8 DEF Next

(* Recording an attempt keeps the flag and the counters in agreement.        *)
LEMMA RecordCoherent ==
  ASSUME TypeOK, BreakerCoherent,
         AttemptSucceeded \/ AttemptFailed(TRUE) \/ AttemptFailed(FALSE)
  PROVE  /\ BreakerCoherent'
         /\ openCount' > openCount => elapsed' = 0 /\ consecutive' >= Threshold
<1> USE Bounds
<1>1. /\ consecutive \in Nat /\ openCount \in Nat
      /\ probing => consecutive >= Threshold
      /\ consecutive >= Threshold => openCount >= 1
  BY DEF TypeOK, BreakerCoherent, Tripped
<1>2. ~probing'
  BY DEF AttemptSucceeded, AttemptFailed
<1>3. CASE AttemptSucceeded
  BY <1>1, <1>2, <1>3 DEF AttemptSucceeded, BreakerCoherent, Tripped
<1>4. ASSUME NEW b \in BOOLEAN, AttemptFailed(b)
      PROVE  /\ consecutive' >= Threshold => openCount' >= 1
             /\ openCount' > openCount => elapsed' = 0 /\ consecutive' >= Threshold
  <2>1. CASE probing
    <3>1. consecutive' = consecutive /\ openCount' = openCount + 1 /\ elapsed' = 0
      BY <1>4, <2>1 DEF AttemptFailed, Reopen
    <3> QED
      BY <1>1, <2>1, <3>1
  <2>2. CASE ~probing /\ b
    <3>1. /\ consecutive' = consecutive + 1
          /\ consecutive + 1 >= Threshold => openCount' = openCount + 1 /\ elapsed' = 0
          /\ ~(consecutive + 1 >= Threshold) => openCount' = openCount
      BY <1>4, <2>2 DEF AttemptFailed, Reopen
    <3> QED
      BY <1>1, <3>1
  <2>3. CASE ~probing /\ ~b
    <3>1. consecutive' = 0 /\ openCount' = openCount
      BY <1>4, <2>3 DEF AttemptFailed, Reopen
    <3> QED
      BY <1>1, <3>1
  <2> QED
    BY <2>1, <2>2, <2>3
<1> QED
  BY <1>2, <1>3, <1>4 DEF BreakerCoherent, Tripped

(* The steps that change the breaker: recording, a probe, a reset and time.  *)
LEMMA BreakerMoves ==
  ASSUME [Next]_vars
  PROVE  \/ /\ \E t \in Threads : pc[t] = "record"
            /\ AttemptSucceeded \/ AttemptFailed(TRUE) \/ AttemptFailed(FALSE)
         \/ \E t \in Threads : CheckProbe(t)
         \/ Reset
         \/ UNCHANGED <<consecutive, openCount, probing>>
<1> USE DEF breaker
<1>1. ASSUME NEW t \in Threads, ThreadStep(t)
      PROVE  \/ /\ pc[t] = "record"
                /\ AttemptSucceeded \/ AttemptFailed(TRUE) \/ AttemptFailed(FALSE)
             \/ CheckProbe(t)
             \/ UNCHANGED <<consecutive, openCount, probing>>
  <2>1. CASE RecordSuccess(t) \/ RecordFailureAndRetry(t) \/ RecordLastFailure(t)
    BY <2>1 DEF RecordSuccess, RecordFailureAndRetry, RecordLastFailure, Goto
  <2>2. CASE \/ CheckClosed(t) \/ CheckReject(t) \/ CheckOverflow(t) \/ StartInline(t)
             \/ GetSemaphore(t) \/ Acquire(t) \/ Saturated(t) \/ GetExecutor(t)
             \/ Submit(t) \/ SubmitRefused(t) \/ Deadline(t) \/ MaybeReplace(t)
             \/ Release(t)
    BY <2>2 DEF CheckClosed, CheckReject, CheckOverflow, StartInline, GetSemaphore,
         Acquire, Saturated, GetExecutor, Submit, SubmitRefused, Deadline,
         MaybeReplace, Release
  <2> QED
    BY <1>1, <2>1, <2>2 DEF ThreadStep
<1>2. ASSUME NEW t \in Threads, Around(t)
      PROVE  UNCHANGED <<consecutive, openCount, probing>>
  BY <1>2 DEF Around, Begin, WorkerStarts, OperationTimesOut, Interrupt, InlineEnds,
       OperationReturns
<1>3. ASSUME \/ \E p \in Policies : SetExporterPolicy(p)
             \/ \E e \in Executors : GhostEnds(e) \/ OrphanStarts(e)
             \/ Tick \/ UNCHANGED vars
      PROVE  UNCHANGED <<consecutive, openCount, probing>>
  BY <1>3 DEF SetExporterPolicy, GhostEnds, OrphanStarts, Tick, vars
<1> QED
  BY <1>1, <1>2, <1>3 DEF Next

LEMMA BreakerStep ==
  ASSUME IInv, [Next]_vars
  PROVE  /\ BreakerCoherent'
         /\ openCount' > openCount => elapsed' = 0 /\ consecutive' >= Threshold
<1> USE Bounds
<1> TypeOK /\ BreakerCoherent
  BY DEF IInv
<1>0. openCount \in Nat
  BY DEF TypeOK
<1>1. CASE AttemptSucceeded \/ AttemptFailed(TRUE) \/ AttemptFailed(FALSE)
  BY <1>1, RecordCoherent
<1>2. CASE \E t \in Threads : CheckProbe(t)
  BY <1>0, <1>2 DEF CheckProbe, BreakerCoherent, Tripped
<1>3. CASE Reset
  BY <1>0, <1>3 DEF Reset, BreakerCoherent, Tripped
<1>4. CASE UNCHANGED <<consecutive, openCount, probing>>
  BY <1>0, <1>4 DEF BreakerCoherent, Tripped
<1> QED
  BY <1>1, <1>2, <1>3, <1>4, BreakerMoves

LEMMA Inductive == Spec => []IInv
<1>1. IInv /\ [Next]_vars => IInv'
  BY TypeStep, PermitStep, BreakerStep DEF IInv
<1> QED
  BY <1>1, InitInv, PTL DEF Spec

(* Every variable keeps its type: in particular the number of permits taken
   from a semaphore stays between zero and _EXECUTOR_MAX_PENDING.            *)
THEOREM ResilienceTypes == Spec => []TypeOK
BY Inductive, PTL DEF IInv

(* A pending submission always has a permit of its own, so the executor queue
   is bounded and BoundedSemaphore.release never raises in _run_attempt_with_timeout. *)
THEOREM PermitsCoverPending == Spec => []PermitAccounting
BY Inductive, PTL DEF IInv

(* _half_open_probing implies a tripped breaker, and a tripped breaker has
   been counted in _open_count.                                              *)
THEOREM BreakerStaysCoherent == Spec => []BreakerCoherent
BY Inductive, PTL DEF IInv

(* _record_attempt_failure: whenever _open_count grows the circuit is open
   and its cooldown starts over.                                             *)
THEOREM GrowthAlwaysReopens == Spec => GrowthReopens
<1>1. IInv /\ [Next]_vars
        => [openCount' > openCount => elapsed' = 0 /\ consecutive' >= Threshold]_vars
  BY BreakerStep
<1> QED
  BY <1>1, Inductive, PTL DEF Spec, GrowthReopens

(* Only _record_attempt_success, _record_attempt_failure and a shutdown move
   an open circuit; for every other step of every thread its cooldown goes on. *)
THEOREM CooldownIsKept == Spec => CooldownKept
<1> DEFINE Quiet == (\A t \in Threads : pc[t] # "record" \/ pc'[t] = "record") /\ resets' = resets
           Kept == elapsed' >= elapsed /\ openCount' = openCount /\ consecutive' = consecutive
<1>1. ASSUME TypeOK, [Next]_vars, Quiet
      PROVE  Kept
  <2> USE <1>1, Bounds
  <2>0. elapsed \in Nat /\ resets \in Nat
    BY DEF TypeOK
  <2>1. ASSUME UNCHANGED breaker PROVE Kept
    BY <2>0, <2>1 DEF breaker
  <2>2. ASSUME NEW t \in Threads, ThreadStep(t) PROVE Kept
    <3>1. ~(RecordSuccess(t) \/ RecordFailureAndRetry(t) \/ RecordLastFailure(t))
      BY DEF TypeOK, RecordSuccess, RecordFailureAndRetry, RecordLastFailure, Goto
    <3>2. CASE CheckProbe(t)
      BY <2>0, <3>2 DEF CheckProbe
    <3>3. CASE \/ CheckClosed(t) \/ CheckReject(t) \/ CheckOverflow(t) \/ StartInline(t)
               \/ GetSemaphore(t) \/ Acquire(t) \/ Saturated(t) \/ GetExecutor(t)
               \/ Submit(t) \/ SubmitRefused(t) \/ Deadline(t) \/ MaybeReplace(t)
               \/ Release(t)
      <4>1. UNCHANGED breaker
        BY <3>3 DEF CheckClosed, CheckReject, CheckOverflow, StartInline, GetSemaphore,
             Acquire, Saturated, GetExecutor, Submit, SubmitRefused, Deadline,
             MaybeReplace, Release, breaker
      <4> QED BY <4>1, <2>1
    <3> QED
      BY <2>2, <3>1, <3>2, <3>3 DEF ThreadStep
  <2>3. ASSUME NEW t \in Threads, Around(t) PROVE Kept
    <3>1. UNCHANGED <<consecutive, elapsed, openCount>>
      BY <2>3 DEF Around, Begin, WorkerStarts, OperationTimesOut, Interrupt, InlineEnds,
           OperationReturns, breaker
    <3> QED BY <2>0, <3>1
  <2>4. CASE Tick
    BY <2>0, <2>4 DEF Tick
  <2>5. CASE Reset
    BY <2>0, <2>5 DEF Reset
  <2>6. ASSUME \/ \E p \in Policies : SetExporterPolicy(p)
               \/ \E e \in Executors : GhostEnds(e) \/ OrphanStarts(e)
               \/ UNCHANGED vars
        PROVE  Kept
    <3>1. UNCHANGED breaker
      BY <2>6 DEF SetExporterPolicy, GhostEnds, OrphanStarts, vars, breaker
    <3> QED BY <3>1, <2>1
  <2> QED
    BY <2>2, <2>3, <2>4, <2>5, <2>6 DEF Next
<1>2. TypeOK /\ [Next]_vars => [Quiet => Kept]_vars
  BY <1>1
<1> QED
  BY <1>2, ResilienceTypes, PTL DEF Spec, CooldownKept

(* The half-open flag is never left behind but by a KeyboardInterrupt of the
   probe itself: as long as callers are rejected because of a probe nobody
   interrupted, the call let through as one is still going to record.        *)
THEOREM ProbeAlwaysInProgress == Spec => []ProbeInProgress
<1>1. Init => ProbeInProgress
  BY DEF Init, ProbeInProgress
<1>2. TypeOK /\ ProbeInProgress /\ [Next]_vars => ProbeInProgress'
  <2> SUFFICES ASSUME TypeOK, ProbeInProgress, [Next]_vars, probing', ~deserted'
               PROVE  \E t \in Threads : pc'[t] \in Attempting /\ call'[t].probe
    BY DEF ProbeInProgress
  <2> DEFINE On(t) == pc[t] \in Attempting /\ call[t].probe
  <2>1. CASE AttemptSucceeded \/ AttemptFailed(TRUE) \/ AttemptFailed(FALSE)
    BY <2>1 DEF AttemptSucceeded, AttemptFailed
  <2>2. CASE Reset
    BY <2>2 DEF Reset
  <2>3. ASSUME NEW t \in Threads, CheckProbe(t)
        PROVE  On(t)'
    BY <2>3 DEF CheckProbe, Goto, TypeOK, Attempting, Calls
  <2>4. ASSUME UNCHANGED probing,
               ~(AttemptSucceeded \/ AttemptFailed(TRUE) \/ AttemptFailed(FALSE))
        PROVE  \E t \in Threads : On(t)'
    <3>1. deserted => deserted'
      <4>1. ASSUME NEW u \in Threads, ThreadStep(u) PROVE deserted' = deserted
        <5>1. ~(RecordSuccess(u) \/ RecordFailureAndRetry(u) \/ RecordLastFailure(u))
          BY <2>4 DEF RecordSuccess, RecordFailureAndRetry, RecordLastFailure
        <5> QED
          BY <4>1, <5>1 DEF ThreadStep, CheckClosed, CheckProbe, CheckReject, CheckOverflow,
            StartInline, GetSemaphore, Acquire, Saturated, GetExecutor, Submit,
            SubmitRefused, Deadline, MaybeReplace, Release, breaker
      <4>2. ASSUME NEW u \in Threads, Around(u) PROVE deserted => deserted'
        BY <4>2 DEF Around, Begin, WorkerStarts, OperationTimesOut, Interrupt, InlineEnds,
          OperationReturns, breaker
      <4>3. CASE Reset
        BY <4>3, <2>4 DEF Reset
      <4>4. ASSUME \/ \E p \in Policies : SetExporterPolicy(p)
                   \/ \E e \in Executors : GhostEnds(e) \/ OrphanStarts(e)
                   \/ Tick \/ UNCHANGED vars
            PROVE  deserted' = deserted
        BY <4>4 DEF SetExporterPolicy, GhostEnds, OrphanStarts, Tick, vars, breaker
      <4> QED
        BY <4>1, <4>2, <4>3, <4>4 DEF Next
    <3>2. PICK t \in Threads : On(t)
      BY <2>4, <3>1 DEF ProbeInProgress
    <3> USE <2>4, <3>2 DEF Goto, TypeOK, Attempting, Holding, Calls
    <3>3. ASSUME NEW u \in Threads, ThreadStep(u) PROVE On(t)'
      <4>1. ~(RecordSuccess(u) \/ RecordFailureAndRetry(u) \/ RecordLastFailure(u))
        BY DEF RecordSuccess, RecordFailureAndRetry, RecordLastFailure
      <4>2. CASE u = t
        BY <3>3, <4>1, <4>2 DEF ThreadStep, CheckClosed, CheckProbe, CheckReject, CheckOverflow,
          StartInline, GetSemaphore, Acquire, Saturated, GetExecutor, Submit,
          SubmitRefused, Deadline, MaybeReplace, Release
      <4>3. CASE u # t
        BY <3>3, <4>1, <4>3 DEF ThreadStep, CheckClosed, CheckProbe, CheckReject, CheckOverflow,
          StartInline, GetSemaphore, Acquire, Saturated, GetExecutor, Submit,
          SubmitRefused, Deadline, MaybeReplace, Release, Return
      <4> QED
        BY <4>2, <4>3
    <3>4. ASSUME NEW u \in Threads, Around(u) PROVE On(t)'
      <4>1. ~(Interrupt(u) /\ u = t)
        BY DEF Interrupt
      <4>2. CASE u = t
        BY <3>4, <4>1, <4>2 DEF Around, Begin, WorkerStarts, OperationTimesOut, InlineEnds,
          OperationReturns
      <4>3. CASE u # t
        BY <3>4, <4>3 DEF Around, Begin, WorkerStarts, OperationTimesOut, Interrupt,
          InlineEnds, OperationReturns, Return
      <4> QED
        BY <4>2, <4>3
    <3>5. ASSUME \/ \E p \in Policies : SetExporterPolicy(p)
                 \/ \E e \in Executors : GhostEnds(e) \/ OrphanStarts(e)
                 \/ Tick \/ Reset \/ UNCHANGED vars
          PROVE  On(t)'
      BY <3>5 DEF SetExporterPolicy, GhostEnds, OrphanStarts, Tick, Reset, vars
    <3> QED
      BY <3>3, <3>4, <3>5 DEF Next
  <2> QED
    BY <2>1, <2>2, <2>3, <2>4, BreakerMoves
<1> QED
  BY <1>1, <1>2, ResilienceTypes, PTL DEF Spec
=============================================================================
