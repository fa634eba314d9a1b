------------------------ MODULE ProviderDrainProofs ------------------------
(***************************************************************************)
(* Theorems about ProviderDrain for any finite sets of flushes and         *)
(* shutdowns, any budget and any number of concurrent callers.  The        *)
(* inductive invariant ties the flags of a job to where its caller and its *)
(* worker are, and counts the flushes that still wait together with the    *)
(* ones that are stranded: a flush becomes stranded without the sum        *)
(* growing, and enters only while the stranded alone are below the budget. *)
(***************************************************************************)
EXTENDS ProviderDrain, FiniteSetTheorems, TLAPS

\* The flags of a job say where its worker and its caller are.
FlagsOK(j) ==
  /\ finished[j] <=> worker[j] = "gone"
  /\ completed[j] <=> worker[j] \in {"exit", "gone"}
  /\ counted[j] => caller[j] = "done"
  /\ caller[j] \in {"new", "start"} => worker[j] = "none"

\* What a job reports is what happened to it.
ReportOK(j) ==
  /\ lossy[j] => failed[j] # "no" /\ worker[j] \notin {"none", "force_flush"}
  /\ result[j] = "True" => caller[j] = "done" /\ completed[j] /\ failed[j] = "no"

\* Flushes whose worker is stranded or may still be.
AtRisk == (Stranded \cup InProgress) \cap Flushes

IInv ==
  /\ TypeOK /\ BudgetExact
  /\ \A j \in Jobs : FlagsOK(j)
  /\ \A j \in Jobs : ReportOK(j)
  /\ Cardinality(AtRisk) <= MaxAbandoned + MaxCallers - 1

\* The facts of the assumption.
LEMMA Bounds ==
  /\ MaxAbandoned \in Nat /\ MaxCallers \in Nat
  /\ MaxAbandoned >= 1 /\ MaxCallers >= 1
  BY DrainAssumption

\* There are finitely many jobs.
LEMMA JobsFinite == IsFiniteSet(Jobs)
  <1>1. IsFiniteSet(Flushes) /\ IsFiniteSet(Shutdowns) BY DrainAssumption
  <1> QED BY <1>1, FS_Union DEF Jobs

\* So every set of jobs has a size.
LEMMA SomeJobs ==
  ASSUME NEW S, S \subseteq Jobs
  PROVE  IsFiniteSet(S) /\ Cardinality(S) \in Nat
  <1>1. IsFiniteSet(S) BY JobsFinite, FS_Subset
  <1> QED BY <1>1, FS_CardinalityType

\* A set of jobs is no larger than one that contains it.
LEMMA Smaller ==
  ASSUME NEW S, NEW T, T \subseteq Jobs, S \subseteq T
  PROVE  Cardinality(S) <= Cardinality(T)
  <1>1. IsFiniteSet(T) BY SomeJobs
  <1> QED BY <1>1, FS_Subset

\* The initial state satisfies the invariant.
LEMMA InitInv == Init => IInv
  <1> SUFFICES ASSUME Init PROVE IInv OBVIOUS
  <1>1. TypeOK BY DEF Init, TypeOK
  <1>2. Stranded = {} /\ InProgress = {} BY DEF Init, Stranded, InProgress
  <1>3. BudgetExact BY <1>2, FS_EmptySet DEF Init, BudgetExact
  <1>4. \A j \in Jobs : FlagsOK(j) BY DEF Init, FlagsOK
  <1>5. \A j \in Jobs : ReportOK(j) BY DEF Init, ReportOK
  <1>6. AtRisk = {} BY <1>2 DEF AtRisk
  <1>7. Cardinality(AtRisk) = 0 BY <1>6, FS_EmptySet
  <1>8. 0 <= MaxAbandoned + MaxCallers - 1 BY Bounds
  <1>9. Cardinality(AtRisk) <= MaxAbandoned + MaxCallers - 1 BY <1>7, <1>8
  <1> QED BY <1>1, <1>3, <1>4, <1>5, <1>9 DEF IInv

\* The types that need no arithmetic.
FlagTypes ==
  /\ caller \in [Jobs -> {"new", "start", "wait", "count", "done"}]
  /\ worker \in [Jobs -> {"none", "force_flush", "shutdown", "exit", "gone"}]
  /\ completed \in [Jobs -> BOOLEAN] /\ finished \in [Jobs -> BOOLEAN]
  /\ counted \in [Jobs -> BOOLEAN]
  /\ failed \in [Jobs -> {"no", "incomplete", "raise"}]
  /\ result \in [Jobs -> {"none", "True", "False", "raised"}]
  /\ lossy \in [Jobs -> BOOLEAN]

\* The steps of the caller of j, and of its worker.
CallerMoves(j) == Enter(j) \/ Decline(j) \/ StartWorker(j) \/ StartFails(j)
                    \/ Completed(j) \/ Deadline(j)
WorkerMoves(j) == (\E ok \in BOOLEAN : FlushEnds(j, ok) \/ ShutdownEnds(j, ok))
                    \/ MethodRaises(j)

\* Every step is one of these.
LEMMA Steps ==
  ASSUME Next
  PROVE  \E j \in Jobs : CallerMoves(j) \/ Abandon(j) \/ WorkerMoves(j) \/ Exit(j)
  BY DEF Next, CallerStep, Exporter, CallerMoves, WorkerMoves

\* Flags and steps keep their types.
LEMMA FlagTypesStep ==
  ASSUME IInv, NEW j \in Jobs,
         CallerMoves(j) \/ Abandon(j) \/ WorkerMoves(j) \/ Exit(j)
  PROVE  FlagTypes'
  <1>t. FlagTypes BY DEF IInv, TypeOK, FlagTypes
  <1>1. CASE Enter(j) BY <1>1, <1>t DEF Enter, Call, FlagTypes
  <1>2. CASE Decline(j) BY <1>2, <1>t DEF Decline, Call, Return, FlagTypes
  <1>3. CASE StartWorker(j) BY <1>3, <1>t DEF StartWorker, FlagTypes
  <1>4. CASE StartFails(j) BY <1>4, <1>t DEF StartFails, Return, FlagTypes
  <1>5. CASE Completed(j) BY <1>5, <1>t DEF Completed, Return, FlagTypes
  <1>6. CASE Deadline(j) BY <1>6, <1>t DEF Deadline, FlagTypes
  <1>7. CASE Abandon(j) BY <1>7, <1>t DEF Abandon, Return, FlagTypes
  <1>8. ASSUME NEW ok \in BOOLEAN, FlushEnds(j, ok) PROVE FlagTypes'
    BY <1>8, <1>t DEF FlushEnds, Complete, Loses, FlagTypes
  <1>9. ASSUME NEW ok \in BOOLEAN, ShutdownEnds(j, ok) PROVE FlagTypes'
    BY <1>9, <1>t DEF ShutdownEnds, Complete, Loses, FlagTypes
  <1>10. CASE MethodRaises(j) BY <1>10, <1>t DEF MethodRaises, Complete, Loses, FlagTypes
  <1>11. CASE Exit(j) BY <1>11, <1>t DEF Exit, FlagTypes
  <1> QED BY <1>1, <1>2, <1>3, <1>4, <1>5, <1>6, <1>7, <1>8, <1>9, <1>10, <1>11 DEF CallerMoves, WorkerMoves

\* The flags keep saying where caller and worker are.
LEMMA FlagsStep ==
  ASSUME IInv, NEW j \in Jobs,
         CallerMoves(j) \/ Abandon(j) \/ WorkerMoves(j) \/ Exit(j)
  PROVE  \A k \in Jobs : FlagsOK(k)'
  <1> SUFFICES ASSUME NEW k \in Jobs PROVE FlagsOK(k)' OBVIOUS
  <1>t. FlagTypes BY DEF IInv, TypeOK, FlagTypes
  <1>i. FlagsOK(k) BY DEF IInv
  <1>1. CASE Enter(j) BY <1>1, <1>t, <1>i DEF Enter, Call, FlagTypes, FlagsOK
  <1>2. CASE Decline(j) BY <1>2, <1>t, <1>i DEF Decline, Call, Return, FlagTypes, FlagsOK
  <1>3. CASE StartWorker(j) BY <1>3, <1>t, <1>i DEF StartWorker, FlagTypes, FlagsOK
  <1>4. CASE StartFails(j) BY <1>4, <1>t, <1>i DEF StartFails, Return, FlagTypes, FlagsOK
  <1>5. CASE Completed(j) BY <1>5, <1>t, <1>i DEF Completed, Return, FlagTypes, FlagsOK
  <1>6. CASE Deadline(j) BY <1>6, <1>t, <1>i DEF Deadline, FlagTypes, FlagsOK
  <1>7. CASE Abandon(j) BY <1>7, <1>t, <1>i DEF Abandon, Return, FlagTypes, FlagsOK
  <1>8. ASSUME NEW ok \in BOOLEAN, FlushEnds(j, ok) PROVE FlagsOK(k)'
    BY <1>8, <1>t, <1>i DEF FlushEnds, Complete, Loses, FlagTypes, FlagsOK
  <1>9. ASSUME NEW ok \in BOOLEAN, ShutdownEnds(j, ok) PROVE FlagsOK(k)'
    BY <1>9, <1>t, <1>i DEF ShutdownEnds, Complete, Loses, FlagTypes, FlagsOK
  <1>10. CASE MethodRaises(j) BY <1>10, <1>t, <1>i DEF MethodRaises, Complete, Loses, FlagTypes, FlagsOK
  <1>11. CASE Exit(j) BY <1>11, <1>t, <1>i DEF Exit, FlagTypes, FlagsOK
  <1> QED BY <1>1, <1>2, <1>3, <1>4, <1>5, <1>6, <1>7, <1>8, <1>9, <1>10, <1>11 DEF CallerMoves, WorkerMoves

\* The reports stay true: what a caller was told does not change under it.
LEMMA ReportStep ==
  ASSUME IInv, NEW j \in Jobs,
         CallerMoves(j) \/ Abandon(j) \/ WorkerMoves(j) \/ Exit(j)
  PROVE  \A k \in Jobs : ReportOK(k)'
  <1> SUFFICES ASSUME NEW k \in Jobs PROVE ReportOK(k)' OBVIOUS
  <1>t. FlagTypes BY DEF IInv, TypeOK, FlagTypes
  <1>i. FlagsOK(k) /\ ReportOK(k) BY DEF IInv
  <1>1. CASE Enter(j) BY <1>1, <1>t, <1>i DEF Enter, Call, FlagTypes, FlagsOK, ReportOK
  <1>2. CASE Decline(j) BY <1>2, <1>t, <1>i DEF Decline, Call, Return, FlagTypes, FlagsOK, ReportOK
  <1>3. CASE StartWorker(j) BY <1>3, <1>t, <1>i DEF StartWorker, FlagTypes, FlagsOK, ReportOK
  <1>4. CASE StartFails(j) BY <1>4, <1>t, <1>i DEF StartFails, Return, FlagTypes, FlagsOK, ReportOK
  <1>5. CASE Completed(j) BY <1>5, <1>t, <1>i DEF Completed, Return, FlagTypes, FlagsOK, ReportOK
  <1>6. CASE Deadline(j) BY <1>6, <1>t, <1>i DEF Deadline, FlagTypes, FlagsOK, ReportOK
  <1>7. CASE Abandon(j) BY <1>7, <1>t, <1>i DEF Abandon, Return, FlagTypes, FlagsOK, ReportOK
  <1>8. ASSUME NEW ok \in BOOLEAN, FlushEnds(j, ok) PROVE ReportOK(k)'
    BY <1>8, <1>t, <1>i DEF FlushEnds, Complete, Loses, FlagTypes, FlagsOK, ReportOK
  <1>9. ASSUME NEW ok \in BOOLEAN, ShutdownEnds(j, ok) PROVE ReportOK(k)'
    BY <1>9, <1>t, <1>i DEF ShutdownEnds, Complete, Loses, FlagTypes, FlagsOK, ReportOK
  <1>10. CASE MethodRaises(j) BY <1>10, <1>t, <1>i DEF MethodRaises, Complete, Loses, FlagTypes, FlagsOK, ReportOK
  <1>11. CASE Exit(j) BY <1>11, <1>t, <1>i DEF Exit, FlagTypes, FlagsOK, ReportOK
  <1> QED BY <1>1, <1>2, <1>3, <1>4, <1>5, <1>6, <1>7, <1>8, <1>9, <1>10, <1>11 DEF CallerMoves, WorkerMoves

\* The counter follows the stranded workers: only giving up and exiting move it.
LEMMA BudgetStep ==
  ASSUME IInv, NEW j \in Jobs,
         CallerMoves(j) \/ Abandon(j) \/ WorkerMoves(j) \/ Exit(j)
  PROVE  BudgetExact' /\ abandoned' \in Nat
  <1>t. FlagTypes BY DEF IInv, TypeOK, FlagTypes
  <1>i. FlagsOK(j) BY DEF IInv
  <1>s. Stranded \subseteq Jobs BY DEF Stranded
  <1>n. IsFiniteSet(Stranded) /\ Cardinality(Stranded) \in Nat BY <1>s, SomeJobs
  <1>b. abandoned = Cardinality(Stranded) BY DEF IInv, BudgetExact
  <1>1. CASE UNCHANGED <<abandoned, counted, finished>>
    <2>1. Stranded' = Stranded BY <1>1 DEF Stranded
    <2> QED BY <1>1, <1>n, <1>b, <2>1 DEF BudgetExact
  <1>2. CASE Abandon(j)
    <2>1. CASE finished[j]
      <3>1. Stranded' = Stranded BY <1>2, <1>t, <1>i, <2>1 DEF Abandon, Stranded, FlagTypes, FlagsOK
      <3>2. abandoned' = abandoned BY <1>2, <2>1 DEF Abandon
      <3> QED BY <1>n, <1>b, <3>1, <3>2 DEF BudgetExact
    <2>2. CASE ~finished[j]
      <3>1. Stranded' = Stranded \cup {j} /\ j \notin Stranded
        BY <1>2, <1>t, <1>i, <2>2 DEF Abandon, Stranded, FlagTypes, FlagsOK
      <3>2. abandoned' = abandoned + 1 BY <1>2, <2>2 DEF Abandon
      <3>3. Cardinality(Stranded') = Cardinality(Stranded) + 1 BY <1>n, <3>1, FS_AddElement
      <3> QED BY <1>n, <1>b, <3>2, <3>3 DEF BudgetExact
    <2> QED BY <2>1, <2>2
  <1>3. CASE Exit(j)
    <2>1. CASE counted[j]
      <3>1. Stranded' = Stranded \ {j} /\ j \in Stranded
        BY <1>3, <1>t, <1>i, <2>1 DEF Exit, Stranded, FlagTypes, FlagsOK
      <3>2. abandoned' = abandoned - 1 BY <1>3, <2>1 DEF Exit
      <3>3. IsFiniteSet(Stranded') /\ Cardinality(Stranded') = Cardinality(Stranded) - 1
        BY <1>n, <3>1, FS_RemoveElement
      <3>4. Cardinality(Stranded') \in Nat BY <3>3, FS_CardinalityType
      <3> QED BY <1>b, <3>2, <3>3, <3>4 DEF BudgetExact
    <2>2. CASE ~counted[j]
      <3>1. Stranded' = Stranded BY <1>3, <1>t, <2>2 DEF Exit, Stranded, FlagTypes
      <3>2. abandoned' = abandoned BY <1>3, <2>2 DEF Exit
      <3> QED BY <1>n, <1>b, <3>1, <3>2 DEF BudgetExact
    <2> QED BY <2>1, <2>2
  <1>4. CallerMoves(j) => UNCHANGED <<abandoned, counted, finished>>
    BY DEF CallerMoves, Enter, Decline, StartWorker, StartFails, Completed, Deadline
  <1>5. WorkerMoves(j) => UNCHANGED <<abandoned, counted, finished>>
    BY DEF WorkerMoves, FlushEnds, ShutdownEnds, MethodRaises, Complete
  <1> QED BY <1>1, <1>2, <1>3, <1>4, <1>5

\* A flush that enters finds the stranded below the budget and takes one of
\* the places of the callers.
LEMMA EnterRisk ==
  ASSUME IInv, NEW j \in Flushes, Enter(j)
  PROVE  Cardinality(AtRisk') <= MaxAbandoned + MaxCallers - 1
  <1>t. FlagTypes BY DEF IInv, TypeOK, FlagTypes
  <1>j. j \in Jobs BY DEF Jobs
  <1>s. Stranded \subseteq Jobs /\ InProgress \subseteq Jobs /\ InProgress' \subseteq Jobs
    BY DEF Stranded, InProgress
  <1>1. IsFiniteSet(Stranded) /\ Cardinality(Stranded) \in Nat BY <1>s, SomeJobs
  <1>2. IsFiniteSet(InProgress) /\ Cardinality(InProgress) \in Nat BY <1>s, SomeJobs
  <1>3. InProgress' = InProgress \cup {j} /\ j \notin InProgress
    BY <1>t, <1>j DEF Enter, Call, InProgress, FlagTypes
  <1>4. Stranded' = Stranded BY DEF Enter, Stranded
  <1>5. IsFiniteSet(InProgress') /\ Cardinality(InProgress') = Cardinality(InProgress) + 1
    BY <1>2, <1>3, FS_AddElement
  <1>6. Cardinality(InProgress) < MaxCallers BY DEF Enter, Call
  <1>7. Cardinality(Stranded) < MaxAbandoned BY DEF Enter, IInv, BudgetExact
  <1>8. Cardinality(Stranded \cup InProgress')
          = Cardinality(Stranded) + Cardinality(InProgress') - Cardinality(Stranded \cap InProgress')
    BY <1>1, <1>5, FS_Union
  <1>9. Stranded \cap InProgress' \subseteq Jobs /\ Stranded \cup InProgress' \subseteq Jobs BY <1>s
  <1>10. Cardinality(Stranded \cap InProgress') \in Nat BY <1>9, SomeJobs
  <1>11. AtRisk' \subseteq Stranded \cup InProgress' BY <1>4 DEF AtRisk
  <1>12. Cardinality(AtRisk') <= Cardinality(Stranded \cup InProgress') BY <1>9, <1>11, Smaller
  <1>13. AtRisk' \subseteq Jobs BY <1>9, <1>11
  <1>14. Cardinality(AtRisk') \in Nat BY <1>13, SomeJobs
  <1> QED BY <1>1, <1>2, <1>5, <1>6, <1>7, <1>8, <1>10, <1>12, <1>14, Bounds

\* No other step puts a flush at risk.
LEMMA RiskStep ==
  ASSUME IInv, NEW j \in Jobs,
         CallerMoves(j) \/ Abandon(j) \/ WorkerMoves(j) \/ Exit(j)
  PROVE  Cardinality(AtRisk') <= MaxAbandoned + MaxCallers - 1
  <1>t. FlagTypes BY DEF IInv, TypeOK, FlagTypes
  <1>0. CASE j \in Flushes /\ Enter(j) BY <1>0, EnterRisk
  <1> SUFFICES ASSUME ~(j \in Flushes /\ Enter(j)) PROVE AtRisk' \subseteq AtRisk
    <2>1. AtRisk \subseteq Jobs BY DEF AtRisk, Jobs
    <2>2. CASE AtRisk' \subseteq AtRisk
      <3>1. AtRisk' \subseteq Jobs BY <2>1, <2>2
      <3>2. Cardinality(AtRisk') <= Cardinality(AtRisk) BY <2>1, <2>2, Smaller
      <3>3. Cardinality(AtRisk) \in Nat /\ Cardinality(AtRisk') \in Nat BY <2>1, <3>1, SomeJobs
      <3>4. Cardinality(AtRisk) <= MaxAbandoned + MaxCallers - 1 BY DEF IInv
      <3> QED BY <3>2, <3>3, <3>4, Bounds
    <2> QED BY <1>0, <2>2
  <1>1. CASE Enter(j) BY <1>1, <1>t DEF Enter, AtRisk, Stranded, InProgress, FlagTypes
  <1>2. CASE Decline(j) BY <1>2, <1>t DEF Decline, Return, AtRisk, Stranded, InProgress, FlagTypes
  <1>3. CASE StartWorker(j) BY <1>3, <1>t DEF StartWorker, AtRisk, Stranded, InProgress, FlagTypes
  <1>4. CASE StartFails(j) BY <1>4, <1>t DEF StartFails, Return, AtRisk, Stranded, InProgress, FlagTypes
  <1>5. CASE Completed(j) BY <1>5, <1>t DEF Completed, Return, AtRisk, Stranded, InProgress, FlagTypes
  <1>6. CASE Deadline(j) BY <1>6, <1>t DEF Deadline, AtRisk, Stranded, InProgress, FlagTypes
  <1>7. CASE Abandon(j) BY <1>7, <1>t DEF Abandon, Return, AtRisk, Stranded, InProgress, FlagTypes
  <1>8. CASE WorkerMoves(j)
    <2>1. UNCHANGED <<caller, counted, finished>>
      BY <1>8 DEF WorkerMoves, FlushEnds, ShutdownEnds, MethodRaises, Complete
    <2> QED BY <2>1 DEF AtRisk, Stranded, InProgress
  <1>9. CASE Exit(j) BY <1>9, <1>t DEF Exit, AtRisk, Stranded, InProgress, FlagTypes
  <1> QED BY <1>1, <1>2, <1>3, <1>4, <1>5, <1>6, <1>7, <1>8, <1>9 DEF CallerMoves

\* The invariant is inductive.
LEMMA Invariance == Spec => []IInv
  <1>1. IInv /\ [Next]_vars => IInv'
    <2> SUFFICES ASSUME IInv, [Next]_vars PROVE IInv' OBVIOUS
    <2>1. CASE UNCHANGED vars
      <3>1. Stranded' = Stranded /\ InProgress' = InProgress BY <2>1 DEF vars, Stranded, InProgress
      <3>2. AtRisk' = AtRisk BY <3>1 DEF AtRisk
      <3>3. TypeOK' BY <2>1 DEF vars, IInv, TypeOK
      <3>4. \A j \in Jobs : FlagsOK(j)' /\ ReportOK(j)' BY <2>1 DEF vars, IInv, FlagsOK, ReportOK
      <3>5. BudgetExact' BY <2>1, <3>1 DEF vars, IInv, BudgetExact
      <3>6. Cardinality(AtRisk') <= MaxAbandoned + MaxCallers - 1 BY <3>2 DEF IInv
      <3> QED BY <3>3, <3>4, <3>5, <3>6 DEF IInv
    <2>2. CASE Next
      <3>1. PICK j \in Jobs : CallerMoves(j) \/ Abandon(j) \/ WorkerMoves(j) \/ Exit(j)
        BY <2>2, Steps
      <3>2. FlagTypes' BY <3>1, FlagTypesStep
      <3>3. BudgetExact' /\ abandoned' \in Nat BY <3>1, BudgetStep
      <3>4. TypeOK' BY <3>2, <3>3 DEF TypeOK, FlagTypes
      <3>5. \A k \in Jobs : FlagsOK(k)' BY <3>1, FlagsStep
      <3>6. \A k \in Jobs : ReportOK(k)' BY <3>1, ReportStep
      <3>7. Cardinality(AtRisk') <= MaxAbandoned + MaxCallers - 1 BY <3>1, RiskStep
      <3> QED BY <3>3, <3>4, <3>5, <3>6, <3>7 DEF IInv
    <2> QED BY <2>1, <2>2
  <1> QED BY <1>1, InitInv, PTL DEF Spec
-----------------------------------------------------------------------------
(* Type correctness; in particular the budget is never negative.           *)
THEOREM DrainTypes == Spec => []TypeOK
  <1>1. IInv => TypeOK BY DEF IInv
  <1> QED BY <1>1, Invariance, PTL

(* _abandoned_workers is the number of stranded workers in every state of the
   race between _bounded_provider_call giving up and _runner exiting.      *)
THEOREM BudgetIsExact == Spec => []BudgetExact
  <1>1. IInv => BudgetExact BY DEF IInv
  <1> QED BY <1>1, Invariance, PTL

(* However many flushes are made against an exporter that hangs, fewer than
   the budget plus the number of concurrent callers are stranded.          *)
THEOREM BacklogBounded == Spec => []FlushBacklogBounded
  <1>1. IInv => FlushBacklogBounded
    <2> SUFFICES ASSUME IInv PROVE FlushBacklogBounded OBVIOUS
    <2>1. Stranded \cap Flushes \subseteq AtRisk /\ AtRisk \subseteq Jobs BY DEF AtRisk, Jobs
    <2>2. Stranded \cap Flushes \subseteq Jobs BY <2>1
    <2>3. Cardinality(Stranded \cap Flushes) <= Cardinality(AtRisk) BY <2>1, Smaller
    <2>4. Cardinality(Stranded \cap Flushes) \in Nat /\ Cardinality(AtRisk) \in Nat
      BY <2>1, <2>2, SomeJobs
    <2>5. Cardinality(AtRisk) <= MaxAbandoned + MaxCallers - 1 BY DEF IInv
    <2> QED BY <2>3, <2>4, <2>5, Bounds DEF FlushBacklogBounded
  <1> QED BY <1>1, Invariance, PTL

(* bounded_provider_flush and bounded_provider_shutdown return True only when
   the worker ran every method to its end and nothing was left behind.     *)
THEOREM CleanMeansDrained == Spec => []TrueMeansDrained
  <1>1. IInv => TrueMeansDrained
    BY DEF IInv, TypeOK, FlagsOK, ReportOK, TrueMeansDrained
  <1> QED BY <1>1, Invariance, PTL
=============================================================================
