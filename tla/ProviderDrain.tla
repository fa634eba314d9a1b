--------------------------- MODULE ProviderDrain ---------------------------
(***************************************************************************)
(* _bounded_provider_call of _provider_drain.py: flushing or shutting a    *)
(* provider down on a worker thread under a deadline, and the process-wide *)
(* budget of workers whose caller has stopped waiting.                     *)
(*                                                                         *)
(* A job is one call together with the worker it starts.  The worker       *)
(* outlives the call when the exporter hangs; it signals completion before *)
(* it takes _abandoned_lock, so its caller can still be counting it as     *)
(* abandoned while it exits.  What the provider does with the records is   *)
(* not modelled.                                                           *)
(***************************************************************************)
EXTENDS Integers, FiniteSets

CONSTANTS
  Flushes,        \* calls of bounded_provider_flush
  Shutdowns,      \* calls of bounded_provider_shutdown
  MaxAbandoned,   \* _MAX_ABANDONED_WORKERS
  MaxCallers      \* bound: calls in progress at a time

Jobs == Flushes \cup Shutdowns

ASSUME DrainAssumption ==
  /\ IsFiniteSet(Flushes) /\ IsFiniteSet(Shutdowns)
  /\ Flushes \cap Shutdowns = {}
  /\ MaxAbandoned \in Nat \ {0} /\ MaxCallers \in Nat \ {0}

VARIABLES
  abandoned,   \* _abandoned_workers
  caller,      \* where each job's caller is
  worker,      \* where each job's worker is
  completed,   \* the completed event
  finished,    \* the finished flag, written under _abandoned_lock
  counted,     \* the counted flag, written under _abandoned_lock
  failed,      \* error or incomplete is not empty: "raise", "incomplete" or "no"
  result,      \* what the call returned
  lossy        \* history: some method of the job raised or left records queued

vars == <<abandoned, caller, worker, completed, finished, counted, failed, result, lossy>>

InProgress == {j \in Jobs : caller[j] \in {"start", "wait", "count"}}

Init ==
  /\ abandoned = 0
  /\ caller = [j \in Jobs |-> "new"]
  /\ worker = [j \in Jobs |-> "none"]
  /\ completed = [j \in Jobs |-> FALSE]
  /\ finished = [j \in Jobs |-> FALSE]
  /\ counted = [j \in Jobs |-> FALSE]
  /\ failed = [j \in Jobs |-> "no"]
  /\ result = [j \in Jobs |-> "none"]
  /\ lossy = [j \in Jobs |-> FALSE]
-----------------------------------------------------------------------------
Return(j, r) ==
  /\ caller' = [caller EXCEPT ![j] = "done"]
  /\ result' = [result EXCEPT ![j] = r]

Call(j) ==
  /\ caller[j] = "new"
  /\ Cardinality(InProgress) < MaxCallers

\* Bug: the budget is compared one too high.
EnterOneTooMany(j) ==
  /\ Call(j)
  /\ j \in Flushes => abandoned <= MaxAbandoned
  /\ caller' = [caller EXCEPT ![j] = "start"]
  /\ UNCHANGED <<abandoned, worker, completed, finished, counted, failed, result, lossy>>

\* A flush passes the saturation check and lets the lock go; a shutdown is not
\* checked.
Enter(j) ==
  /\ Call(j)
  /\ j \in Flushes => abandoned < MaxAbandoned
  /\ caller' = [caller EXCEPT ![j] = "start"]
  /\ UNCHANGED <<abandoned, worker, completed, finished, counted, failed, result, lossy>>

\* Too many workers are pending against an unresponsive exporter.
Decline(j) ==
  /\ Call(j)
  /\ j \in Flushes /\ abandoned >= MaxAbandoned
  /\ Return(j, "False")
  /\ UNCHANGED <<abandoned, worker, completed, finished, counted, failed, lossy>>

StartWorker(j) ==
  /\ caller[j] = "start"
  /\ caller' = [caller EXCEPT ![j] = "wait"]
  /\ worker' = [worker EXCEPT ![j] = "force_flush"]
  /\ UNCHANGED <<abandoned, completed, finished, counted, failed, result, lossy>>

\* RuntimeError: can't start new thread.
StartFails(j) ==
  /\ caller[j] = "start"
  /\ Return(j, "False")
  /\ UNCHANGED <<abandoned, worker, completed, finished, counted, failed, lossy>>

\* completed.wait returns True: look at error, then at incomplete.
Completed(j) ==
  /\ caller[j] = "wait" /\ completed[j]
  /\ Return(j, CASE failed[j] = "no" -> "True"
                 [] failed[j] = "incomplete" -> "False"
                 [] failed[j] = "raise" -> "raised")
  /\ UNCHANGED <<abandoned, worker, completed, finished, counted, failed, lossy>>

\* Bug: the caller joins the worker instead of giving up.
DeadlineWaits(j) == FALSE /\ UNCHANGED vars

\* completed.wait returns False.  The worker may complete before the caller
\* gets the lock.
Deadline(j) ==
  /\ caller[j] = "wait" /\ ~completed[j]
  /\ caller' = [caller EXCEPT ![j] = "count"]
  /\ UNCHANGED <<abandoned, worker, completed, finished, counted, failed, result, lossy>>

\* Bug: the caller counts a worker that has already gone.
AbandonUnchecked(j) ==
  /\ caller[j] = "count"
  /\ counted' = [counted EXCEPT ![j] = TRUE]
  /\ abandoned' = abandoned + 1
  /\ Return(j, "False")
  /\ UNCHANGED <<worker, completed, finished, failed, lossy>>

Abandon(j) ==
  /\ caller[j] = "count"
  /\ counted' = [counted EXCEPT ![j] = ~finished[j]]
  /\ abandoned' = IF finished[j] THEN abandoned ELSE abandoned + 1
  /\ Return(j, "False")
  /\ UNCHANGED <<worker, completed, finished, failed, lossy>>
-----------------------------------------------------------------------------
(* _runner *)

\* The methods are done, or one raised and the rest are skipped.
Complete(j, outcome) ==
  /\ worker' = [worker EXCEPT ![j] = "exit"]
  /\ failed' = [failed EXCEPT ![j] = outcome]
  /\ completed' = [completed EXCEPT ![j] = TRUE]
  /\ UNCHANGED <<abandoned, caller, finished, counted, result>>

\* What the provider itself knows of the job.
Loses(j, loss) == lossy' = [lossy EXCEPT ![j] = @ \/ loss]

\* Bug: the result of force_flush is dropped.
FlushEndsForgetful(j, ok) ==
  /\ worker[j] = "force_flush"
  /\ Loses(j, ~ok)
  /\ IF j \in Shutdowns
     THEN /\ worker' = [worker EXCEPT ![j] = "shutdown"]
          /\ UNCHANGED <<abandoned, caller, completed, finished, counted, failed, result>>
     ELSE Complete(j, "no")

\* force_flush returns; False means records are still queued.
FlushEnds(j, ok) ==
  /\ worker[j] = "force_flush"
  /\ Loses(j, ~ok)
  /\ IF j \in Shutdowns
     THEN /\ worker' = [worker EXCEPT ![j] = "shutdown"]
          /\ failed' = [failed EXCEPT ![j] = IF ok THEN "no" ELSE "incomplete"]
          /\ UNCHANGED <<abandoned, caller, completed, finished, counted, result>>
     ELSE Complete(j, IF ok THEN "no" ELSE "incomplete")

\* The provider's shutdown returns; what force_flush left behind is kept.
ShutdownEnds(j, ok) ==
  /\ worker[j] = "shutdown"
  /\ Loses(j, ~ok)
  /\ Complete(j, IF ok THEN failed[j] ELSE "incomplete")

\* A method raises: the remaining methods are not called.
MethodRaises(j) ==
  /\ worker[j] \in {"force_flush", "shutdown"}
  /\ Loses(j, TRUE)
  /\ Complete(j, "raise")

\* Bug: a worker that was abandoned never gives its slot back.
ExitKeepsSlot(j) ==
  /\ worker[j] = "exit"
  /\ worker' = [worker EXCEPT ![j] = "gone"]
  /\ finished' = [finished EXCEPT ![j] = TRUE]
  /\ UNCHANGED <<abandoned, caller, completed, counted, failed, result, lossy>>

\* The worker takes the lock on its way out.
Exit(j) ==
  /\ worker[j] = "exit"
  /\ worker' = [worker EXCEPT ![j] = "gone"]
  /\ finished' = [finished EXCEPT ![j] = TRUE]
  /\ abandoned' = IF counted[j] THEN abandoned - 1 ELSE abandoned
  /\ UNCHANGED <<caller, completed, counted, failed, result, lossy>>
-----------------------------------------------------------------------------
\* What a thread of this library does by itself, whatever the exporter does.
CallerStep(j) ==
  StartWorker(j) \/ StartFails(j) \/ Completed(j) \/ Deadline(j) \/ Abandon(j)

Exporter(j) ==
  (\E ok \in BOOLEAN : FlushEnds(j, ok) \/ ShutdownEnds(j, ok)) \/ MethodRaises(j)

Next == \E j \in Jobs :
  Enter(j) \/ Decline(j) \/ CallerStep(j) \/ Exporter(j) \/ Exit(j)

Spec == Init /\ [][Next]_vars

\* Callers and exiting workers run; the exporter may hang for ever.
FairSpec == Spec /\ \A j \in Jobs : WF_vars(CallerStep(j)) /\ WF_vars(Exit(j))
-----------------------------------------------------------------------------
TypeOK ==
  /\ abandoned \in Nat
  /\ caller \in [Jobs -> {"new", "start", "wait", "count", "done"}]
  /\ worker \in [Jobs -> {"none", "force_flush", "shutdown", "exit", "gone"}]
  /\ completed \in [Jobs -> BOOLEAN] /\ finished \in [Jobs -> BOOLEAN]
  /\ counted \in [Jobs -> BOOLEAN]
  /\ failed \in [Jobs -> {"no", "incomplete", "raise"}]
  /\ result \in [Jobs -> {"none", "True", "False", "raised"}]
  /\ lossy \in [Jobs -> BOOLEAN]

\* Workers charged to the budget that have not left yet.
Stranded == {j \in Jobs : counted[j] /\ ~finished[j]}

(* _abandoned_workers counts the stranded workers, no more and no less, at
   every moment of the race between a caller giving up and its worker
   exiting: no slot is lost for ever and the counter never goes negative.  *)
BudgetExact == abandoned = Cardinality(Stranded)

(* Flushing again and again against a dead exporter strands a bounded number
   of workers: the limit, overshot at most by the other callers that passed
   the check before the last one was counted.                              *)
FlushBacklogBounded ==
  Cardinality(Stranded \cap Flushes) <= MaxAbandoned + MaxCallers - 1

(* A drain is reported clean only after every method ran to its end, and none
   raised or reported records left behind.                                 *)
TrueMeansDrained ==
  \A j \in Jobs :
    result[j] = "True" => worker[j] \in {"exit", "gone"} /\ ~lossy[j]

(* Whatever the exporter does, every caller gets its answer: a call that has
   returned never is in progress again, so time and again none is.         *)
CallsReturn == []<>(InProgress = {})

(* Once the exporter answers again the whole budget is available again.    *)
BudgetRecovers ==
  (<>[](\A j \in Jobs : worker[j] \notin {"force_flush", "shutdown"}))
    => <>[](abandoned = 0)
==============================================================================
