---------------------------- MODULE MCResilience ----------------------------
(* Model values for checking Resilience. *)
EXTENDS Resilience, TLC

Policy(r, t, f, b) ==
  [retries |-> r, timed |-> t, failOpen |-> f, blocking |-> b]

\* ExporterPolicy()
Default == Policy(0, TRUE, TRUE, FALSE)

\* Retries under a timeout, inside an event loop too; retries without a timeout,
\* which an event loop does not get; a timeout an event loop waits for too.
Retrying == Policy(1, TRUE, FALSE, TRUE)
NoTimeout == Policy(1, FALSE, TRUE, FALSE)
Blocking == Policy(0, TRUE, TRUE, TRUE)

JustDefault == {Default}
RetryingOrNoTimeout == {Retrying, NoTimeout}
DefaultOrBlocking == {Default, Blocking}

\* Executors are interchangeable; so are threads of the same kind, as long as all
\* of them, or none, are interruptible.
Symmetry == Permutations(LoopThreads) \cup Permutations(Threads \ LoopThreads)
              \cup Permutations(Executors)
=============================================================================
