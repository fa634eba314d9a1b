---------------------------- MODULE Backpressure ----------------------------
(***************************************************************************)
(* backpressure.py for one signal: tickets for a bounded queue.            *)
(* _try_acquire_unchecked reads the limit before it takes _lock; a ticket  *)
(* is held while the record is processed and released afterwards, in a     *)
(* finally block.  set_queue_policy may change the limit at any time and   *)
(* shutdown_telemetry resets the queues while tickets are out.  The three  *)
(* signals share the lock and the token counter and nothing else.          *)
(* The steps are composed with the rest of a call by Emission, in which a  *)
(* record that raises loses its ticket; Next is what they may do by        *)
(* themselves.                                                             *)
(***************************************************************************)
EXTENDS Integers, FiniteSets

CONSTANTS
  Threads,     \* threads that emit records
  Limits,      \* values set_queue_policy is given; 0 is unlimited
  MaxTokens,   \* bound: tokens handed out between two resets
  MaxResets    \* bound: resets in a behaviour

ASSUME BackpressureAssumption ==
  /\ Limits \subseteq Nat /\ 0 \in Limits
  /\ {MaxTokens, MaxResets} \subseteq Nat

VARIABLES
  limit,     \* _policy.<signal>_maxsize
  queue,     \* the tokens in _queues[signal]
  tokens,    \* _tokens: tokens handed out since the last reset
  pc,        \* step of each thread
  seen,      \* the limit each thread read
  ticket,    \* the token of each thread's ticket; 0 is the unlimited ticket
  resets,    \* number of resets
  epoch,     \* history: resets when the ticket was handed out
  highest    \* history: largest limit an acquisition since the last reset was made under

vars == <<limit, queue, tokens, pc, seen, ticket, resets, epoch, highest>>

Queues(m) ==
  /\ limit = m /\ queue = {} /\ tokens = 0 /\ resets = 0 /\ highest = 0
  /\ pc = [t \in Threads |-> "idle"]
  /\ seen = [t \in Threads |-> 0] /\ ticket = [t \in Threads |-> 0]
  /\ epoch = [t \in Threads |-> 0]

Larger(m, n) == IF m > n THEN m ELSE n

\* _maxsize, without the lock.
ReadLimit(t) ==
  /\ pc[t] = "idle" /\ pc' = [pc EXCEPT ![t] = "read"]
  /\ seen' = [seen EXCEPT ![t] = limit]
  /\ UNCHANGED <<limit, queue, tokens, ticket, resets, epoch, highest>>

\* The pre-allocated ticket of an unlimited queue: no lock, no slot.
AcquireUnlimited(t) ==
  /\ pc[t] = "read" /\ seen[t] <= 0
  /\ pc' = [pc EXCEPT ![t] = "holding"] /\ ticket' = [ticket EXCEPT ![t] = 0]
  /\ UNCHANGED <<limit, queue, tokens, seen, resets, epoch, highest>>

\* A slot under the lock.
Acquire(t) ==
  /\ pc[t] = "read" /\ seen[t] > 0 /\ tokens < MaxTokens
  /\ Cardinality(queue) < seen[t]
  /\ tokens' = tokens + 1 /\ queue' = queue \cup {tokens + 1}
  /\ pc' = [pc EXCEPT ![t] = "holding"] /\ ticket' = [ticket EXCEPT ![t] = tokens + 1]
  /\ epoch' = [epoch EXCEPT ![t] = resets] /\ highest' = Larger(highest, seen[t])
  /\ UNCHANGED <<limit, seen, resets>>

\* The queue is full: the record is dropped and there is no ticket.
Drop(t) ==
  /\ pc[t] = "read" /\ seen[t] > 0 /\ Cardinality(queue) >= seen[t]
  /\ pc' = [pc EXCEPT ![t] = "idle"]
  /\ UNCHANGED <<limit, queue, tokens, seen, ticket, resets, epoch, highest>>

\* release: the unlimited ticket has no slot, and a token that is not in the
\* queue any more is ignored.
Release(t) ==
  /\ pc[t] = "holding" /\ pc' = [pc EXCEPT ![t] = "idle"]
  /\ queue' = queue \ {ticket[t]}
  /\ ticket' = [ticket EXCEPT ![t] = 0]
  /\ UNCHANGED <<limit, tokens, seen, resets, epoch, highest>>

SetQueuePolicy(m) ==
  /\ limit' = m
  /\ UNCHANGED <<queue, tokens, pc, seen, ticket, resets, epoch, highest>>

\* reset_queues_for_tests, called by shutdown_telemetry.
Reset ==
  /\ resets < MaxResets /\ resets' = resets + 1
  /\ limit' = 0 /\ queue' = {} /\ tokens' = 0 /\ highest' = 0
  /\ UNCHANGED <<pc, seen, ticket, epoch>>

Emit(t) == ReadLimit(t) \/ AcquireUnlimited(t) \/ Acquire(t) \/ Drop(t)

Next ==
  \/ \E t \in Threads : Emit(t) \/ Release(t)
  \/ \E m \in Limits : SetQueuePolicy(m)
  \/ Reset
-----------------------------------------------------------------------------
TypeOK ==
  /\ limit \in Limits /\ highest \in Limits
  /\ tokens \in 0..MaxTokens /\ resets \in 0..MaxResets
  /\ queue \subseteq 1..tokens
  /\ pc \in [Threads -> {"idle", "read", "holding"}]
  /\ seen \in [Threads -> Limits] /\ ticket \in [Threads -> 0..MaxTokens]
  /\ epoch \in [Threads -> 0..MaxResets]

Holding == {t \in Threads : pc[t] = "holding" /\ ticket[t] # 0}

(* Two tickets handed out since the last reset never share a token, so the
   release of one does not free the slot of the other.                     *)
TicketsDistinct ==
  \A t, u \in Holding : t # u /\ epoch[t] = epoch[u] => ticket[t] # ticket[u]

(* The queue never holds more tickets than the largest limit an acquisition
   since the last reset was made under.                                    *)
WithinLargestLimit == Cardinality(queue) <= highest

=============================================================================
