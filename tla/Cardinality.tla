---------------------------- MODULE Cardinality -----------------------------
(***************************************************************************)
(* cardinality.py for one limited attribute key.  guard_attributes reads   *)
(* the clock once and then takes the lock three times: to collect expired  *)
(* values, to delete those still expired, and to record its own value.     *)
(***************************************************************************)
EXTENDS Integers, FiniteSets

CONSTANTS
  AttrValues,      \* values of the attribute
  TTL,             \* ttl_seconds
  PruneInterval,   \* _PRUNE_INTERVAL
  MaxClock         \* bound: the clock stops here

ASSUME CardinalityAssumption == {TTL, PruneInterval, MaxClock} \subseteq Nat

Overflow == "__overflow__"

VARIABLES
  maxValues,   \* _limits[key].max_values; 0 when no limit is registered
  lastSeen,    \* _seen[key]: the values recorded and when
  lastPrune,   \* _last_prune[key]
  clock,       \* time.monotonic
  guard,       \* local variables of each caller's guard_attributes
  largest      \* history: largest limit since the limits were cleared

cardinalityVars == <<maxValues, lastSeen, lastPrune, clock, guard, largest>>
limits == <<maxValues, clock, largest>>

Unguarded == [at |-> "off", now |-> 0, value |-> Overflow, expired |-> {}]
NoValues == [v \in {} |-> 0]

CardinalityInit(callers, n) ==
  /\ maxValues = n /\ largest = n /\ lastSeen = NoValues /\ lastPrune = 0 /\ clock = 0
  /\ guard = [t \in callers |-> Unguarded]

RegisterLimit(n) ==
  /\ maxValues' = IF n < 1 THEN 1 ELSE n
  /\ largest' = IF maxValues' > largest THEN maxValues' ELSE largest
  /\ UNCHANGED <<lastSeen, lastPrune, clock, guard>>

ClearLimits ==
  /\ maxValues' = 0 /\ lastSeen' = NoValues /\ lastPrune' = 0 /\ largest' = 0
  /\ UNCHANGED <<clock, guard>>

Tick == clock < MaxClock /\ clock' = clock + 1
        /\ UNCHANGED <<maxValues, lastSeen, lastPrune, guard, largest>>

Expired(now) == {v \in DOMAIN lastSeen : lastSeen[v] < now - TTL}

\* No limit registered, for any key: the attributes are returned as they are.
GuardBegin(t, v) ==
  /\ guard[t].at = "off"
  /\ guard' = [guard EXCEPT ![t] =
                 [at |-> IF maxValues = 0 THEN "done" ELSE "collect", now |-> clock,
                  value |-> v, expired |-> {}]]
  /\ UNCHANGED <<limits, lastSeen, lastPrune>>

GuardCollect(t) ==
  LET prune == guard[t].now - lastPrune >= PruneInterval
      found == IF prune THEN Expired(guard[t].now) ELSE {}
  IN  /\ guard[t].at = "collect"
      /\ IF maxValues = 0
         THEN guard' = [guard EXCEPT ![t].at = "done"] /\ UNCHANGED lastPrune
         ELSE /\ lastPrune' = IF prune THEN guard[t].now ELSE lastPrune
              /\ guard' = [guard EXCEPT ![t].expired = found,
                             ![t].at = IF found = {} THEN "record" ELSE "delete"]
      /\ UNCHANGED <<limits, lastSeen>>

Keep(values) == lastSeen' = [v \in values |-> lastSeen[v]]

\* A value that a concurrent caller refreshed meanwhile stays.
GuardDelete(t) ==
  /\ guard[t].at = "delete" /\ guard' = [guard EXCEPT ![t].at = "record"]
  /\ IF maxValues = 0 THEN UNCHANGED lastSeen
     ELSE Keep(DOMAIN lastSeen \ (guard[t].expired \cap Expired(guard[t].now)))
  /\ UNCHANGED <<limits, lastPrune>>

\* Bug: one value too many.
FullLate == Cardinality(DOMAIN lastSeen) > maxValues

Full == Cardinality(DOMAIN lastSeen) >= maxValues

GuardRecord(t) ==
  LET v == guard[t].value
      new == v \notin DOMAIN lastSeen
  IN  /\ guard[t].at = "record"
      /\ IF maxValues = 0 \/ (new /\ Full)
         THEN /\ guard' = [guard EXCEPT ![t].at = "done",
                             ![t].value = IF maxValues = 0 THEN v ELSE Overflow]
              /\ UNCHANGED lastSeen
         ELSE /\ guard' = [guard EXCEPT ![t].at = "done"]
              /\ lastSeen' = [u \in DOMAIN lastSeen \cup {v} |->
                                IF u = v THEN guard[t].now ELSE lastSeen[u]]
      /\ UNCHANGED <<limits, lastPrune>>

Guarding(t) == GuardCollect(t) \/ GuardDelete(t) \/ GuardRecord(t)
GuardReturn(t) == guard[t].at = "done" /\ guard' = [guard EXCEPT ![t] = Unguarded]
                  /\ UNCHANGED <<limits, lastSeen, lastPrune>>
-----------------------------------------------------------------------------
(* The limit holds however the three critical sections of concurrent callers
   interleave with each other, with the clock and with new limits.         *)
WithinLimit == Cardinality(DOMAIN lastSeen) <= largest

(* The limit is kept without forgetting a value in use: a sweep forgets a value
   only if it is expired at that moment, not because it was expired when the
   sweep looked first.                                                     *)
LimitKept ==
  [][/\ WithinLimit'
     /\ \A v \in DOMAIN lastSeen :
          v \in DOMAIN lastSeen' \/ maxValues' = 0 \/ lastSeen[v] + TTL < clock]_cardinalityVars
=============================================================================
