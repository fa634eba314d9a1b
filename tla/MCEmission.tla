---------------------------- MODULE MCEmission ------------------------------
(* A small instance of Emission: the policies change a bounded number of times. *)
EXTENDS Emission, TLC

CONSTANT MaxChanges   \* bound: changes of policy, provider, limits and clock

VARIABLE changes

Symmetry == Permutations(Threads) \cup Permutations(AttrValues)

MCInit == EmissionInit /\ changes = 0
MCNext ==
  \/ Environment /\ changes < MaxChanges /\ changes' = changes + 1
  \/ Calls /\ UNCHANGED changes
MCSpec == MCInit /\ [][MCNext]_<<emissionVars, changes>>
=============================================================================
