--------------------------- MODULE MCProviderDrain ---------------------------
(* Model values for checking ProviderDrain. *)
EXTENDS ProviderDrain, TLC

Symmetry == Permutations(Flushes) \cup Permutations(Shutdowns)
=============================================================================
