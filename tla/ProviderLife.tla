---------------------------- MODULE ProviderLife ----------------------------
(***************************************************************************)
(* What the tracing and metrics modules promise of every provider they     *)
(* build: it is installed at most once, it is alone while it is installed, *)
(* it is disposed of only when it is not installed, and never comes back.  *)
(* A setup that raises may lose the provider it has built, but nobody      *)
(* loses one that has been installed.                                      *)
(***************************************************************************)
CONSTANT Providers
VARIABLE phase

Init == phase = [p \in Providers |-> "unbuilt"]

Move(p, from, to) == phase[p] \in from /\ phase' = [phase EXCEPT ![p] = to]

Build(p) == Move(p, {"unbuilt"}, "built")

Install(p) ==
  /\ \A q \in Providers : phase[q] # "installed"
  /\ Move(p, {"built"}, "installed")

Detach(p) == Move(p, {"installed"}, "detached")

Dispose(p) == Move(p, {"built", "detached"}, "disposed")

Lose(p) == Move(p, {"built"}, "lost")

Next == \E p \in Providers : Build(p) \/ Install(p) \/ Detach(p) \/ Dispose(p) \/ Lose(p)

Spec == Init /\ [][Next]_phase
=============================================================================
