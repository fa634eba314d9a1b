---------------------------- MODULE Generations ----------------------------
(***************************************************************************)
(* What the lifecycle promises its readers (LifecycleGeneration and        *)
(* LifecycleCoordinator.publish of _lifecycle.py): one record, replaced as *)
(* a whole, numbered without gaps, that says setup is done only of a       *)
(* config that was published before.                                       *)
(***************************************************************************)
EXTENDS Integers

CONSTANTS
  Configs,   \* telemetry configs
  NoConfig   \* config is None

VARIABLE gen   \* coordinator._generation

Generation(n, c, d) == [number |-> n, config |-> c, done |-> d]

Init == gen = Generation(0, NoConfig, FALSE)

Publish(c, d) == gen' = Generation(gen.number + 1, c, d)

\* apply_runtime_config, update_runtime_config
Install == \E c \in Configs : Publish(c, gen.done)

\* setup_telemetry, once everything is installed
Latch == gen.config # NoConfig /\ ~gen.done /\ Publish(gen.config, TRUE)

\* shutdown_telemetry: first stopped, then without a config
Stop == Publish(gen.config, FALSE)
Clear == ~gen.done /\ Publish(NoConfig, FALSE)

Next == Install \/ Latch \/ Stop \/ Clear

Spec == Init /\ [][Next]_gen
=============================================================================
