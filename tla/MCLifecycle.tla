---------------------------- MODULE MCLifecycle ----------------------------
(* Model values for checking Lifecycle. *)
EXTENDS Lifecycle

Cfg(h, c, l, e, t) == [hot |-> h, cold |-> c, level |-> l, endpoint |-> e, timeout |-> t]

Base(c) == Cfg(1, c, "info", "collector", 5)
Louder(c) == Cfg(2, c, "debug", "collector", 5)
Elsewhere(c) == Cfg(1, c, "info", "otlp", 9)

\* A config, one with other policies, level and cold fields and the same log provider,
\* and one with another log provider.
MCAsked == {Base("a"), Louder("b"), Elsewhere("a")}

\* Closed under taking the cold fields of another.
MCConfigs == UNION {{Base(c), Louder(c), Elsewhere(c)} : c \in {"a", "b"}}

MCEnv == Base("a")
=============================================================================
