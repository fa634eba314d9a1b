-------------------------- MODULE MCSignalProvider --------------------------
(* Model values for checking SignalProvider. *)
EXTENDS SignalProvider
=============================================================================
