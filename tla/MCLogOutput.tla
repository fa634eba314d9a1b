----------------------------- MODULE MCLogOutput ----------------------------
(* Model values for checking LogOutput. *)
EXTENDS LogOutput
=============================================================================
