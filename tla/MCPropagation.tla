--------------------------- MODULE MCPropagation ----------------------------
(* Inbound headers for checking Propagation: a trace with baggage, another
   one that the SDK refuses with baggage of the same key, and baggage alone. *)
EXTENDS Propagation

H(tp, ts, b, s) ==
  [f \in Inbound \cup {"session_id"} |->
     CASE f = "traceparent" -> tp [] f = "tracestate" -> ts [] f = "baggage" -> b [] OTHER -> s]

MCHeaders == {H(1, 1, 1, 1), H(2, 0, 2, 0), H(0, 0, 1, 0)}
MCLenient == {2}
=============================================================================
