--------------------------- MODULE MCPromListener ---------------------------
EXTENDS PromListener, TLC

MCKeys == {[port |-> 1, web |-> TRUE], [port |-> 1, web |-> FALSE]}
Tls(ca, auth, wrong) == [ca |-> ca, auth |-> auth, wrong |-> wrong]
MCContents ==
    {[kind |-> "missing", users |-> {}, tls |-> NoTls],
     [kind |-> "map", users |-> {"good"}, tls |-> Tls(TRUE, "RequireAndVerifyClientCert", FALSE)],
     [kind |-> "mistyped", users |-> {}, tls |-> Tls(FALSE, None, FALSE)]}
Symmetry == Permutations(Requests)
=============================================================================
