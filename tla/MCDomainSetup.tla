--------------------------- MODULE MCDomainSetup ----------------------------
(***************************************************************************)
(* Instances of DomainSetup for TLC: all networks of N nodes in which the  *)
(* port to node x has the index x, without parallel links and with a       *)
(* second link between nodes 0 and 1, which is on the ports N and N + 1.   *)
(***************************************************************************)
EXTENDS DomainSetup

Both(a, b) == {<<a, b>>, <<b, a>>}

LinkOf(e) == LET a == Min(e)
                 b == Max(e)
             IN  Both(<<a, b>>, <<b, a>>)

Edges == {e \in SUBSET Node : Cardinality(e) = 2}

SimpleNetworks == {UNION {LinkOf(e) : e \in G} : G \in SUBSET Edges}

Networks ==
  SimpleNetworks \cup {T \cup Both(<<0, N + 1>>, <<1, N>>) : T \in SimpleNetworks}
=============================================================================
