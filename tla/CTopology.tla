------------------------------ MODULE CTopology ------------------------------
(***************************************************************************)
(* What cTopology extracts from the network for the modules of utility/:   *)
(* the nodes of a type, which have the numbers from 0, and the links       *)
(* between them.  Links between a node and itself are left out.            *)
(***************************************************************************)
EXTENDS Integers, FiniteSets

CONSTANTS N,             \* the number of nodes of the type NodeType
          Port,          \* indices of the gates of a node
          Topologies     \* networks: sets of links, one for each direction

VARIABLE links           \* the network, which does not change

Node == 0..(N - 1)

\* A link leads from an end to an end, and there is another one back.
End == Node \X Port

IsTopology(T) ==
  /\ T \subseteq End \X End
  /\ \A l \in T : <<l[2], l[1]>> \in T /\ l[1][1] # l[2][1]
  /\ \A l, k \in T : l[1] = k[1] => l = k

ASSUME NAssumption == N \in Nat \ {0}
ASSUME PortAssumption == Port \subseteq Nat /\ IsFiniteSet(Port)
ASSUME TopologiesAssumption == \A T \in Topologies : IsTopology(T)

\* The ports of n that lead to x.
PortsTo(n, x) == {l[1][2] : l \in {k \in links : k[1][1] = n /\ k[2][1] = x}}

\* The number of links of n to the nodes of X.
NumLinks(n, X) == Cardinality({l \in links : l[1][1] = n /\ l[2][1] \in X})
=============================================================================
