---------------------------- MODULE DomainSetup -----------------------------
(***************************************************************************)
(* What the modules of utility/ do while the network is initialized: a     *)
(* kPartitionNetwork writes the domainID of the nodes, and a SpanningTree  *)
(* that is declared after it reads them to select the nodes of its domain, *)
(* or takes all nodes when its own domainID is -1.                         *)
(***************************************************************************)
EXTENDS KPartitionNetwork, SpanningTree

VARIABLE domainID        \* the NED parameter of the SpanningTree

vars == <<links, domainID, partitionVars, treeVars>>

Init ==
  /\ links \in Topologies
  /\ domainID \in Part \cup {-1}
  /\ PartitionInit
  /\ TreeInit

Divides == PartitionNext /\ UNCHANGED <<links, domainID, treeVars>>

\* The nodes that the SpanningTree selects.
selectFunction == IF domainID = -1 THEN Node ELSE sets[domainID]

BuildsTree ==
  /\ phase = "done"
  /\ extract(selectFunction) \/ ScanNext
  /\ UNCHANGED <<links, domainID, partitionVars>>

Next == Divides \/ BuildsTree

Spec == Init /\ [][Next]_vars

\* Each initialize() runs to its end without waiting for anything.
FairSpec == Spec /\ WF_vars(Next)

-----------------------------------------------------------------------------
TypeOK ==
  /\ links \in Topologies
  /\ domainID \in Part \cup {-1}
  /\ PartitionTypeOK
  /\ TreeTypeOK

\* Initialization comes to an end: the search for seeds, which may pass the
\* end of its list, and the division do, unless an undefined value is used.
DivisionComesToAnEnd == <>(phase \in {"done", "undefined"})
=============================================================================
