---------------------------- MODULE SpanningTree ----------------------------
(***************************************************************************)
(* utility/SpanningTree.cc: the ports over which a switch does not flood.  *)
(* The nodes are scanned in passes; a node in the tree is processed when   *)
(* the scan comes to it.  The scan ends after a pass that finds every node *)
(* processed.                                                              *)
(***************************************************************************)
EXTENDS CTopology

CONSTANT StartNode       \* the NED parameter startNode

ASSUME StartNodeAssumption == StartNode \in Nat

VARIABLES nodes,         \* the nodes of topo_spanntree, none before initialize
          isInTree,
          isProcessed,
          treeNeighbors, \* treeNeighbors[x]: the node that brought x in
          ports,         \* ports[n]: the ports to disable
          counter,       \* processed nodes met in this pass
          i,             \* the index of the next node of this pass
          done           \* disablePorts has been called for every node

nodeInfo == <<isInTree, isProcessed, treeNeighbors, ports>>
treeVars == <<nodes, nodeInfo, counter, i, done>>

TreeInit ==
  /\ nodes = {}
  /\ isInTree = [n \in Node |-> FALSE]
  /\ isProcessed = [n \in Node |-> FALSE]
  /\ treeNeighbors = [n \in Node |-> {}]
  /\ ports = [n \in Node |-> {}]
  /\ counter = 0
  /\ i = 0
  /\ done = FALSE

numNodes == Cardinality(nodes)

\* The node with index k among those of X.
NodeAt(X, k) == CHOOSE n \in X : Cardinality({m \in X : m < n}) = k

\* The topology consists of the nodes of X.  A start node that does not exist
\* is replaced by a random one.  A topology without nodes, in which there is
\* none to draw, is left out.
extract(X) ==
  /\ nodes = {}
  /\ X # {}
  /\ nodes' = X
  /\ \E start \in IF StartNode < Cardinality(X) THEN {NodeAt(X, StartNode)}
                   ELSE X :
       isInTree' = [n \in Node |-> n = start]
  /\ UNCHANGED <<isProcessed, treeNeighbors, ports, counter, i, done>>

\* Mutants of Disabled: the link to the parent is disabled too, or only links
\* to nodes that have been processed are.
DisabledParent(n) ==
  UNION {PortsTo(n, x) : x \in {y \in nodes : isInTree[y]}}

DisabledProcessed(n) ==
  UNION {PortsTo(n, x) :
           x \in {y \in nodes : isProcessed[y] /\ y \notin treeNeighbors[n]}}

\* The ports of n that are disabled: those to nodes in the tree, except the
\* node that brought n in, and all but the first to a node that n brings in.
Disabled(n) ==
  {p \in Port : \E x \in nodes :
     /\ p \in PortsTo(n, x)
     /\ IF isInTree[x] THEN x \notin treeNeighbors[n]
        ELSE \E first \in PortsTo(n, x) : first < p}

\* Node n brings its neighbours into the tree.
process(n) ==
  LET new == {x \in nodes : ~isInTree[x] /\ PortsTo(n, x) # {}}
  IN  /\ isInTree' = [x \in Node |-> isInTree[x] \/ x \in new]
      /\ isProcessed' = [isProcessed EXCEPT ![n] = TRUE]
      /\ treeNeighbors' = [x \in Node |-> IF x \in new THEN {n}
                                          ELSE treeNeighbors[x]]
      /\ ports' = [ports EXCEPT ![n] = Disabled(n)]

Scans == nodes # {} /\ ~done

\* Mutant of Visit: a node counts in the pass in which it is processed.
VisitCountsNew ==
  /\ Scans
  /\ i < numNodes
  /\ LET n == NodeAt(nodes, i)
         now == isInTree[n] /\ ~isProcessed[n]
     IN  /\ counter' = IF now THEN counter + 1 ELSE counter
         /\ IF now THEN process(n) ELSE UNCHANGED nodeInfo
  /\ i' = i + 1
  /\ UNCHANGED <<nodes, done>>

\* The scan comes to a node, which counts if it was processed before.
Visit ==
  /\ Scans
  /\ i < numNodes
  /\ LET n == NodeAt(nodes, i)
     IN  /\ counter' = IF isProcessed[n] THEN counter + 1 ELSE counter
         /\ IF isInTree[n] /\ ~isProcessed[n] THEN process(n)
            ELSE UNCHANGED nodeInfo
  /\ i' = i + 1
  /\ UNCHANGED <<nodes, done>>

NextPass ==
  /\ Scans
  /\ i = numNodes
  /\ counter # numNodes
  /\ counter' = 0
  /\ i' = 0
  /\ UNCHANGED <<nodes, nodeInfo, done>>

disablePorts ==
  /\ Scans
  /\ i = numNodes
  /\ counter = numNodes
  /\ done' = TRUE
  /\ UNCHANGED <<nodes, nodeInfo, counter, i>>

ScanNext == Visit \/ NextPass \/ disablePorts

-----------------------------------------------------------------------------
TreeTypeOK ==
  /\ nodes \subseteq Node
  /\ isInTree \in [Node -> BOOLEAN]
  /\ isProcessed \in [Node -> BOOLEAN]
  /\ treeNeighbors \in [Node -> SUBSET Node]
  /\ ports \in [Node -> SUBSET Port]
  /\ counter \in 0..N
  /\ i \in 0..N
  /\ done \in BOOLEAN

\* The links within the topology, and those of them over which the node at
\* their beginning floods.
Inner == {l \in links : l[1][1] \in nodes /\ l[2][1] \in nodes}

Open == {l \in Inner : l[1][2] \notin ports[l[1][1]]}

\* How a flooded frame travels: a switch sends it over every link it has not
\* disabled but the one it came on.  A frame is received on any port.
GoesOn(l, k) == l[2][1] = k[1][1] /\ l[2] # k[1]

\* No two links connect the same two nodes.
Simple == \A n, x \in nodes : Cardinality(PortsTo(n, x)) <= 1

\* The purpose of the module: a flooded frame cannot travel for ever.  Of any
\* open links there is one after which it goes on over none of the others.  The
\* two ends of a link are disabled by two nodes at different times, each from
\* what is in the tree then, and have to agree; of two links between the same
\* nodes the child disables none, so that these do make a loop.
NoPacketLoops ==
  done /\ Simple =>
    \A L \in SUBSET Open :
      L # {} => \E l \in L : \A k \in L : ~GoesOn(l, k)

\* No node is cut off from the floods of another, with parallel links or
\* without: no nodes keep what they flood from all the others.
EveryNodeReached ==
  done => \A X \in SUBSET nodes :
            X # {} /\ X # nodes =>
              \E l \in Open : l[1][1] \in X /\ l[2][1] \notin X

\* The nodes that are connected with s within the topology.
Near[n \in Nat, s \in Node] ==
  IF n = 0 THEN {s}
  ELSE LET R == Near[n - 1, s]
       IN  R \cup {l[2][1] : l \in {k \in Inner : k[1][1] \in R}}

Connected == \A s \in nodes : Near[N, s] = nodes

\* initialize() comes to an end if its nodes are connected.  Otherwise it does
\* not, since the loop waits for every node to be processed.
EndsIfConnected == (nodes # {} /\ Connected) ~> done
=============================================================================
