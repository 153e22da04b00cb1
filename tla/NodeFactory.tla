---------------------------- MODULE NodeFactory -----------------------------
(***************************************************************************)
(* factory/nodeFactory.cc: creates the products that the production lines  *)
(* have been asked for, one per line and timer event, and deletes a        *)
(* product when the server orders so.                                      *)
(***************************************************************************)
EXTENDS Integers, FiniteSets, Functions

Line == {0, 1}           \* qtde_lines = 2

VARIABLES m_demmand,     \* per line: products still to be created
          timeoutMsg,    \* whether the timer exists; it is then scheduled
          nextNodeId,    \* id of the next product
          nodes          \* the line of every product that exists, by id

factoryVars == <<m_demmand, timeoutMsg, nextNodeId, nodes>>

FactoryInit ==
  /\ m_demmand = [l \in Line |-> 0]
  /\ timeoutMsg = FALSE
  /\ nextNodeId = 0
  /\ nodes = << >>

NodesOf(l) == {id \in DOMAIN nodes : nodes[id] = l}

\* The lines that get a product when the timer fires, and its id: line 0 is
\* served before line 1.
Demanded == {l \in Line : m_demmand[l] > 0}

NewId(l) == nextNodeId + Cardinality({k \in Demanded : k < l})

NewIds == {NewId(l) : l \in Demanded}

\* Mutant of createNodes: the timer stops with the demand of line 0.
createNodesForFirst ==
  /\ timeoutMsg
  /\ timeoutMsg' = (0 \in Demanded)
  /\ m_demmand' = [l \in Line |-> IF l \in Demanded THEN m_demmand[l] - 1
                                  ELSE m_demmand[l]]
  /\ nodes' = [id \in DOMAIN nodes \cup NewIds |->
                 IF id \in NewIds
                 THEN CHOOSE l \in Demanded : NewId(l) = id
                 ELSE nodes[id]]
  /\ nextNodeId' = nextNodeId + Cardinality(Demanded)

\* The timer fires: one product for each line that lacks some; when none
\* does, the timer is deleted.
createNodes ==
  /\ timeoutMsg
  /\ timeoutMsg' = (Demanded # {})
  /\ m_demmand' = [l \in Line |-> IF l \in Demanded THEN m_demmand[l] - 1
                                  ELSE m_demmand[l]]
  /\ nodes' = [id \in DOMAIN nodes \cup NewIds |->
                 IF id \in NewIds
                 THEN CHOOSE l \in Demanded : NewId(l) = id
                 ELSE nodes[id]]
  /\ nextNodeId' = nextNodeId + Cardinality(Demanded)

\* Mutant of deleteNode: the product stays in the map.
deleteNodeKeepsId(id) == UNCHANGED factoryVars

\* Called by the server, which makes sure that id exists.
deleteNode(id) ==
  /\ nodes' = Restrict(nodes, DOMAIN nodes \ {id})
  /\ UNCHANGED <<m_demmand, timeoutMsg, nextNodeId>>

setDemand(demmand, l) ==
  /\ m_demmand' = [m_demmand EXCEPT ![l] = @ + demmand]
  /\ timeoutMsg' = TRUE
  /\ UNCHANGED <<nextNodeId, nodes>>
=============================================================================
