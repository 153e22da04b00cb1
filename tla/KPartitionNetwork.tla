-------------------------- MODULE KPartitionNetwork --------------------------
(***************************************************************************)
(* utility/kPartitionNetwork.cc: the network is divided into domains.      *)
(* Some nodes are chosen as seeds; then, until all nodes are assigned, the *)
(* node and the domain with the fewest links to other domains, less those  *)
(* within, are taken next.                                                 *)
(***************************************************************************)
EXTENDS CTopology, FiniteSetsExt

CONSTANTS numPartitions,
          Modes          \* how the seeds may be chosen

Part == 0..(numPartitions - 1)
ListEnd == N             \* remainingVerts.end()

ASSUME NumPartitionsAssumption == numPartitions \in 1..N
ASSUME ModesAssumption ==
  Modes \subseteq {"oneRandomNode", "preferStubs", "random"}

VARIABLES mode,
          phase,         \* "seed", "grow", "done", or "undefined" once a
                         \* value has been used that was never set
          index,         \* the domain that gets the next seed
          it,            \* the iterator over remainingVerts of preferStubs
          remainingVerts,
          sets           \* sets[p]: the nodes of domain p, by their domainID

partitionVars == <<mode, phase, index, it, remainingVerts, sets>>

PartitionInit ==
  /\ mode \in Modes
  /\ phase = "seed"
  /\ index = 0
  /\ it = 0
  /\ remainingVerts = Node
  /\ sets = [p \in Part |-> {}]

Assign(v, p) ==
  /\ sets' = [sets EXCEPT ![p] = @ \cup {v}]
  /\ remainingVerts' = remainingVerts \ {v}

-----------------------------------------------------------------------------
(* The seeds.                                                              *)

\* One node for the first domain.
SeedOneNode ==
  /\ phase = "seed"
  /\ mode = "oneRandomNode"
  /\ \E v \in remainingVerts : Assign(v, 0)
  /\ phase' = "grow"
  /\ UNCHANGED <<mode, index, it>>

\* A random node for each domain.
SeedRandomNode ==
  /\ phase = "seed"
  /\ mode = "random"
  /\ index < numPartitions
  /\ \E v \in remainingVerts : Assign(v, index)
  /\ index' = index + 1
  /\ UNCHANGED <<mode, phase, it>>

\* Mutant of After: the iterator stays.
AfterSame(R, v) == LET rest == {x \in R : x >= v}
                   IN  IF rest = {} THEN ListEnd ELSE Min(rest)

\* The node after position v in the list R, or its end.
After(R, v) == LET rest == {x \in R : x > v}
               IN  IF rest = {} THEN ListEnd ELSE Min(rest)

\* it++ past the end of a std::list comes to its first element again.
Advance(R, v) == IF v = ListEnd THEN After(R, -1) ELSE After(R, v)

NumOutLinks(v) == NumLinks(v, Node)

\* Mutant of SeedStub: the seed stays in the list.
SeedStubStays ==
  /\ phase = "seed"
  /\ mode = "preferStubs"
  /\ it # ListEnd
  /\ index < numPartitions
  /\ NumOutLinks(it) = 1
  /\ sets' = [sets EXCEPT ![index] = @ \cup {it}]
  /\ index' = index + 1
  /\ it' = Advance(remainingVerts, it)
  /\ UNCHANGED <<mode, phase, remainingVerts>>

\* A node with one link is the seed of the next domain.  erase returns the
\* node after it, which it++ then skips.
SeedStub ==
  /\ phase = "seed"
  /\ mode = "preferStubs"
  /\ it # ListEnd
  /\ index < numPartitions
  /\ NumOutLinks(it) = 1
  /\ Assign(it, index)
  /\ index' = index + 1
  /\ it' = Advance(remainingVerts', After(remainingVerts', it))
  /\ UNCHANGED <<mode, phase>>

SkipNoStub ==
  /\ phase = "seed"
  /\ mode = "preferStubs"
  /\ it # ListEnd
  /\ index < numPartitions
  /\ NumOutLinks(it) # 1
  /\ it' = Advance(remainingVerts, it)
  /\ UNCHANGED <<mode, phase, index, remainingVerts, sets>>

SeedsEnd ==
  /\ phase = "seed"
  /\ index = numPartitions \/ (mode = "preferStubs" /\ it = ListEnd)
  /\ phase' = "grow"
  /\ index' = 0
  /\ UNCHANGED <<mode, it, remainingVerts, sets>>

-----------------------------------------------------------------------------
(* The domains grow.                                                       *)

\* The links of v to domain p.
calcN(v, p) == NumLinks(v, sets[p])

\* The links of v to the other domains, less those to p.
calcDiff(v, p) ==
  NumLinks(v, UNION {sets[j] : j \in Part \ {p}}) - calcN(v, p)

\* Mutant of Candidates: the least value so far begins one too low.
CandidatesBelow(p) ==
  {v \in remainingVerts : calcDiff(v, p) < numPartitions - 1}

\* The nodes for p: a node counts only if its value is below
\* numPartitions.
Candidates(p) == {v \in remainingVerts : calcDiff(v, p) < numPartitions}

\* The best of them: with the least value, of those with the most links to p,
\* and of those the first.
findNextVert(p) ==
  CHOOSE v \in Candidates(p) : \A w \in Candidates(p) :
    \/ calcDiff(v, p) < calcDiff(w, p)
    \/ /\ calcDiff(v, p) = calcDiff(w, p)
       /\ \/ calcN(v, p) > calcN(w, p)
          \/ calcN(v, p) = calcN(w, p) /\ v <= w

\* The least value for p, which findNextVert returns with the node.
minimum(p) == Min({calcDiff(v, p) : v \in Candidates(p)})

average == (N + numPartitions - 1) \div numPartitions

\* The domains that are not full and for which there is a node.
Eligible ==
  {p \in Part : Candidates(p) # {} /\ Cardinality(sets[p]) < average}

\* The first domain with the least value.
findNextSubset ==
  CHOOSE p \in Eligible :
    \A q \in Eligible :
      minimum(p) < minimum(q) \/ (minimum(p) = minimum(q) /\ p <= q)

Grow ==
  /\ phase = "grow"
  /\ Eligible # {}
  /\ \E subset \in {findNextSubset} :
       \E node \in {findNextVert(subset)} : Assign(node, subset)
  /\ UNCHANGED <<mode, phase, index, it>>

\* findNextSubset returns what it has never set.
GrowUndefined ==
  /\ phase = "grow"
  /\ remainingVerts # {}
  /\ Eligible = {}
  /\ phase' = "undefined"
  /\ UNCHANGED <<mode, index, it, remainingVerts, sets>>

DivisionEnds ==
  /\ phase = "grow"
  /\ remainingVerts = {}
  /\ phase' = "done"
  /\ UNCHANGED <<mode, index, it, remainingVerts, sets>>

PartitionNext ==
  \/ SeedOneNode
  \/ SeedRandomNode
  \/ SeedStub
  \/ SkipNoStub
  \/ SeedsEnd
  \/ Grow
  \/ GrowUndefined
  \/ DivisionEnds

-----------------------------------------------------------------------------
PartitionTypeOK ==
  /\ mode \in Modes
  /\ phase \in {"seed", "grow", "done", "undefined"}
  /\ index \in 0..numPartitions
  /\ it \in Node \cup {ListEnd}
  /\ mode = "preferStubs" /\ phase = "seed" /\ index < numPartitions =>
       it \in remainingVerts \cup {ListEnd}
  /\ remainingVerts \subseteq Node
  /\ sets \in [Part -> SUBSET Node]

\* The domains are a division of the nodes that have been assigned: a node is
\* in one domain, the one whose number is its domainID, and no domain gets
\* more than its share of the nodes, rounded up.
NodesDivided ==
  /\ UNION {sets[p] : p \in Part} = Node \ remainingVerts
  /\ \A p, q \in Part : p # q => sets[p] \cap sets[q] = {}
  /\ \A p \in Part : Cardinality(sets[p]) <= average

\* The uninitialized values are used only when each node that remains has as
\* many links as there are domains: a network of sparse nodes is divided.
UndefinedOnlyIfDense ==
  phase = "undefined" =>
    \A v \in remainingVerts : NumOutLinks(v) >= numPartitions
=============================================================================
