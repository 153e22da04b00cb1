------------------------- MODULE DomainSetup_proofs -------------------------
(***************************************************************************)
(* Proofs about the setup of a network: the nodes are divided among the    *)
(* domains, and the ports that SpanningTree leaves open make a tree, in    *)
(* every network of any number of nodes.                                   *)
(***************************************************************************)
EXTENDS DomainSetup, FiniteSetTheorems, WellFoundedInduction, TLAPS

(* Least elements.                                                         *)

\* A nonempty set of integers that is bounded below has a least element.
LEMMA LeastExists ==
  ASSUME NEW S \in SUBSET Int, S # {}, NEW b \in Int, \A x \in S : b <= x
  PROVE  \E x \in S : \A y \in S : x <= y
<1> DEFINE less == {ij \in Nat \X Nat : ij[1] < ij[2]}
           T == {x \in Nat : x + b \in S}
<1>1. IsWellFoundedOn(less, Nat)
  BY NatLessThanWellFounded DEF OpToRel
<1>2. \A x \in S : x - b \in T
  <2>1. SUFFICES ASSUME NEW x \in S PROVE x - b \in Nat /\ (x - b) + b = x
    OBVIOUS
  <2>2. x \in Int /\ b <= x
    OBVIOUS
  <2> QED BY <2>2
<1>3. T \subseteq Nat /\ T # {}
  BY <1>2
<1>4. PICK k \in T : \A j \in T : <<j, k>> \notin less
  <2> HIDE DEF less, T
  <2> QED BY <1>1, <1>3, WFMin
<1>5. k + b \in S
  OBVIOUS
<1>6. ASSUME NEW y \in S PROVE k + b <= y
  <2>1. y - b \in T /\ y - b \in Nat /\ k \in Nat /\ y \in Int
    BY <1>2
  <2>2. ~(y - b < k)
    BY <1>4, <2>1
  <2> QED BY <2>1, <2>2
<1> QED BY <1>5, <1>6

\* Min finds the least element.
LEMMA MinIsLeast ==
  ASSUME NEW S \in SUBSET Int, S # {}, NEW b \in Int, \A x \in S : b <= x
  PROVE  Min(S) \in S /\ \A y \in S : Min(S) <= y
<1>1. \E x \in S : \A y \in S : x <= y
  BY LeastExists
<1> QED BY <1>1 DEF Min

-----------------------------------------------------------------------------
(* The networks.                                                           *)

\* The nodes are finitely many.
LEMMA NodesFinite ==
  IsFiniteSet(Node) /\ Cardinality(Node) = N /\ Node \subseteq Nat
<1>1. N \in Nat \ {0}
  BY NAssumption
<1>2. /\ IsFiniteSet(0..(N - 1))
      /\ Cardinality(0..(N - 1)) = IF 0 > N - 1 THEN 0 ELSE (N - 1) - 0 + 1
  BY <1>1, FS_Interval
<1> QED BY <1>1, <1>2 DEF Node

\* Sets of nodes have least elements.
LEMMA NodesBounded ==
  Node \in SUBSET Int /\ \A n \in Node : 0 <= n
<1>1. N \in Nat
  BY NAssumption
<1> QED BY <1>1 DEF Node

LEMMA FirstNode ==
  ASSUME NEW X \in SUBSET Node, X # {}
  PROVE  \E n \in X : \A m \in X : n <= m
<1>1. X \in SUBSET Int
  BY NodesBounded
<1>2. 0 \in Int /\ \A n \in X : 0 <= n
  BY NodesBounded
<1> QED BY <1>1, <1>2, LeastExists, Zenon

\* A network has finitely many links.
LEMMA LinksFinite ==
  ASSUME NEW T \in Topologies
  PROVE  IsFiniteSet(T)
<1>1. IsTopology(T) /\ IsFiniteSet(Port)
  BY TopologiesAssumption, PortAssumption
<1>2. IsFiniteSet(End)
  BY <1>1, NodesFinite, FS_Product DEF End
<1>3. IsFiniteSet(End \X End)
  BY <1>2, FS_Product
<1> QED BY <1>1, <1>3, FS_Subset DEF IsTopology

\* The number of links to a set of nodes is a number, and no larger than to
\* more nodes.
LEMMA NumLinksType ==
  ASSUME links \in Topologies, NEW v, NEW X
  PROVE  NumLinks(v, X) \in Nat /\ NumLinks(v, X) <= Cardinality(links)
<1> DEFINE A == {l \in links : l[1][1] = v /\ l[2][1] \in X}
<1>1. IsFiniteSet(links)
  BY LinksFinite
<1>2. IsFiniteSet(A) /\ Cardinality(A) <= Cardinality(links)
  BY <1>1, FS_Subset
<1>3. Cardinality(A) \in Nat
  BY <1>2, FS_CardinalityType
<1> QED BY <1>2, <1>3 DEF NumLinks

LEMMA NumLinksMonotone ==
  ASSUME links \in Topologies, NEW v, NEW Y, NEW X \in SUBSET Y
  PROVE  NumLinks(v, X) <= NumLinks(v, Y)
<1> DEFINE A == {l \in links : l[1][1] = v /\ l[2][1] \in X}
           B == {l \in links : l[1][1] = v /\ l[2][1] \in Y}
<1>1. IsFiniteSet(links)
  BY LinksFinite
<1>2. IsFiniteSet(B)
  BY <1>1, FS_Subset
<1>3. A \subseteq B
  OBVIOUS
<1>4. Cardinality(A) <= Cardinality(B)
  BY <1>2, <1>3, FS_Subset
<1> QED BY <1>4 DEF NumLinks

-----------------------------------------------------------------------------
(* The operators of the division.                                          *)

\* The node after a position in the list is in the list, or its end.
LEMMA AfterInList ==
  ASSUME NEW R \in SUBSET Node, NEW v
  PROVE  After(R, v) \in R \cup {ListEnd}
<1> DEFINE rest == {x \in R : x > v}
<1>1. CASE rest = {}
  BY <1>1 DEF After
<1>2. CASE rest # {}
  <2>1. rest \in SUBSET Node
    OBVIOUS
  <2>2. Min(rest) \in rest
    <3> HIDE DEF rest
    <3> QED BY <1>2, <2>1, FirstNode DEF Min
  <2> QED BY <1>2, <2>2 DEF After
<1> QED BY <1>1, <1>2

LEMMA AdvanceInList ==
  ASSUME NEW R \in SUBSET Node, NEW v
  PROVE  Advance(R, v) \in R \cup {ListEnd}
BY AfterInList DEF Advance

\* The least value of a domain is a number, and a node is found for it.
LEMMA NextVertFound ==
  ASSUME links \in Topologies, remainingVerts \subseteq Node,
         NEW p, Candidates(p) # {}
  PROVE  /\ findNextVert(p) \in Candidates(p)
         /\ minimum(p) \in Int
         /\ -Cardinality(links) <= minimum(p)
<1> DEFINE C == Candidates(p)
           D == {calcDiff(v, p) : v \in C}
           n == Cardinality(links)
<1>1. n \in Nat
  BY LinksFinite, FS_CardinalityType
<1>2. \A v : calcN(v, p) \in Nat /\ calcN(v, p) <= n
  BY NumLinksType DEF calcN
<1>3. \A v : calcDiff(v, p) \in Int /\ -n <= calcDiff(v, p)
  <2>1. TAKE v
  <2>2. NumLinks(v, UNION {sets[j] : j \in Part \ {p}}) \in Nat
    BY NumLinksType
  <2> QED BY <1>1, <1>2, <2>2 DEF calcDiff
<1>4. C \subseteq Node /\ C # {}
  BY DEF Candidates
<1>5. Min(D) \in D /\ \A d \in D : Min(D) <= d
  <2>1. D \in SUBSET Int /\ D # {} /\ -n \in Int /\ \A d \in D : -n <= d
    BY <1>1, <1>3, <1>4
  <2> HIDE DEF D, n
  <2> QED BY <2>1, MinIsLeast
\* Of the nodes with the least value, those with the most links to p; of these
\* the first.
<1> DEFINE C1 == {v \in C : calcDiff(v, p) = Min(D)}
           K == {n - calcN(v, p) : v \in C1}
<1>6. PICK k \in K : \A d \in K : k <= d
  <2>1. C1 # {}
    BY <1>5
  <2>2. K \in SUBSET Int /\ K # {} /\ \A d \in K : 0 <= d
    <3> HIDE DEF n, C1
    <3> QED BY <1>1, <1>2, <2>1
  <2> HIDE DEF K
  <2> QED BY <2>2, LeastExists
<1> DEFINE C2 == {v \in C1 : n - calcN(v, p) = k}
<1>7. PICK v \in C2 : \A w \in C2 : v <= w
  <2>1. C2 # {}
    BY <1>6
  <2>2. C2 \in SUBSET Node
    BY <1>4
  <2> HIDE DEF C2
  <2> QED BY <2>1, <2>2, FirstNode
<1>8. v \in C
  OBVIOUS
<1>9. ASSUME NEW w \in C
      PROVE  \/ calcDiff(v, p) < calcDiff(w, p)
             \/ /\ calcDiff(v, p) = calcDiff(w, p)
                /\ \/ calcN(v, p) > calcN(w, p)
                   \/ calcN(v, p) = calcN(w, p) /\ v <= w
  <2>1. calcDiff(v, p) = Min(D) /\ n - calcN(v, p) = k
    OBVIOUS
  <2>2. calcDiff(w, p) \in D
    OBVIOUS
  <2>3. Min(D) <= calcDiff(w, p)
    BY <1>5, <2>2
  <2>4. CASE calcDiff(w, p) # Min(D)
    <3> HIDE DEF D, n
    <3> QED BY <1>3, <2>1, <2>3, <2>4
  <2>5. CASE calcDiff(w, p) = Min(D)
    <3>1. w \in C1
      BY <2>5
    <3>2. k <= n - calcN(w, p)
      BY <1>6, <3>1
    <3>3. n - calcN(w, p) = k => v <= w
      BY <1>7, <3>1
    <3> HIDE DEF D, n
    <3> QED BY <1>1, <1>2, <2>1, <2>5, <3>2, <3>3
  <2> QED BY <2>4, <2>5
<1>10. findNextVert(p) \in C
  <2> HIDE DEF C2, C1, K, D, n
  <2> QED BY <1>8, <1>9 DEF findNextVert
<1>11. minimum(p) \in Int /\ -n <= minimum(p)
  BY <1>3, <1>5 DEF minimum
<1> QED BY <1>10, <1>11

\* The domain that gets the next node is one that may get one.
LEMMA NextSubsetFound ==
  ASSUME links \in Topologies, remainingVerts \subseteq Node, Eligible # {}
  PROVE  findNextSubset \in Eligible
<1> DEFINE M == {minimum(p) : p \in Eligible}
<1>1. Eligible \subseteq Nat
  BY NumPartitionsAssumption, NAssumption DEF Eligible, Part
<1>2. \A p \in Eligible : minimum(p) \in Int
  BY NextVertFound DEF Eligible
<1> DEFINE n == Cardinality(links)
<1>3. n \in Nat /\ \A p \in Eligible : -n <= minimum(p)
  BY LinksFinite, FS_CardinalityType, NextVertFound DEF Eligible
<1>4. PICK m \in M : \A d \in M : m <= d
  <2>1. M \in SUBSET Int /\ M # {} /\ -n \in Int /\ \A d \in M : -n <= d
    BY <1>2, <1>3
  <2> HIDE DEF M, n
  <2> QED BY <2>1, LeastExists
<1> DEFINE E == {p \in Eligible : minimum(p) = m}
<1>5. PICK p \in E : \A q \in E : p <= q
  <2>1. E # {}
    BY <1>4
  <2>2. E \in SUBSET Int /\ \A q \in E : 0 <= q
    BY <1>1
  <2> HIDE DEF E
  <2> QED BY <2>1, <2>2, LeastExists
<1>6. ASSUME NEW q \in Eligible
      PROVE  minimum(p) < minimum(q) \/ (minimum(p) = minimum(q) /\ p <= q)
  <2>1. minimum(p) = m /\ m <= minimum(q)
    BY <1>4
  <2>2. minimum(q) = m => p <= q
    BY <1>5
  <2>3. minimum(p) \in Int /\ minimum(q) \in Int
    BY <1>2
  <2> QED BY <2>1, <2>2, <2>3
<1> QED BY <1>5, <1>6 DEF findNextSubset

\* A domain has room for a node.
LEMMA AverageType == average \in Nat \ {0} /\ numPartitions * average >= N
<1>1. N \in Nat \ {0} /\ numPartitions \in Nat \ {0}
  BY NAssumption, NumPartitionsAssumption
<1> DEFINE x == N + numPartitions - 1
           q == x \div numPartitions
           r == x % numPartitions
<1>2. q \in Int /\ r \in 0..(numPartitions - 1) /\ x = numPartitions * q + r
  BY <1>1
<1>3. numPartitions * q >= N
  BY <1>1, <1>2
<1>4. q > 0
  <2> HIDE DEF q, x, r
  <2> QED BY <1>1, <1>2, <1>3
<1> QED BY <1>2, <1>3, <1>4 DEF average

-----------------------------------------------------------------------------
(* The division of the nodes.                                              *)

\* While seeds are chosen, the domains from index on are empty, so that a seed
\* does not go beyond what a domain may have.
SeedsNext ==
  /\ phase = "seed" => \A p \in Part : p >= index => sets[p] = {}
  /\ phase = "seed" /\ mode = "oneRandomNode" => index = 0

PartitionInv ==
  /\ PartitionTypeOK
  /\ SeedsNext
  /\ NodesDivided
  /\ UndefinedOnlyIfDense

\* If all domains are full, all nodes are in a domain: the domains have room
\* for them.  What the first k domains hold grows by the average with each.
LEMMA FullDomainsHoldAll ==
  ASSUME PartitionTypeOK, NodesDivided,
         \A p \in Part : Cardinality(sets[p]) >= average
  PROVE  remainingVerts = {}
<1> DEFINE U(k) == UNION {sets[p] : p \in 0..(k - 1)}
           bad == {k \in 0..numPartitions : Cardinality(U(k)) < k * average}
<1>1. /\ N \in Nat \ {0} /\ numPartitions \in Nat \ {0}
      /\ average \in Nat \ {0} /\ numPartitions * average >= N
      /\ Part = 0..(numPartitions - 1)
  BY AverageType, NAssumption, NumPartitionsAssumption DEF Part
<1>2. \A p \in Part : sets[p] \in SUBSET Node
  BY DEF PartitionTypeOK
<1>3. \A k \in 0..numPartitions :
        U(k) \in SUBSET Node /\ IsFiniteSet(U(k)) /\ Cardinality(U(k)) \in Nat
  <2>1. TAKE k \in 0..numPartitions
  <2>2. 0..(k - 1) \subseteq Part
    BY <1>1
  <2>3. U(k) \in SUBSET Node
    BY <1>2, <2>2
  <2> HIDE DEF U
  <2> QED BY <2>3, NodesFinite, FS_Subset, FS_CardinalityType
<1>4. bad = {}
  <2>1. SUFFICES ASSUME bad # {} PROVE FALSE
    OBVIOUS
  <2>2. bad \in SUBSET Int /\ 0 \in Int /\ \A k \in bad : 0 <= k
    BY <1>1
  <2>3. PICK k \in bad : \A j \in bad : k <= j
    <3> HIDE DEF bad
    <3> QED BY <2>1, <2>2, LeastExists, Zenon
  <2>4. k \in 0..numPartitions /\ Cardinality(U(k)) < k * average
    OBVIOUS
  <2>5. k # 0
    <3>1. U(0) = {}
      OBVIOUS
    <3>2. Cardinality(U(0)) = 0
      BY <3>1, FS_EmptySet
    <3> HIDE DEF U
    <3> QED BY <1>1, <2>4, <3>2
  <2> DEFINE j == k - 1
  <2>6. j \in 0..numPartitions /\ j \in Part /\ k = j + 1 /\ j < k
    BY <1>1, <2>4, <2>5
  <2>7. Cardinality(U(j)) >= j * average
    <3>1. j \notin bad
      <4> HIDE DEF bad
      <4> QED BY <1>1, <2>3, <2>4, <2>6
    <3>2. Cardinality(U(j)) \in Nat
      BY <1>3, <2>6
    <3>3. ~(Cardinality(U(j)) < j * average)
      BY <2>6, <3>1
    <3>4. j * average \in Int
      BY <1>1, <2>6
    <3> HIDE DEF U, j, bad
    <3> QED BY <3>2, <3>3, <3>4
  <2>8. U(k) = U(j) \cup sets[j]
    <3>1. 0..(k - 1) = 0..(j - 1) \cup {j}
      BY <2>4, <2>5
    <3> QED BY <3>1
  <2>9. U(j) \cap sets[j] = {}
    <3>1. \A p \in 0..(j - 1) : p \in Part /\ p # j
      BY <1>1, <2>6
    <3> QED BY <2>6, <3>1 DEF NodesDivided
  <2>10. /\ IsFiniteSet(sets[j])
         /\ Cardinality(sets[j]) \in Nat
         /\ Cardinality(sets[j]) >= average
    BY <1>2, <2>6, NodesFinite, FS_Subset, FS_CardinalityType
  <2>11. Cardinality(U(k)) = Cardinality(U(j)) + Cardinality(sets[j])
    <3>1. IsFiniteSet(U(j)) /\ Cardinality(U(j)) \in Nat
      BY <1>3, <2>6
    <3>2. Cardinality(U(j) \cap sets[j]) = 0
      BY <2>9, FS_EmptySet
    <3> HIDE DEF U, j
    <3>3. Cardinality(U(j) \cup sets[j])
            = Cardinality(U(j)) + Cardinality(sets[j])
                - Cardinality(U(j) \cap sets[j])
      BY <2>10, <3>1, FS_Union
    <3> QED BY <2>8, <2>10, <3>1, <3>2, <3>3
  <2>12. k * average = j * average + average
    <3> HIDE DEF bad, U
    <3> QED BY <1>1, <2>4
  <2>13. Cardinality(U(j)) \in Nat
    BY <1>3, <2>6
  <2>14. j * average \in Int
    BY <1>1, <2>6
  <2> HIDE DEF U, bad, j
  <2> QED BY <1>1, <2>4, <2>7, <2>10, <2>11, <2>12, <2>13, <2>14
<1>5. Cardinality(U(numPartitions)) >= N
  <2>1. numPartitions \in 0..numPartitions /\ numPartitions * average \in Nat
    BY <1>1
  <2>2. ~(Cardinality(U(numPartitions)) < numPartitions * average)
    BY <1>4, <2>1
  <2>3. Cardinality(U(numPartitions)) \in Nat
    BY <1>3, <2>1
  <2> HIDE DEF U, bad
  <2> QED BY <1>1, <2>1, <2>2, <2>3
<1>6. U(numPartitions) = Node \ remainingVerts
  BY <1>1 DEF NodesDivided
<1>7. IsFiniteSet(Node) /\ Cardinality(Node) = N
  BY NodesFinite
<1>8. U(numPartitions) = Node
  <2>1. U(numPartitions) \in SUBSET Node
    BY <1>6
  <2>2. /\ Cardinality(U(numPartitions)) <= Cardinality(Node)
        /\ Cardinality(U(numPartitions)) \in Nat
        /\ Cardinality(Node) = Cardinality(U(numPartitions))
             => Node = U(numPartitions)
    <3> HIDE DEF U
    <3> QED BY <1>7, <2>1, FS_Subset, FS_CardinalityType
  <2> HIDE DEF U
  <2> QED BY <1>1, <1>5, <1>7, <2>2
<1> QED BY <1>6, <1>8 DEF PartitionTypeOK

\* A node that is assigned to a domain with room for it is in this domain only.
LEMMA AssignDivides ==
  ASSUME PartitionTypeOK, NodesDivided,
         NEW v \in remainingVerts, NEW p \in Part,
         Cardinality(sets[p]) < average, Assign(v, p)
  PROVE  /\ sets' \in [Part -> SUBSET Node]
         /\ remainingVerts' \subseteq Node
         /\ NodesDivided'
<1>1. sets \in [Part -> SUBSET Node] /\ v \in Node
  BY DEF PartitionTypeOK
<1>2. sets' \in [Part -> SUBSET Node] /\ remainingVerts' \subseteq Node
  BY <1>1 DEF Assign, PartitionTypeOK
<1>3. /\ \A q \in Part : sets'[q] = IF q = p THEN sets[p] \cup {v} ELSE sets[q]
      /\ remainingVerts' = remainingVerts \ {v}
  BY <1>1 DEF Assign
<1>4. \A q \in Part : v \notin sets[q]
  BY DEF NodesDivided
<1>5. UNION {sets'[q] : q \in Part} = Node \ remainingVerts'
  <2>1. UNION {sets'[q] : q \in Part} = (UNION {sets[q] : q \in Part}) \cup {v}
    BY <1>3
  <2> QED BY <1>1, <1>3, <2>1 DEF NodesDivided
<1>6. \A q, r \in Part : q # r => sets'[q] \cap sets'[r] = {}
  BY <1>3, <1>4 DEF NodesDivided
<1>7. \A q \in Part : Cardinality(sets'[q]) <= average
  <2>1. TAKE q \in Part
  <2>2. CASE q # p
    BY <1>3, <2>2 DEF NodesDivided
  <2>3. CASE q = p
    <3>1. IsFiniteSet(sets[p]) /\ Cardinality(sets[p]) \in Nat
      BY <1>1, NodesFinite, FS_Subset, FS_CardinalityType
    <3>2. Cardinality(sets[p] \cup {v}) = Cardinality(sets[p]) + 1
      BY <1>4, <3>1, FS_AddElement
    <3> QED BY <1>3, <2>3, <3>1, <3>2, AverageType
  <2> QED BY <2>2, <2>3
<1>8. average' = average
  BY DEF average
<1> QED BY <1>2, <1>5, <1>6, <1>7 DEF NodesDivided, average

LEMMA PartitionInitHolds ==
  ASSUME PartitionInit
  PROVE  PartitionInv
<1>1. N \in Nat \ {0} /\ numPartitions \in 1..N
  BY NAssumption, NumPartitionsAssumption
<1>2. PartitionTypeOK
  BY <1>1 DEF PartitionInit, PartitionTypeOK, Node, ListEnd
<1>3. SeedsNext
  BY <1>1 DEF PartitionInit, SeedsNext, Part
<1>4. NodesDivided
  <2>1. \A p \in Part : sets[p] = {}
    BY DEF PartitionInit
  <2>2. (UNION {sets[p] : p \in Part}) = {}
    BY <2>1
  <2>3. Node \ remainingVerts = {}
    BY DEF PartitionInit
  <2>4. \A p \in Part : Cardinality(sets[p]) <= average
    BY <2>1, FS_EmptySet, AverageType
  <2> QED BY <2>1, <2>2, <2>3, <2>4 DEF NodesDivided
<1>5. UndefinedOnlyIfDense
  BY DEF PartitionInit, UndefinedOnlyIfDense
<1> QED BY <1>2, <1>3, <1>4, <1>5 DEF PartitionInv

\* An empty domain has room for a seed.
LEMMA SeedHasRoom ==
  ASSUME PartitionInv, phase = "seed", NEW p \in Part, p >= index
  PROVE  Cardinality(sets[p]) < average
<1>1. sets[p] = {}
  BY DEF PartitionInv, SeedsNext
<1> QED BY <1>1, FS_EmptySet, AverageType

LEMMA SeedOneNodeKeeps ==
  ASSUME PartitionInv, SeedOneNode
  PROVE  PartitionInv'
<1>1. 0 \in Part /\ 0 >= index /\ phase = "seed" /\ phase' = "grow"
  BY NAssumption, NumPartitionsAssumption
     DEF SeedOneNode, PartitionInv, SeedsNext, Part
<1>2. PICK v \in remainingVerts : Assign(v, 0)
  BY DEF SeedOneNode
<1>3. /\ sets' \in [Part -> SUBSET Node]
      /\ remainingVerts' \subseteq Node
      /\ NodesDivided'
  BY <1>1, <1>2, SeedHasRoom, AssignDivides DEF PartitionInv
<1>4. PartitionTypeOK'
  BY <1>1, <1>3 DEF SeedOneNode, PartitionInv, PartitionTypeOK
<1> QED BY <1>1, <1>3, <1>4
        DEF PartitionInv, SeedsNext, UndefinedOnlyIfDense

LEMMA SeedRandomNodeKeeps ==
  ASSUME PartitionInv, SeedRandomNode
  PROVE  PartitionInv'
<1>1. /\ index \in Part /\ index \in Nat /\ index' = index + 1
      /\ phase = "seed" /\ phase' = "seed"
      /\ mode = "random" /\ mode' = "random"
      /\ index' \in 0..numPartitions
  BY NAssumption, NumPartitionsAssumption
     DEF SeedRandomNode, PartitionInv, PartitionTypeOK, Part
<1>2. PICK v \in remainingVerts : Assign(v, index)
  BY DEF SeedRandomNode
<1>3. /\ sets' \in [Part -> SUBSET Node]
      /\ remainingVerts' \subseteq Node
      /\ NodesDivided'
  BY <1>1, <1>2, SeedHasRoom, AssignDivides DEF PartitionInv
<1>4. PartitionTypeOK'
  BY <1>1, <1>3 DEF SeedRandomNode, PartitionInv, PartitionTypeOK
<1>5. SeedsNext'
  <2>1. ASSUME NEW p \in Part, p >= index' PROVE sets'[p] = {}
    <3>1. p \in Nat /\ p >= index /\ p # index
      BY <1>1, <2>1, NAssumption, NumPartitionsAssumption DEF Part
    <3>2. sets[p] = {}
      BY <1>1, <3>1 DEF PartitionInv, SeedsNext
    <3> QED BY <1>2, <3>1, <3>2 DEF Assign, PartitionInv, PartitionTypeOK
  <2> QED BY <1>1, <2>1 DEF SeedsNext
<1> QED BY <1>1, <1>3, <1>4, <1>5 DEF PartitionInv, UndefinedOnlyIfDense

LEMMA SeedStubKeeps ==
  ASSUME PartitionInv, SeedStub
  PROVE  PartitionInv'
<1>1. /\ index \in Part /\ index \in Nat /\ index' = index + 1
      /\ phase = "seed" /\ phase' = "seed"
      /\ mode = "preferStubs" /\ mode' = "preferStubs"
      /\ index' \in 0..numPartitions
      /\ index < numPartitions /\ it # ListEnd
  BY NAssumption, NumPartitionsAssumption
     DEF SeedStub, PartitionInv, PartitionTypeOK, Part
<1>2. it \in remainingVerts /\ Assign(it, index)
  BY <1>1 DEF SeedStub, PartitionInv, PartitionTypeOK
<1>3. /\ sets' \in [Part -> SUBSET Node]
      /\ remainingVerts' \subseteq Node
      /\ NodesDivided'
  BY <1>1, <1>2, SeedHasRoom, AssignDivides DEF PartitionInv
<1>4. it' \in remainingVerts' \cup {ListEnd}
  BY <1>3, AdvanceInList DEF SeedStub
<1>5. PartitionTypeOK'
  BY <1>1, <1>3, <1>4 DEF PartitionInv, PartitionTypeOK
<1>6. SeedsNext'
  <2>1. ASSUME NEW p \in Part, p >= index' PROVE sets'[p] = {}
    <3>1. p \in Nat /\ p >= index /\ p # index
      BY <1>1, <2>1, NAssumption, NumPartitionsAssumption DEF Part
    <3>2. sets[p] = {}
      BY <1>1, <3>1 DEF PartitionInv, SeedsNext
    <3> QED BY <1>2, <3>1, <3>2 DEF Assign, PartitionInv, PartitionTypeOK
  <2> QED BY <1>1, <2>1 DEF SeedsNext
<1> QED BY <1>1, <1>3, <1>5, <1>6 DEF PartitionInv, UndefinedOnlyIfDense

LEMMA SkipNoStubKeeps ==
  ASSUME PartitionInv, SkipNoStub
  PROVE  PartitionInv'
<1>1. remainingVerts \subseteq Node
  BY DEF PartitionInv, PartitionTypeOK
<1>2. it' \in remainingVerts \cup {ListEnd}
  BY <1>1, AdvanceInList DEF SkipNoStub
<1>3. PartitionTypeOK'
  BY <1>1, <1>2 DEF SkipNoStub, PartitionInv, PartitionTypeOK
<1>4. phase' # "undefined"
  BY DEF SkipNoStub
<1>5. NodesDivided'
  BY DEF SkipNoStub, PartitionInv, NodesDivided, average
<1> QED BY <1>3, <1>4, <1>5
        DEF SkipNoStub, PartitionInv, SeedsNext, UndefinedOnlyIfDense

LEMMA SeedsEndKeeps ==
  ASSUME PartitionInv, SeedsEnd
  PROVE  PartitionInv'
<1>1. phase' = "grow" /\ 0 \in 0..numPartitions
  BY NAssumption, NumPartitionsAssumption DEF SeedsEnd
<1>2. NodesDivided'
  BY DEF SeedsEnd, PartitionInv, NodesDivided, average
<1> QED BY <1>1, <1>2
        DEF SeedsEnd, PartitionInv, PartitionTypeOK, SeedsNext,
            UndefinedOnlyIfDense

LEMMA GrowKeeps ==
  ASSUME links \in Topologies, PartitionInv, Grow
  PROVE  PartitionInv'
<1>1. phase = "grow" /\ phase' = "grow" /\ remainingVerts \subseteq Node
  BY DEF Grow, PartitionInv, PartitionTypeOK
<1>2. PICK p \in Eligible : Assign(findNextVert(p), p)
  BY <1>1, NextSubsetFound DEF Grow
<1>3. p \in Part /\ Candidates(p) # {} /\ Cardinality(sets[p]) < average
  BY <1>2 DEF Eligible
<1>4. PICK v \in remainingVerts : Assign(v, p)
  BY <1>1, <1>2, <1>3, NextVertFound DEF Candidates
<1>5. /\ sets' \in [Part -> SUBSET Node]
      /\ remainingVerts' \subseteq Node
      /\ NodesDivided'
  BY <1>3, <1>4, AssignDivides DEF PartitionInv
<1>6. PartitionTypeOK'
  BY <1>1, <1>5 DEF Grow, PartitionInv, PartitionTypeOK
<1> QED BY <1>1, <1>5, <1>6 DEF PartitionInv, SeedsNext, UndefinedOnlyIfDense

\* No domain is eligible: since one has room, no node that remains has a value
\* for it that is low enough.
LEMMA GrowUndefinedKeeps ==
  ASSUME links \in Topologies, links' = links, PartitionInv, GrowUndefined
  PROVE  PartitionInv'
<1>1. PartitionTypeOK /\ NodesDivided
  BY DEF PartitionInv
<1>2. PICK p \in Part : ~(Cardinality(sets[p]) >= average)
  BY <1>1, FullDomainsHoldAll DEF GrowUndefined
<1>3. Cardinality(sets[p]) < average
  <2>1. sets[p] \in SUBSET Node
    BY <1>1 DEF PartitionTypeOK
  <2>2. Cardinality(sets[p]) \in Nat
    BY <2>1, NodesFinite, FS_Subset, FS_CardinalityType
  <2> QED BY <1>2, <2>2, AverageType
<1>4. Candidates(p) = {}
  BY <1>3 DEF GrowUndefined, Eligible
<1>5. ASSUME NEW v \in remainingVerts PROVE NumOutLinks(v) >= numPartitions
  <2> DEFINE others == UNION {sets[j] : j \in Part \ {p}}
  <2>1. others \in SUBSET Node
    BY <1>1 DEF PartitionTypeOK
  <2>2. NumLinks(v, others) \in Nat /\ NumLinks(v, Node) \in Nat
        /\ calcN(v, p) \in Nat
    BY NumLinksType DEF calcN
  <2>3. ~(NumLinks(v, others) - calcN(v, p) < numPartitions)
    BY <1>4, <1>5 DEF Candidates, calcDiff
  <2>4. NumLinks(v, others) <= NumLinks(v, Node)
    <3> HIDE DEF others
    <3> QED BY <2>1, NumLinksMonotone
  <2>5. numPartitions \in Nat
    BY NumPartitionsAssumption, NAssumption
  <2> HIDE DEF others
  <2> QED BY <2>2, <2>3, <2>4, <2>5 DEF NumOutLinks
<1>6. UndefinedOnlyIfDense'
  BY <1>5 DEF GrowUndefined, UndefinedOnlyIfDense, NumOutLinks, NumLinks
<1>7. NodesDivided'
  BY <1>1 DEF GrowUndefined, NodesDivided, average
<1> QED BY <1>6, <1>7
        DEF GrowUndefined, PartitionInv, PartitionTypeOK, SeedsNext

LEMMA DivisionEndsKeeps ==
  ASSUME PartitionInv, DivisionEnds
  PROVE  PartitionInv'
<1>1. NodesDivided'
  BY DEF DivisionEnds, PartitionInv, NodesDivided, average
<1> QED BY <1>1
        DEF DivisionEnds, PartitionInv, PartitionTypeOK, SeedsNext,
            UndefinedOnlyIfDense

LEMMA PartitionStepKeeps ==
  ASSUME links \in Topologies, links' = links, PartitionInv, PartitionNext
  PROVE  PartitionInv'
BY SeedOneNodeKeeps, SeedRandomNodeKeeps, SeedStubKeeps, SkipNoStubKeeps,
   SeedsEndKeeps, GrowKeeps, GrowUndefinedKeeps, DivisionEndsKeeps
   DEF PartitionNext

LEMMA PartitionUnchangedKeeps ==
  ASSUME PartitionInv, links' = links, UNCHANGED partitionVars
  PROVE  PartitionInv'
BY DEF PartitionInv, PartitionTypeOK, SeedsNext, NodesDivided,
       UndefinedOnlyIfDense, NumOutLinks, NumLinks, average, partitionVars

-----------------------------------------------------------------------------
(* The links of a topology.                                                *)

LEMMA LinksAreTopology ==
  ASSUME links \in Topologies
  PROVE  /\ \A l \in links :
              /\ l \in End \X End
              /\ l = <<l[1], l[2]>>
              /\ l[1] = <<l[1][1], l[1][2]>>
              /\ l[2] = <<l[2][1], l[2][2]>>
              /\ <<l[2], l[1]>> \in links
         /\ \A l, k \in links : l[1] = k[1] => l = k
<1>1. IsTopology(links)
  BY TopologiesAssumption
<1>2. links \subseteq End \X End
  BY <1>1 DEF IsTopology
<1>3. ASSUME NEW l \in links
      PROVE  l = <<l[1], l[2]>> /\ l[1] = <<l[1][1], l[1][2]>>
               /\ l[2] = <<l[2][1], l[2][2]>>
  BY <1>2 DEF End
<1> QED BY <1>1, <1>2, <1>3 DEF IsTopology

\* A port leads to one node.
LEMMA PortLeadsToOne ==
  ASSUME links \in Topologies, NEW n, NEW x, NEW y,
         NEW p \in PortsTo(n, x), p \in PortsTo(n, y)
  PROVE  x = y
<1>1. PICK l \in links : l[1][1] = n /\ l[2][1] = x /\ l[1][2] = p
  BY DEF PortsTo
<1>2. PICK k \in links : k[1][1] = n /\ k[2][1] = y /\ k[1][2] = p
  BY DEF PortsTo
<1>3. l[1] = k[1]
  <2>1. l[1] = <<n, p>>
    BY <1>1, LinksAreTopology
  <2>2. k[1] = <<n, p>>
    BY <1>2, LinksAreTopology
  <2> QED BY <2>1, <2>2
<1> QED BY <1>1, <1>2, <1>3, LinksAreTopology

\* Ports lead both ways, and have least indices.
LEMMA PortsLeadBack ==
  ASSUME links \in Topologies, NEW n, NEW x, PortsTo(n, x) # {}
  PROVE  PortsTo(x, n) # {}
<1>1. PICK l \in links : l[1][1] = n /\ l[2][1] = x
  BY DEF PortsTo
<1>2. <<l[2], l[1]>> \in links
  BY LinksAreTopology
<1> QED BY <1>1, <1>2 DEF PortsTo

LEMMA PortsAreNumbers ==
  ASSUME links \in Topologies, NEW n, NEW x
  PROVE  PortsTo(n, x) \in SUBSET Port /\ PortsTo(n, x) \in SUBSET Nat
<1>1. \A l \in links : l[1][2] \in Port
  BY LinksAreTopology DEF End
<1> QED BY <1>1, PortAssumption DEF PortsTo

LEMMA FirstPort ==
  ASSUME links \in Topologies, NEW n, NEW x, PortsTo(n, x) # {}
  PROVE  \E p \in PortsTo(n, x) : \A q \in PortsTo(n, x) : p <= q
<1>1. PortsTo(n, x) \in SUBSET Int /\ 0 \in Int
  BY PortsAreNumbers
<1>2. \A q \in PortsTo(n, x) : 0 <= q
  BY PortsAreNumbers
<1> QED BY <1>1, <1>2, LeastExists, Zenon

\* Without parallel links, one port leads from a node to another.
LEMMA OnePortInSimple ==
  ASSUME links \in Topologies, Simple, NEW n \in nodes, NEW x \in nodes,
         NEW p \in PortsTo(n, x), NEW q \in PortsTo(n, x)
  PROVE  p = q
<1>1. SUFFICES ASSUME p # q PROVE FALSE
  OBVIOUS
<1>2. IsFiniteSet(PortsTo(n, x))
  BY PortsAreNumbers, PortAssumption, FS_Subset
<1>3. /\ IsFiniteSet({p}) /\ Cardinality({p}) = 1
  BY FS_Singleton
<1>4. Cardinality({p} \cup {q}) = 2
  <2>1. Cardinality({p} \cup {q}) = IF q \in {p} THEN Cardinality({p})
                                    ELSE Cardinality({p}) + 1
    BY <1>3, FS_AddElement, Zenon
  <2> QED BY <1>1, <1>3, <2>1
<1>5. {p} \cup {q} \in SUBSET PortsTo(n, x)
  OBVIOUS
<1>6. Cardinality({p} \cup {q}) <= Cardinality(PortsTo(n, x))
  BY <1>2, <1>5, FS_Subset
<1>7. Cardinality(PortsTo(n, x)) <= 1 /\ Cardinality(PortsTo(n, x)) \in Nat
  BY <1>2, FS_CardinalityType DEF Simple
<1> QED BY <1>4, <1>6, <1>7

-----------------------------------------------------------------------------
(* The numbers of the nodes.                                               *)

\* The number of a node among those of X.
Rank(X, n) == Cardinality({m \in X : m < n})

LEMMA RankGrows ==
  ASSUME NEW X \in SUBSET Node, NEW n \in X
  PROVE  /\ Rank(X, n) \in 0..(Cardinality(X) - 1)
         /\ \A m \in X : m < n => Rank(X, m) < Rank(X, n)
<1>1. IsFiniteSet(X) /\ Cardinality(X) \in Nat
  BY NodesFinite, FS_Subset, FS_CardinalityType
<1>2. X \subseteq Int
  BY NodesBounded
<1> DEFINE below(m) == {k \in X : k < m}
<1>3. \A m \in X : /\ IsFiniteSet(below(m)) /\ Cardinality(below(m)) \in Nat
                   /\ Cardinality(below(m)) <= Cardinality(X)
                   /\ Cardinality(X) = Cardinality(below(m)) => X = below(m)
  <2>1. \A m \in X : below(m) \in SUBSET X
    OBVIOUS
  <2> HIDE DEF below
  <2> QED BY <1>1, <2>1, FS_Subset, FS_CardinalityType
<1>4. n \notin below(n)
  BY <1>2
<1>5. Rank(X, n) \in 0..(Cardinality(X) - 1)
  <2>1. Cardinality(X) # Cardinality(below(n))
    BY <1>3, <1>4
  <2>2. Cardinality(below(n)) \in 0..(Cardinality(X) - 1)
    <3> HIDE DEF below
    <3> QED BY <1>1, <1>3, <2>1
  <2> QED BY <2>2 DEF Rank
<1>6. ASSUME NEW m \in X, m < n PROVE Rank(X, m) < Rank(X, n)
  <2>1. below(m) \in SUBSET below(n)
    <3>1. ASSUME NEW j \in below(m) PROVE j \in below(n)
      <4>1. j \in X /\ j \in Int /\ m \in Int /\ n \in Int /\ j < m
        BY <1>2, <3>1
      <4> QED BY <1>6, <4>1
    <3> QED BY <3>1
  <2>2. m \in below(n) /\ m \notin below(m)
    BY <1>2, <1>6
  <2>3. /\ Cardinality(below(m)) <= Cardinality(below(n))
        /\ Cardinality(below(m)) # Cardinality(below(n))
    <3> HIDE DEF below
    <3> QED BY <1>3, <2>1, <2>2, FS_Subset
  <2>4. Cardinality(below(m)) < Cardinality(below(n))
    <3> HIDE DEF below
    <3> QED BY <1>3, <1>6, <2>3
  <2> QED BY <2>4 DEF Rank
<1> QED BY <1>5, <1>6

LEMMA RankTells ==
  ASSUME NEW X \in SUBSET Node, NEW n \in X, NEW m \in X,
         Rank(X, n) = Rank(X, m)
  PROVE  n = m
<1>1. n \in Int /\ m \in Int
  BY NodesBounded
<1>2. Rank(X, n) \in Int
  BY RankGrows
<1>3. ~(n < m) /\ ~(m < n)
  BY <1>2, RankGrows
<1> QED BY <1>1, <1>3

\* There is a node with each number, and each node has one.
LEMMA NodeAtFinds ==
  ASSUME NEW X \in SUBSET Node, NEW k \in 0..(Cardinality(X) - 1)
  PROVE  NodeAt(X, k) \in X
<1> DEFINE T == 0..(Cardinality(X) - 1)
           f == [n \in X |-> Rank(X, n)]
<1>1. IsFiniteSet(X) /\ Cardinality(X) \in Nat
  BY NodesFinite, FS_Subset, FS_CardinalityType
<1>2. IsFiniteSet(T) /\ Cardinality(T) = Cardinality(X)
  <2> HIDE DEF T
  <2>1. /\ IsFiniteSet(T)
        /\ Cardinality(T) = IF 0 > Cardinality(X) - 1 THEN 0
                            ELSE Cardinality(X) - 1 - 0 + 1
    <3> DEFINE b == Cardinality(X) - 1
    <3>1. 0 \in Int /\ b \in Int
      BY <1>1
    <3>2. /\ IsFiniteSet(0..b)
          /\ Cardinality(0..b) = IF 0 > b THEN 0 ELSE b - 0 + 1
      <4> HIDE DEF b
      <4> QED BY <3>1, FS_Interval
    <3> QED BY <3>2 DEF T
  <2> QED BY <1>1, <2>1
<1>3. f \in Injection(X, T)
  <2>1. f \in [X -> T]
    BY RankGrows
  <2>2. \A n, m \in X : f[n] = f[m] => n = m
    BY RankTells
  <2> QED BY <2>1, <2>2 DEF Injection, IsInjective
<1>4. f \in Surjection(X, T)
  <2> HIDE DEF f, T
  <2> QED BY <1>2, <1>3, FS_Injection
<1>5. PICK n \in X : f[n] = k
  <2>1. \A j \in T : \E n \in X : f[n] = j
    BY <1>4 DEF Surjection
  <2> QED BY <2>1
<1> QED BY <1>5 DEF NodeAt, Rank

LEMMA NodeAtAll ==
  ASSUME NEW X \in SUBSET Node, NEW n \in X
  PROVE  NodeAt(X, Rank(X, n)) = n
<1> DEFINE k == Rank(X, n)
           m == NodeAt(X, k)
<1>1. m \in X /\ Rank(X, m) = k
  BY DEF NodeAt, Rank
<1> QED BY <1>1, RankTells

-----------------------------------------------------------------------------
(* The tree.                                                               *)

Tree == {x \in nodes : isInTree[x]}

\* One node has brought the other into the tree.
Joined(x, y) == y \in treeNeighbors[x] \/ x \in treeNeighbors[y]

TreeLinks == {l \in Inner : Joined(l[1][1], l[2][1])}

\* Nodes are processed after they came into the tree, and disable ports then.
Grown ==
  /\ \A x \in Node : isInTree[x] => x \in nodes
  /\ \A x \in Node : isProcessed[x] => isInTree[x]
  /\ \A x \in Node : ~isProcessed[x] => ports[x] = {}

\* Both ends of a first link between a node and the node that brought it in
\* stay open.
Parents ==
  \A x \in Node : \A y \in treeNeighbors[x] :
    /\ isInTree[x]
    /\ isProcessed[y]
    /\ PortsTo(y, x) \ ports[y] # {}
    /\ PortsTo(x, y) # {}
    /\ PortsTo(x, y) \cap ports[x] = {}

\* The tree is connected: each part of it is joined to the rest.
Spans ==
  \A X \in SUBSET Tree :
    X # {} /\ X # Tree => \E x \in X, y \in Tree \ X : Joined(x, y)

\* What a node has left open belongs to the tree.
OpenInTree == \A l \in Open : isProcessed[l[1][1]] => l \in TreeLinks

\* Some link of L is the last.
Ends(L) == \E l \in L : \A k \in L : ~GoesOn(l, k)

\* The tree has no loops.
Loopless == Simple => \A L \in SUBSET TreeLinks : L # {} => Ends(L)

\* A pass that counts every node has found them all processed.
Counted ==
  /\ counter <= i
  /\ i <= numNodes
  /\ counter = i => \A k \in 0..(i - 1) : isProcessed[NodeAt(nodes, k)]
  /\ done => nodes # {} /\ \A n \in nodes : isProcessed[n]

TreeInv ==
  /\ TreeTypeOK
  /\ Grown
  /\ Parents
  /\ Spans
  /\ OpenInTree
  /\ Loopless
  /\ Counted

LEMMA TreeInitHolds ==
  ASSUME TreeInit
  PROVE  TreeInv
<1>1. N \in Nat
  BY NAssumption
<1>2. TreeTypeOK
  <2>1. isInTree \in [Node -> BOOLEAN] /\ isProcessed \in [Node -> BOOLEAN]
    BY DEF TreeInit
  <2>2. treeNeighbors \in [Node -> SUBSET Node]
    BY DEF TreeInit
  <2>3. ports \in [Node -> SUBSET Port]
    BY DEF TreeInit
  <2>4. nodes = {} /\ counter = 0 /\ i = 0 /\ done = FALSE
    BY DEF TreeInit
  <2>5. 0 \in 0..N
    BY <1>1
  <2> QED BY <2>1, <2>2, <2>3, <2>4, <2>5 DEF TreeTypeOK
<1>3. Grown /\ Parents
  BY DEF TreeInit, Grown, Parents
<1>4. Tree = {} /\ TreeLinks = {} /\ Open = {}
  BY DEF TreeInit, Tree, TreeLinks, Open, Inner
<1>5. Spans /\ OpenInTree /\ Loopless
  BY <1>4 DEF Spans, OpenInTree, Loopless
<1>6. numNodes = 0
  BY FS_EmptySet DEF TreeInit, numNodes
<1>7. Counted
  BY <1>6 DEF TreeInit, Counted
<1> QED BY <1>2, <1>3, <1>5, <1>7 DEF TreeInv

LEMMA ExtractKeeps ==
  ASSUME links \in Topologies, links' = links, TreeInv,
         NEW X \in SUBSET Node, extract(X)
  PROVE  TreeInv'
<1>1. nodes = {} /\ nodes' = X /\ X # {}
  BY DEF extract
<1>2. PICK start \in X : isInTree' = [n \in Node |-> n = start]
  <2>1. CASE StartNode < Cardinality(X)
    <3>1. Cardinality(X) \in Nat
      BY NodesFinite, FS_Subset, FS_CardinalityType
    <3>2. StartNode \in 0..(Cardinality(X) - 1)
      BY <2>1, <3>1, StartNodeAssumption
    <3>3. NodeAt(X, StartNode) \in X
      BY <3>2, NodeAtFinds
    <3> QED BY <2>1, <3>3 DEF extract
  <2>2. CASE ~(StartNode < Cardinality(X))
    BY <2>2 DEF extract
  <2> QED BY <2>1, <2>2
<1>3. UNCHANGED <<isProcessed, treeNeighbors, ports, counter, i, done>>
  BY DEF extract
<1>4. \A x \in Node : /\ isProcessed[x] = FALSE
                      /\ treeNeighbors[x] = {}
                      /\ ports[x] = {}
  <2>1. \A x \in Node : ~isInTree[x]
    BY <1>1 DEF TreeInv, Grown
  <2>2. \A x \in Node : isProcessed[x] \in BOOLEAN
    BY DEF TreeInv, TreeTypeOK
  <2> QED BY <2>1, <2>2 DEF TreeInv, Grown, Parents
<1>5. counter' = 0 /\ i' = 0 /\ done' = FALSE
  <2>1. numNodes = 0
    BY <1>1, FS_EmptySet DEF numNodes
  <2>2. counter \in Nat /\ i \in Nat /\ done \in BOOLEAN
    BY NAssumption DEF TreeInv, TreeTypeOK
  <2> QED BY <1>1, <1>3, <2>1, <2>2 DEF TreeInv, Counted
<1>6. TreeTypeOK'
  BY <1>1, <1>2, <1>3 DEF TreeInv, TreeTypeOK
<1>7. Grown' /\ Parents'
  BY <1>1, <1>2, <1>3, <1>4 DEF Grown, Parents
<1>8. Tree' = {start}
  BY <1>1, <1>2 DEF Tree
<1>9. Spans'
  BY <1>8 DEF Spans
<1>10. OpenInTree'
  <2>1. \A l \in Open' : l[1][1] \in Node
    BY <1>1 DEF Open, Inner
  <2> QED BY <1>3, <1>4, <2>1 DEF OpenInTree
<1>11. Loopless'
  <2>1. TreeLinks' = {}
    BY <1>1, <1>3, <1>4 DEF TreeLinks, Inner, Joined
  <2> QED BY <2>1 DEF Loopless
<1>12. Counted'
  <2>1. numNodes' \in Nat
    BY <1>1, NodesFinite, FS_Subset, FS_CardinalityType DEF numNodes
  <2> QED BY <1>1, <1>5, <2>1 DEF Counted
<1> QED BY <1>6, <1>7, <1>9, <1>10, <1>11, <1>12 DEF TreeInv

\* What processing a node does to a tree; n is in the tree, what it brings in
\* is not.
LEMMA ProcessKeeps ==
  ASSUME links \in Topologies, links' = links, TreeInv, nodes' = nodes,
         NEW n \in nodes, isInTree[n], ~isProcessed[n], process(n)
  PROVE  /\ isInTree' \in [Node -> BOOLEAN]
         /\ isProcessed' \in [Node -> BOOLEAN]
         /\ treeNeighbors' \in [Node -> SUBSET Node]
         /\ ports' \in [Node -> SUBSET Port]
         /\ \A x \in Node : isProcessed[x] => isProcessed'[x]
         /\ Grown' /\ Parents' /\ Spans' /\ OpenInTree' /\ Loopless'
<1> DEFINE new == {x \in nodes : ~isInTree[x] /\ PortsTo(n, x) # {}}
<1>1. nodes \subseteq Node /\ n \in Node /\ n \notin new
  BY DEF TreeInv, TreeTypeOK
<1>2. /\ isInTree' \in [Node -> BOOLEAN]
      /\ \A x \in Node : isInTree'[x] <=> isInTree[x] \/ x \in new
  BY DEF process, TreeInv, TreeTypeOK
<1>3. /\ isProcessed' \in [Node -> BOOLEAN]
      /\ \A x \in Node : isProcessed'[x] <=> isProcessed[x] \/ x = n
  BY <1>1 DEF process, TreeInv, TreeTypeOK
<1>4. /\ treeNeighbors' \in [Node -> SUBSET Node]
      /\ \A x \in new : treeNeighbors'[x] = {n}
      /\ \A x \in Node \ new : treeNeighbors'[x] = treeNeighbors[x]
  BY <1>1 DEF process, TreeInv, TreeTypeOK
<1>5. /\ ports' \in [Node -> SUBSET Port]
      /\ ports'[n] = Disabled(n)
      /\ \A x \in Node \ {n} : ports'[x] = ports[x]
  <2>1. Disabled(n) \in SUBSET Port
    BY DEF Disabled
  <2> QED BY <1>1, <2>1 DEF process, TreeInv, TreeTypeOK
<1>6. \A x, y : PortsTo(x, y)' = PortsTo(x, y)
  BY DEF PortsTo
<1>7. \A x \in new : /\ x \in nodes /\ x \in Node /\ x # n
                     /\ ~isInTree[x] /\ ~isProcessed[x]
                     /\ ports[x] = {} /\ PortsTo(n, x) # {}
  BY <1>1 DEF TreeInv, Grown
<1>8. \A x \in Node : \A y \in treeNeighbors[x] :
        x \notin new /\ y \notin new /\ y # n /\ y \in Node
  BY <1>1, <1>7 DEF TreeInv, Parents, TreeTypeOK
<1> HIDE DEF new
\* A port to a node that n brings in is disabled only if it is not the first.
<1>9. ASSUME NEW x \in new, NEW p \in PortsTo(n, x), p \in Disabled(n)
      PROVE  \E first \in PortsTo(n, x) : first < p
  <2>1. PICK z \in nodes :
          /\ p \in PortsTo(n, z)
          /\ IF isInTree[z] THEN z \notin treeNeighbors[n]
             ELSE \E first \in PortsTo(n, z) : first < p
    BY <1>9 DEF Disabled
  <2>2. z = x
    BY <2>1, PortLeadsToOne
  <2> QED BY <1>7, <2>1, <2>2
<1>10. Grown'
  BY <1>1, <1>2, <1>3, <1>5, <1>7 DEF TreeInv, Grown
<1>11. Parents'
  <2>1. SUFFICES ASSUME NEW x \in Node, NEW y \in treeNeighbors'[x]
                 PROVE  /\ isInTree'[x]
                        /\ isProcessed'[y]
                        /\ PortsTo(y, x) \ ports'[y] # {}
                        /\ PortsTo(x, y) # {}
                        /\ PortsTo(x, y) \cap ports'[x] = {}
    BY <1>6 DEF Parents
  <2>2. CASE x \in new
    <3>1. y = n
      BY <1>4, <2>2
    <3>2. PortsTo(x, n) # {}
      BY <1>7, <2>2, PortsLeadBack
    <3>3. PICK p \in PortsTo(n, x) : \A q \in PortsTo(n, x) : p <= q
      BY <1>7, <2>2, FirstPort
    <3>4. p \notin Disabled(n)
      <4>1. SUFFICES ASSUME p \in Disabled(n) PROVE FALSE
        OBVIOUS
      <4>2. PICK q \in PortsTo(n, x) : q < p
        BY <1>9, <2>2, <4>1
      <4>3. p <= q /\ p \in Nat /\ q \in Nat
        BY <3>3, PortsAreNumbers
      <4> QED BY <4>2, <4>3
    <3>5. ports'[x] = {}
      BY <1>5, <1>7, <2>2
    <3> QED BY <1>1, <1>2, <1>3, <1>5, <2>2, <3>1, <3>2, <3>3, <3>4, <3>5
  <2>3. CASE x \notin new
    <3>1. y \in treeNeighbors[x] /\ y # n /\ y \in Node
      BY <1>4, <1>8, <2>3
    <3>2. /\ isInTree[x] /\ isProcessed[y]
          /\ PortsTo(y, x) \ ports[y] # {}
          /\ PortsTo(x, y) # {}
          /\ PortsTo(x, y) \cap ports[x] = {}
      BY <3>1 DEF TreeInv, Parents
    <3>3. ports'[y] = ports[y]
      BY <1>5, <3>1
    <3>4. PortsTo(x, y) \cap ports'[x] = {}
      <4>1. CASE x # n
        BY <1>5, <3>2, <4>1
      <4>2. CASE x = n
        <5>1. SUFFICES ASSUME NEW p \in PortsTo(n, y), p \in Disabled(n)
                       PROVE  FALSE
          BY <1>5, <4>2
        <5>2. PICK z \in nodes :
                /\ p \in PortsTo(n, z)
                /\ IF isInTree[z] THEN z \notin treeNeighbors[n]
                   ELSE \E first \in PortsTo(n, z) : first < p
          BY <5>1 DEF Disabled
        <5>3. z = y
          BY <5>2, PortLeadsToOne
        <5>4. isInTree[y]
          BY <3>1, <3>2 DEF TreeInv, Grown
        <5> QED BY <3>1, <4>2, <5>2, <5>3, <5>4
      <4> QED BY <4>1, <4>2
    <3> QED BY <1>2, <1>3, <3>1, <3>2, <3>3, <3>4
  <2> QED BY <2>2, <2>3
\* Of the nodes that n brings in, each is joined to n and to nothing else.
<1>12. \A x, y \in Node : Joined(x, y) => Joined(x, y)'
  <2>1. \A x, y \in Node : y \in treeNeighbors[x] => y \in treeNeighbors'[x]
    BY <1>4, <1>8
  <2> QED BY <2>1 DEF Joined
<1>13. \A x \in new : \A y \in Node : Joined(x, y)' => y = n
  <2>1. TAKE x \in new
  <2>2. TAKE y \in Node
  <2>3. HAVE Joined(x, y)'
  <2>4. CASE y \in treeNeighbors'[x]
    BY <1>4, <2>4
  <2>5. CASE x \in treeNeighbors'[y]
    <3>1. y \in new => x = n
      BY <1>4, <2>5
    <3>2. y \notin new => x \in treeNeighbors[y]
      BY <1>4, <2>5
    <3> QED BY <1>7, <1>8, <3>1, <3>2
  <2> QED BY <2>3, <2>4, <2>5 DEF Joined
<1>14. \A x, y \in Node :
         x \notin new /\ y \notin new /\ Joined(x, y)' => Joined(x, y)
  BY <1>4 DEF Joined
<1>15. \A x, y : Joined(x, y)' => Joined(y, x)'
  BY DEF Joined
<1>16. /\ Inner' = Inner
       /\ \A l \in Inner : /\ l \in links
                           /\ l[1][1] \in nodes /\ l[2][1] \in nodes
                           /\ l[1][1] \in Node /\ l[2][1] \in Node
  BY <1>1 DEF Inner
<1>17. Spans'
  <2>1. /\ Tree' = Tree \cup new /\ Tree \cap new = {}
        /\ n \in Tree /\ Tree \subseteq Node
    BY <1>1, <1>2, <1>7 DEF Tree
  <2>2. SUFFICES ASSUME NEW X \in SUBSET Tree', X # {}, X # Tree'
                 PROVE  \E x \in X, y \in Tree' \ X : Joined(x, y)'
    BY DEF Spans
  <2>3. \A x \in new : Joined(x, n)' /\ Joined(n, x)'
    BY <1>4 DEF Joined
  <2>4. CASE X \cap Tree = {}
    <3>1. PICK x \in X : x \in new
      BY <2>1, <2>2, <2>4
    <3>2. n \in Tree' \ X
      BY <2>1, <2>4
    <3> QED BY <2>3, <3>1, <3>2
  <2>5. CASE Tree \subseteq X
    <3>1. PICK y \in Tree' \ X : y \in new
      BY <2>1, <2>2, <2>5
    <3>2. n \in X
      BY <2>1, <2>5
    <3> QED BY <2>3, <3>1, <3>2
  <2>6. CASE X \cap Tree # {} /\ ~(Tree \subseteq X)
    <3>1. X \cap Tree \in SUBSET Tree /\ X \cap Tree # Tree
      BY <2>6
    <3>2. PICK x \in X \cap Tree, y \in Tree \ (X \cap Tree) : Joined(x, y)
      BY <2>6, <3>1 DEF TreeInv, Spans
    <3>3. y \in Tree' \ X /\ x \in Node /\ y \in Node
      BY <2>1
    <3> QED BY <1>12, <3>2, <3>3
  <2> QED BY <2>4, <2>5, <2>6
<1>18. OpenInTree'
  <2>1. SUFFICES ASSUME NEW l \in Inner, l[1][2] \notin ports'[l[1][1]],
                        isProcessed'[l[1][1]]
                 PROVE  Joined(l[1][1], l[2][1])'
    BY <1>16 DEF OpenInTree, Open, TreeLinks
  <2>2. CASE l[1][1] # n
    <3>1. ports'[l[1][1]] = ports[l[1][1]] /\ isProcessed[l[1][1]]
      BY <1>3, <1>5, <1>16, <2>1, <2>2
    <3>2. l \in Open
      BY <2>1, <3>1 DEF Open
    <3>3. Joined(l[1][1], l[2][1])
      BY <3>1, <3>2 DEF TreeInv, OpenInTree, TreeLinks
    <3> QED BY <1>12, <1>16, <3>3
  <2>3. CASE l[1][1] = n
    <3> DEFINE x == l[2][1]
               p == l[1][2]
    <3>1. p \in PortsTo(n, x) /\ x \in nodes /\ x \in Node
      BY <1>16, <2>3 DEF PortsTo
    <3>2. p \notin Disabled(n) /\ p \in Port
      BY <1>5, <2>1, <2>3, <3>1, PortsAreNumbers
    <3>3. isInTree[x] => x \in treeNeighbors[n]
      BY <3>1, <3>2 DEF Disabled
    <3>4. CASE isInTree[x]
      BY <1>1, <1>4, <2>3, <3>3, <3>4 DEF Joined
    <3>5. CASE ~isInTree[x]
      <4>1. x \in new
        BY <3>1, <3>5 DEF new
      <4> QED BY <1>4, <2>3, <4>1 DEF Joined
    <3> QED BY <3>4, <3>5
  <2> QED BY <2>2, <2>3
<1>19. Loopless'
  <2>1. Simple' = Simple
    BY <1>6 DEF Simple
  <2>2. SUFFICES ASSUME Simple, NEW L \in SUBSET TreeLinks', L # {}
                 PROVE  \E l \in L : \A k \in L : ~GoesOn(l, k)
    BY <2>1 DEF Loopless, Ends, GoesOn
  <2>3. \A l \in L : l \in Inner /\ Joined(l[1][1], l[2][1])'
    BY <1>16 DEF TreeLinks
  <2>4. CASE \E l \in L : l[2][1] \in new
    <3>1. PICK l \in L : l[2][1] \in new
      BY <2>4
    <3> DEFINE x == l[2][1]
    <3>2. l[1][1] = n
      <4>1. Joined(l[1][1], x)' /\ l[1][1] \in Node
        BY <1>16, <2>3
      <4> QED BY <1>13, <1>15, <3>1, <4>1
    <3>3. ASSUME NEW k \in L, k[1][1] = x PROVE l[2] = k[1]
      <4>1. k[2][1] = n
        <5>1. Joined(x, k[2][1])' /\ k[2][1] \in Node
          BY <1>16, <2>3, <3>3
        <5> QED BY <1>13, <3>1, <5>1
      <4>2. l \in links /\ k \in links
        BY <1>16, <2>3
      <4>3. k[1][2] \in PortsTo(x, n)
        BY <3>3, <4>1, <4>2 DEF PortsTo
      <4>4. l[2][2] \in PortsTo(x, n)
        <5>1. <<l[2], l[1]>> \in links
          BY <4>2, LinksAreTopology
        <5> QED BY <3>2, <5>1 DEF PortsTo
      <4>5. l[2][2] = k[1][2]
        BY <1>7, <2>2, <3>1, <4>3, <4>4, OnePortInSimple
      <4>6. l[2] = <<l[2][1], l[2][2]>> /\ k[1] = <<k[1][1], k[1][2]>>
        BY <4>2, LinksAreTopology
      <4> QED BY <3>3, <4>5, <4>6
    <3> QED BY <3>3 DEF GoesOn
  <2>5. CASE \A l \in L : l[2][1] \notin new
    <3> DEFINE L0 == {l \in L : l[1][1] \notin new}
    <3>1. L0 \in SUBSET TreeLinks
      BY <1>14, <1>16, <2>3, <2>5 DEF TreeLinks
    <3>2. CASE L0 = {}
      <4>1. PICK l \in L : TRUE
        BY <2>2
      <4>2. \A k \in L : k[1][1] \in new
        BY <3>2
      <4>3. \A k \in L : ~GoesOn(l, k)
        BY <2>5, <4>2 DEF GoesOn
      <4> QED BY <4>3
    <3>3. CASE L0 # {}
      <4>1. PICK l \in L0 : \A k \in L0 : ~GoesOn(l, k)
        BY <2>2, <3>1, <3>3 DEF TreeInv, Loopless, Ends
      <4>2. \A k \in L : ~GoesOn(l, k)
        BY <2>5, <4>1 DEF GoesOn
      <4> QED BY <4>2
    <3> QED BY <3>2, <3>3
  <2> QED BY <2>4, <2>5
<1> QED BY <1>2, <1>3, <1>4, <1>5, <1>10, <1>11, <1>17, <1>18, <1>19

\* What the scan counts.
LEMMA VisitKeeps ==
  ASSUME links \in Topologies, links' = links, TreeInv, Visit
  PROVE  TreeInv'
<1> DEFINE n == NodeAt(nodes, i)
<1>1. nodes' = nodes /\ i' = i + 1 /\ done' = done /\ ~done
  BY DEF Visit, Scans
<1>2. /\ nodes \in SUBSET Node /\ N \in Nat
      /\ numNodes \in Nat /\ numNodes <= N /\ numNodes' = numNodes
      /\ counter \in Nat /\ i \in Nat /\ i < numNodes /\ counter <= i
  <2>1. nodes \in SUBSET Node
    BY DEF TreeInv, TreeTypeOK
  <2>2. numNodes \in Nat /\ numNodes <= N
    BY <2>1, NodesFinite, FS_Subset, FS_CardinalityType DEF numNodes
  <2> QED BY <1>1, <2>1, <2>2, NAssumption
          DEF Visit, TreeInv, TreeTypeOK, Counted, numNodes
<1>3. n \in nodes
  <2>1. i \in 0..(Cardinality(nodes) - 1)
    BY <1>2 DEF numNodes
  <2> QED BY <1>2, <2>1, NodeAtFinds
<1>4. /\ isInTree' \in [Node -> BOOLEAN]
      /\ isProcessed' \in [Node -> BOOLEAN]
      /\ treeNeighbors' \in [Node -> SUBSET Node]
      /\ ports' \in [Node -> SUBSET Port]
      /\ \A x \in Node : isProcessed[x] => isProcessed'[x]
      /\ Grown' /\ Parents' /\ Spans' /\ OpenInTree' /\ Loopless'
  <2>1. CASE isInTree[n] /\ ~isProcessed[n]
    <3>1. process(n)
      BY <2>1 DEF Visit
    <3> QED BY <1>1, <1>3, <2>1, <3>1, ProcessKeeps
  <2>2. CASE ~(isInTree[n] /\ ~isProcessed[n])
    <3>1. UNCHANGED <<nodes, links, isInTree, isProcessed, treeNeighbors, ports>>
      BY <1>1, <2>2 DEF Visit, nodeInfo
    <3>2. Grown' /\ Parents'
      BY <3>1 DEF TreeInv, Grown, Parents, Tree, Joined, PortsTo
    <3>3. Spans' /\ OpenInTree'
      BY <3>1 DEF TreeInv, Spans, OpenInTree, Tree, TreeLinks, Joined, Inner,
                  Open, PortsTo
    <3>4. Loopless'
      BY <3>1 DEF TreeInv, Loopless, Ends, TreeLinks, Joined, Inner, Open,
                  Simple, PortsTo, GoesOn, Tree
    <3> QED BY <3>1, <3>2, <3>3, <3>4 DEF TreeInv, TreeTypeOK
  <2> QED BY <2>1, <2>2
<1>5. counter' = IF isProcessed[n] THEN counter + 1 ELSE counter
  BY DEF Visit
<1>6. ASSUME counter' = i' PROVE counter = i /\ isProcessed[n]
  BY <1>1, <1>2, <1>5, <1>6
<1>7. ASSUME counter' = i', NEW k \in 0..(i' - 1)
      PROVE  isProcessed'[NodeAt(nodes, k)]
  <2>1. CASE k = i
    BY <1>2, <1>3, <1>4, <1>6, <1>7, <2>1
  <2>2. CASE k # i
    <3>1. k \in 0..(i - 1) /\ k \in 0..(Cardinality(nodes) - 1)
      BY <1>1, <1>2, <2>2 DEF numNodes
    <3>2. isProcessed[NodeAt(nodes, k)]
      BY <1>6, <1>7, <3>1 DEF TreeInv, Counted
    <3>3. NodeAt(nodes, k) \in Node
      BY <1>2, <3>1, NodeAtFinds
    <3> QED BY <1>4, <3>2, <3>3
  <2> QED BY <2>1, <2>2
<1>8. counter' <= i' /\ i' <= numNodes' /\ counter' \in 0..N /\ i' \in 0..N
  BY <1>1, <1>2, <1>5
<1>9. Counted'
  <2>1. \A k : NodeAt(nodes, k)' = NodeAt(nodes, k)
    BY <1>1 DEF NodeAt
  <2> QED BY <1>1, <1>7, <1>8, <2>1 DEF Counted
<1>10. TreeTypeOK'
  BY <1>1, <1>4, <1>8 DEF TreeInv, TreeTypeOK
<1> QED BY <1>4, <1>9, <1>10 DEF TreeInv

\* The parts of the invariant about the tree do not mention the scan.
LEMMA TreeStays ==
  ASSUME TreeInv, links' = links, UNCHANGED <<nodes, nodeInfo>>
  PROVE  Grown' /\ Parents' /\ Spans' /\ OpenInTree' /\ Loopless'
BY DEF nodeInfo, TreeInv, Grown, Parents, Spans, OpenInTree, Loopless, Ends,
       Tree, TreeLinks, Joined, Inner, Open, Simple, PortsTo, GoesOn

LEMMA NextPassKeeps ==
  ASSUME TreeInv, links' = links, NextPass
  PROVE  TreeInv'
<1>1. /\ nodes' = nodes /\ counter' = 0 /\ i' = 0 /\ done' = done /\ ~done
      /\ UNCHANGED nodeInfo
  BY DEF NextPass, Scans
<1>2. Grown' /\ Parents' /\ Spans' /\ OpenInTree' /\ Loopless'
  BY <1>1, TreeStays
<1>3. numNodes' \in Nat
  BY <1>1, NodesFinite, FS_Subset, FS_CardinalityType
     DEF TreeInv, TreeTypeOK, numNodes
<1>4. Counted'
  BY <1>1, <1>3 DEF Counted
<1>5. TreeTypeOK'
  BY <1>1, NAssumption DEF TreeInv, TreeTypeOK, nodeInfo
<1> QED BY <1>2, <1>4, <1>5 DEF TreeInv

\* disablePorts is called when a pass has counted all nodes.
LEMMA DisablePortsKeeps ==
  ASSUME TreeInv, links' = links, disablePorts
  PROVE  TreeInv'
<1>1. /\ nodes' = nodes /\ counter' = counter /\ i' = i /\ done' = TRUE
      /\ UNCHANGED nodeInfo /\ nodes # {}
      /\ i = numNodes /\ counter = i
  BY DEF disablePorts, Scans
<1>2. Grown' /\ Parents' /\ Spans' /\ OpenInTree' /\ Loopless'
  BY <1>1, TreeStays
<1>3. \A n \in nodes : isProcessed[n]
  <2>1. TAKE n \in nodes
  <2>2. nodes \in SUBSET Node
    BY DEF TreeInv, TreeTypeOK
  <2>3. Rank(nodes, n) \in 0..(i - 1)
    BY <1>1, <2>2, RankGrows DEF numNodes
  <2>4. isProcessed[NodeAt(nodes, Rank(nodes, n))]
    BY <1>1, <2>3 DEF TreeInv, Counted
  <2> QED BY <2>2, <2>4, NodeAtAll
<1>4. Counted'
  BY <1>1, <1>3 DEF TreeInv, Counted, nodeInfo, numNodes, NodeAt
<1>5. TreeTypeOK'
  BY <1>1 DEF TreeInv, TreeTypeOK, nodeInfo
<1> QED BY <1>2, <1>4, <1>5 DEF TreeInv

LEMMA TreeUnchangedKeeps ==
  ASSUME TreeInv, links' = links, UNCHANGED treeVars
  PROVE  TreeInv'
<1>1. Grown' /\ Parents' /\ Spans' /\ OpenInTree' /\ Loopless'
  BY TreeStays DEF treeVars
<1>2. Counted' /\ TreeTypeOK'
  BY DEF TreeInv, Counted, TreeTypeOK, treeVars, nodeInfo, numNodes, NodeAt
<1> QED BY <1>1, <1>2 DEF TreeInv

-----------------------------------------------------------------------------
(* The network that is set up.                                             *)

SetupInv ==
  /\ links \in Topologies
  /\ domainID \in Part \cup {-1}
  /\ PartitionInv
  /\ TreeInv

THEOREM Invariance == Spec => []SetupInv
<1>1. Init => SetupInv
  BY PartitionInitHolds, TreeInitHolds DEF Init, SetupInv
<1>2. SetupInv /\ [Next]_vars => SetupInv'
  <2>1. SUFFICES ASSUME SetupInv, [Next]_vars PROVE SetupInv'
    OBVIOUS
  <2>2. links' = links /\ domainID' = domainID
    BY <2>1 DEF Next, Divides, BuildsTree, vars
  <2>3. CASE Divides
    <3>1. PartitionInv'
      BY <2>1, <2>2, <2>3, PartitionStepKeeps DEF SetupInv, Divides
    <3>2. TreeInv'
      BY <2>1, <2>2, <2>3, TreeUnchangedKeeps DEF SetupInv, Divides
    <3> QED BY <2>1, <2>2, <3>1, <3>2 DEF SetupInv
  <2>4. CASE BuildsTree
    <3>1. PartitionInv'
      BY <2>1, <2>2, <2>4, PartitionUnchangedKeeps DEF SetupInv, BuildsTree
    <3>2. TreeInv'
      <4>1. CASE extract(selectFunction)
        <5>1. selectFunction \in SUBSET Node
          BY <2>1 DEF selectFunction, SetupInv, PartitionInv, PartitionTypeOK
        <5> QED BY <2>1, <2>2, <4>1, <5>1, ExtractKeeps DEF SetupInv
      <4>2. CASE ScanNext
        BY <2>1, <2>2, <4>2, VisitKeeps, NextPassKeeps, DisablePortsKeeps
           DEF ScanNext, SetupInv
      <4> QED BY <2>4, <4>1, <4>2 DEF BuildsTree
    <3> QED BY <2>1, <2>2, <3>1, <3>2 DEF SetupInv
  <2>5. CASE UNCHANGED vars
    BY <2>1, <2>5, PartitionUnchangedKeeps, TreeUnchangedKeeps
       DEF vars, SetupInv
  <2> QED BY <2>1, <2>3, <2>4, <2>5 DEF Next
<1> QED BY <1>1, <1>2, PTL DEF Spec

\* The setup is type correct; preferStubs never looks at a node that has left
\* its list.
THEOREM TypeCorrect == Spec => []TypeOK
<1>1. SetupInv => TypeOK
  BY DEF SetupInv, TypeOK, PartitionInv, TreeInv
<1> QED BY <1>1, Invariance, PTL

\* However the seeds are chosen, and although the iterator skips nodes and
\* passes the end of its list, a node is in one domain, and no domain gets more
\* than its share.
THEOREM Divided == Spec => []NodesDivided
<1>1. SetupInv => NodesDivided
  BY DEF SetupInv, PartitionInv
<1> QED BY <1>1, Invariance, PTL

\* findNextSubset and findNextVert return what they never set only if each node
\* that remains has as many links as there are domains: the domains have room
\* for all nodes, and one with room takes any node with fewer links.
THEOREM UndefinedOnlyDense == Spec => []UndefinedOnlyIfDense
<1>1. SetupInv => UndefinedOnlyIfDense
  BY DEF SetupInv, PartitionInv
<1> QED BY <1>1, Invariance, PTL

LEMMA TreeReaches == SetupInv => EveryNodeReached
<1>1. SUFFICES ASSUME SetupInv, done, NEW X \in SUBSET nodes, X # {}, X # nodes
               PROVE  \E l \in Open : l[1][1] \in X /\ l[2][1] \notin X
  BY DEF EveryNodeReached
<1>2. links \in Topologies /\ nodes \subseteq Node /\ Parents
  BY <1>1 DEF SetupInv, TreeInv, TreeTypeOK
<1>3. Tree = nodes
  BY <1>1 DEF SetupInv, TreeInv, Grown, Counted, TreeTypeOK, Tree
<1>4. PICK x \in X, y \in nodes \ X : Joined(x, y)
  BY <1>1, <1>3 DEF SetupInv, TreeInv, Spans
<1>5. PortsTo(x, y) \ ports[x] # {}
  BY <1>2, <1>4 DEF Joined, Parents
<1>6. PICK l \in links : l[1][1] = x /\ l[2][1] = y /\ l[1][2] \notin ports[x]
  BY <1>5 DEF PortsTo
<1> QED BY <1>4, <1>6 DEF Open, Inner

\* In every network the floods of a switch reach all others: the tree spans the
\* nodes, and both ends of its links are open, also among parallel links.
THEOREM Reaches == Spec => []EveryNodeReached
BY TreeReaches, Invariance, PTL

LEMMA TreeEnds == SetupInv => NoPacketLoops
<1>1. SUFFICES ASSUME SetupInv, done, Simple, NEW L \in SUBSET Open, L # {}
               PROVE  \E l \in L : \A k \in L : ~GoesOn(l, k)
  BY DEF NoPacketLoops
<1>2. L \in SUBSET TreeLinks
  BY <1>1 DEF SetupInv, TreeInv, OpenInTree, Counted, Open, Inner
<1> QED BY <1>1, <1>2 DEF SetupInv, TreeInv, Loopless, Ends

\* In every network without parallel links no flooded frame travels for ever:
\* what is left open are the links of the tree, and those make no loop.
THEOREM FloodsEnd == Spec => []NoPacketLoops
BY TreeEnds, Invariance, PTL
=============================================================================
