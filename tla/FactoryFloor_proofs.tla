------------------------ MODULE FactoryFloor_proofs -------------------------
(***************************************************************************)
(* Proofs about FactoryFloor for every number of orders, order size,       *)
(* target and whether or not reports overtake products.                    *)
(***************************************************************************)
EXTENDS FactoryFloor, FiniteSetTheorems, TLAPS

\* A report is about a product that was created, on the line where it still
\* is if it exists, and that its sensor and those before it have seen.
ReportsTrue ==
  /\ IsFiniteSet(reports)
  /\ \A s \in Sensor : m_history[s] \subseteq 0..(nextNodeId - 1)
  /\ \A r \in reports :
       /\ r.tag \in m_history[r.sensor]
       /\ \A b \in Before(r.sensor) : r.tag \in m_history[b]
       /\ r.tag \in DOMAIN nodes => r.line = nodes[r.tag]

\* A product that is made was created and is gone.
MadeAreGone ==
  \A l \in Line :
    /\ production_done[l] \subseteq 0..(nextNodeId - 1)
    /\ ~failed => production_done[l] \cap DOMAIN nodes = {}

Inv ==
  /\ TypeOK
  /\ ReportsTrue
  /\ MadeAreGone
  /\ LinesOweTheirProducts
  /\ MaterialForEveryProduct
  /\ OrdersConserved
  /\ DemandHasTimer

-----------------------------------------------------------------------------
(* What the helpers do.                                                    *)

\* The nodes of NodeFactory are finitely many, those of a line too.
LEMMA FiniteNodes ==
  ASSUME TypeOK
  PROVE  /\ IsFiniteSet(DOMAIN nodes)
         /\ \A l \in Line : /\ IsFiniteSet(NodesOf(l))
                            /\ Cardinality(NodesOf(l)) \in Nat
                            /\ IsFiniteSet(Unstarted(l))
                            /\ Cardinality(Unstarted(l)) \in Nat
<1>1. IsFiniteSet(0..(nextNodeId - 1))
  BY FS_Interval DEF TypeOK
<1>2. IsFiniteSet(DOMAIN nodes)
  BY <1>1, FS_Subset DEF TypeOK
<1>3. ASSUME NEW l \in Line
      PROVE  /\ IsFiniteSet(NodesOf(l)) /\ Cardinality(NodesOf(l)) \in Nat
             /\ IsFiniteSet(Unstarted(l)) /\ Cardinality(Unstarted(l)) \in Nat
  <2>1. NodesOf(l) \in SUBSET DOMAIN nodes /\ Unstarted(l) \in SUBSET DOMAIN nodes
    BY DEF NodesOf, Unstarted
  <2> QED BY <1>2, <2>1, FS_Subset, FS_CardinalityType
<1> QED BY <1>2, <1>3

\* The reports under way are finitely many, those of a kind too.
LEMMA FiniteReports ==
  ASSUME ReportsTrue
  PROVE  \A l \in Line : /\ IsFiniteSet(StartReports(l))
                         /\ Cardinality(StartReports(l)) \in Nat
<1> TAKE l \in Line
<1>1. StartReports(l) \in SUBSET reports
  BY DEF StartReports
<1> QED BY <1>1, FS_Subset, FS_CardinalityType DEF ReportsTrue

\* check_demmmand gives the same amount, which demand and inventory cover, to
\* one line, and to the node factory for it.
LEMMA CheckGivesToOneLine ==
  ASSUME TypeOK, NEW d \in Nat, NEW i \in Nat, check_demmmand(d, i)
  PROVE  \E k \in Line, n \in Nat :
           /\ n <= d /\ n <= i
           /\ product_demmand' = d - n
           /\ product_inventory' = i - n
           /\ line_demmand' = [line_demmand EXCEPT ![k] = @ + n]
           /\ line_inventory' = [line_inventory EXCEPT ![k] = @ + n]
           /\ m_demmand' = [m_demmand EXCEPT ![k] = @ + n]
           /\ UNCHANGED <<nextNodeId, nodes>>
           /\ timeoutMsg' = TRUE \/ (n = 0 /\ timeoutMsg' = timeoutMsg)
<1> DEFINE n == Covered(d, i)
<1>1. n \in Nat /\ n <= d /\ n <= i
  BY DEF Covered
<1>2. LeastLoaded \in Line
  BY DEF LeastLoaded, Line
<1>3. product_demmand' = d - n /\ product_inventory' = i - n
  BY DEF check_demmmand
<1>4. CASE n = 0
  <2>1. UNCHANGED <<line_demmand, line_inventory, m_demmand, timeoutMsg,
                    nextNodeId, nodes>>
    BY <1>4 DEF check_demmmand, lineVars, factoryVars
  <2>2. /\ line_demmand' = [line_demmand EXCEPT ![0] = @ + 0]
        /\ line_inventory' = [line_inventory EXCEPT ![0] = @ + 0]
        /\ m_demmand' = [m_demmand EXCEPT ![0] = @ + 0]
    BY <2>1 DEF TypeOK, Line
  <2>3. 0 \in Line
    BY DEF Line
  <2>4. /\ product_demmand' = d - 0 /\ product_inventory' = i - 0
        /\ 0 <= d /\ 0 <= i
    BY <1>3, <1>4
  <2>5. UNCHANGED <<nextNodeId, nodes>> /\ timeoutMsg' = timeoutMsg
    BY <2>1
  <2> WITNESS 0 \in Line, 0 \in Nat
  <2> QED BY <2>2, <2>4, <2>5
<1>5. CASE n # 0
  <2>1. /\ line_demmand' = [line_demmand EXCEPT ![LeastLoaded] = @ + n]
        /\ line_inventory' = [line_inventory EXCEPT ![LeastLoaded] = @ + n]
        /\ m_demmand' = [m_demmand EXCEPT ![LeastLoaded] = @ + n]
        /\ UNCHANGED <<nextNodeId, nodes>>
        /\ timeoutMsg' = TRUE
    BY <1>5 DEF check_demmmand, setDemand
  <2> HIDE DEF n
  <2> QED BY <1>1, <1>2, <1>3, <1>5, <2>1
<1> QED BY <1>4, <1>5

\* The ids of new products: the next ones, and they differ between the lines.
LEMMA NewIdsFresh ==
  ASSUME TypeOK
  PROVE  /\ Cardinality(Demanded) \in Nat
         /\ NewIds = nextNodeId..(nextNodeId + Cardinality(Demanded) - 1)
         /\ \A k, l \in Demanded : NewId(k) = NewId(l) => k = l
<1> DEFINE Below(l) == {k \in Demanded : k < l}
<1>0. nextNodeId \in Nat
  BY DEF TypeOK
<1>1. Demanded \subseteq {0, 1}
  BY DEF Demanded, Line
<1>2. Cardinality({}) = 0 /\ \A x : Cardinality({x}) = 1
  BY FS_EmptySet, FS_Singleton
<1>3. \A l : NewId(l) = nextNodeId + Cardinality(Below(l))
  BY DEF NewId
<1>4. Below(0) = {}
  <2>1. \A k \in Demanded : ~(k < 0)
    BY <1>1
  <2> QED BY <2>1
<1>5. NewId(0) = nextNodeId
  <2> HIDE DEF Below
  <2> QED BY <1>0, <1>2, <1>3, <1>4
<1>6. NewId(1) = IF 0 \in Demanded THEN nextNodeId + 1 ELSE nextNodeId
  <2>1. Below(1) = IF 0 \in Demanded THEN {0} ELSE {}
    <3>1. \A k \in Demanded : k < 1 <=> k = 0
      BY <1>1
    <3>2. \A k : k \in Below(1) <=> k = 0 /\ 0 \in Demanded
      BY <3>1
    <3> HIDE DEF Below
    <3>3. CASE 0 \in Demanded
      BY <3>2, <3>3
    <3>4. CASE 0 \notin Demanded
      BY <3>2, <3>4
    <3> QED BY <3>3, <3>4
  <2> HIDE DEF Below
  <2> QED BY <1>0, <1>2, <1>3, <2>1
<1>7. Cardinality(Demanded) = (IF 0 \in Demanded THEN 1 ELSE 0)
                                + (IF 1 \in Demanded THEN 1 ELSE 0)
  <2>1. CASE Demanded = {0} \cup {1}
    <3>1. IsFiniteSet({0}) /\ Cardinality({0}) = 1
      BY FS_Singleton
    <3>2. 1 \notin {0}
      OBVIOUS
    <3>3. Cardinality({0} \cup {1}) = Cardinality({0}) + 1
      BY <3>1, <3>2, FS_AddElement
    <3>4. Cardinality(Demanded) = 1 + 1
      BY <2>1, <3>1, <3>3
    <3> QED BY <2>1, <3>4
  <2>2. CASE Demanded = {0}
    <3>1. Cardinality(Demanded) = 1
      BY <1>2, <2>2
    <3> QED BY <2>2, <3>1
  <2>3. CASE Demanded = {1}
    <3>1. Cardinality(Demanded) = 1
      BY <1>2, <2>3
    <3> QED BY <2>3, <3>1
  <2>4. CASE Demanded = {}
    BY <1>2, <2>4
  <2> QED BY <1>1, <2>1, <2>2, <2>3, <2>4
<1>8. NewIds = nextNodeId..(nextNodeId + Cardinality(Demanded) - 1)
  <2> DEFINE last == nextNodeId + Cardinality(Demanded) - 1
  <2>1. CASE 0 \in Demanded /\ 1 \in Demanded
    <3>1. NewIds = {nextNodeId, nextNodeId + 1}
      BY <1>1, <1>5, <1>6, <2>1 DEF NewIds
    <3>2. last = nextNodeId + 1
      BY <1>0, <1>7, <2>1
    <3> QED BY <1>0, <3>1, <3>2
  <2>2. CASE ~(0 \in Demanded /\ 1 \in Demanded) /\ Demanded # {}
    <3>1. NewIds = {nextNodeId}
      BY <1>1, <1>5, <1>6, <2>2 DEF NewIds
    <3>2. Cardinality(Demanded) = 1
      <4>1. \/ 0 \in Demanded /\ 1 \notin Demanded
            \/ 0 \notin Demanded /\ 1 \in Demanded
        BY <1>1, <2>2
      <4> QED BY <1>7, <4>1
    <3>3. last = nextNodeId
      BY <1>0, <3>2
    <3> QED BY <1>0, <3>1, <3>3
  <2>3. CASE Demanded = {}
    <3>1. NewIds = {}
      BY <2>3 DEF NewIds
    <3>2. last = nextNodeId - 1
      BY <1>0, <1>7, <2>3
    <3> QED BY <1>0, <3>1, <3>2
  <2> QED BY <2>1, <2>2, <2>3
<1>9. \A k, l \in Demanded : NewId(k) = NewId(l) => k = l
  BY <1>0, <1>1, <1>5, <1>6
<1> QED BY <1>7, <1>8, <1>9

\* The timer of the node factory gives a product to each line that lacks some
\* and leaves the products there are alone.
LEMMA CreatesOnePerLine ==
  ASSUME TypeOK, createNodes
  PROVE  /\ nextNodeId' \in Nat /\ nextNodeId <= nextNodeId'
         /\ DOMAIN nodes' \subseteq 0..(nextNodeId' - 1)
         /\ \A id \in DOMAIN nodes' \ DOMAIN nodes :
              id >= nextNodeId /\ nodes'[id] \in Line
         /\ DOMAIN nodes \subseteq DOMAIN nodes'
         /\ \A id \in DOMAIN nodes : nodes'[id] = nodes[id]
         /\ \A l \in Line : NodesOf(l)' = IF l \in Demanded
                                          THEN NodesOf(l) \cup {NewId(l)}
                                          ELSE NodesOf(l)
         /\ \A l \in Demanded : NewId(l) >= nextNodeId
<1>1. /\ Cardinality(Demanded) \in Nat
      /\ NewIds = nextNodeId..(nextNodeId + Cardinality(Demanded) - 1)
      /\ \A k, l \in Demanded : NewId(k) = NewId(l) => k = l
  BY NewIdsFresh
<1>2. nextNodeId' = nextNodeId + Cardinality(Demanded)
  BY DEF createNodes
<1>3. /\ DOMAIN nodes' = DOMAIN nodes \cup NewIds
      /\ \A id \in DOMAIN nodes \cup NewIds :
           nodes'[id] = IF id \in NewIds
                        THEN CHOOSE l \in Demanded : NewId(l) = id
                        ELSE nodes[id]
  BY DEF createNodes
<1>4. \A l \in Demanded : NewId(l) \in NewIds /\ nodes'[NewId(l)] = l
  <2> TAKE l \in Demanded
  <2>1. NewId(l) \in NewIds
    BY DEF NewIds
  <2>2. \A k \in Demanded : NewId(k) = NewId(l) => k = l
    BY <1>1
  <2>3. (CHOOSE k \in Demanded : NewId(k) = NewId(l)) = l
    BY <2>2
  <2> QED BY <1>3, <2>1, <2>3
<1>5. DOMAIN nodes \cap NewIds = {}
  BY <1>1 DEF TypeOK
<1>6. \A id \in NewIds : \E l \in Demanded : id = NewId(l)
  BY DEF NewIds
<1>7. Demanded \subseteq Line
  BY DEF Demanded
<1>8. \A l \in Line : NodesOf(l)' = IF l \in Demanded
                                    THEN NodesOf(l) \cup {NewId(l)}
                                    ELSE NodesOf(l)
  <2> TAKE l \in Line
  <2>1. NodesOf(l)' = {id \in DOMAIN nodes' : nodes'[id] = l}
    BY DEF NodesOf
  <2>2. \A id \in DOMAIN nodes : nodes'[id] = nodes[id]
    BY <1>3, <1>5
  <2>3. \A id \in NewIds : nodes'[id] = l <=> l \in Demanded /\ id = NewId(l)
    BY <1>4, <1>6
  <2> QED BY <1>3, <1>4, <2>1, <2>2, <2>3 DEF NodesOf
<1>9. DOMAIN nodes' \subseteq 0..(nextNodeId' - 1) /\ nextNodeId' \in Nat
  <2>1. nextNodeId \in Nat /\ DOMAIN nodes \subseteq 0..(nextNodeId - 1)
    BY DEF TypeOK
  <2>2. nextNodeId' \in Nat
    BY <1>1, <1>2, <2>1
  <2>3. \A id \in NewIds : id \in nextNodeId..(nextNodeId' - 1)
    BY <1>1, <1>2, <2>1
  <2>4. nextNodeId <= nextNodeId'
    BY <1>1, <1>2, <2>1
  <2>5. DOMAIN nodes' \subseteq 0..(nextNodeId' - 1)
    <3>1. \A id \in DOMAIN nodes : id \in 0..(nextNodeId' - 1)
      BY <2>1, <2>2, <2>4
    <3>2. \A id \in NewIds : id \in 0..(nextNodeId' - 1)
      BY <2>1, <2>2, <2>3
    <3>3. DOMAIN nodes' = DOMAIN nodes \cup NewIds
      BY <1>3
    <3> QED BY <3>1, <3>2, <3>3
  <2> QED BY <2>2, <2>5
<1>10. \A id \in NewIds : id >= nextNodeId /\ nodes'[id] \in Line
  BY <1>1, <1>4, <1>6, <1>7
<1>11. \A l \in Demanded : NewId(l) >= nextNodeId
  BY <1>4, <1>10
<1>12. nextNodeId \in Nat /\ nextNodeId <= nextNodeId'
  BY <1>1, <1>2 DEF TypeOK
<1>13. DOMAIN nodes' \ DOMAIN nodes \subseteq NewIds
  BY <1>3
<1> QED BY <1>3, <1>5, <1>8, <1>9, <1>10, <1>11, <1>12, <1>13

-----------------------------------------------------------------------------
(* The orders of the client and the messages of the supplier.              *)

\* What check_demmmand gives to a line shows in all books of that line.
LEMMA GivingKeepsBooks ==
  ASSUME TypeOK, LinesOweTheirProducts, MaterialForEveryProduct,
         DemandHasTimer, ReportsTrue,
         NEW k \in Line, NEW n \in Nat,
         line_demmand' = [line_demmand EXCEPT ![k] = @ + n],
         line_inventory' = [line_inventory EXCEPT ![k] = @ + n],
         m_demmand' = [m_demmand EXCEPT ![k] = @ + n],
         timeoutMsg' = TRUE \/ (n = 0 /\ timeoutMsg' = timeoutMsg),
         UNCHANGED <<nextNodeId, nodes, m_history, reports>>
  PROVE  /\ m_demmand' \in [Line -> Nat]
         /\ line_demmand' \in [Line -> Nat]
         /\ line_inventory' \in [Line -> Nat]
         /\ timeoutMsg' \in BOOLEAN
         /\ LinesOweTheirProducts'
         /\ MaterialForEveryProduct'
         /\ DemandHasTimer'
<1>1. /\ m_demmand \in [Line -> Nat]
      /\ line_demmand \in [Line -> Nat]
      /\ line_inventory \in [Line -> Nat]
  BY DEF TypeOK
<1>2. /\ m_demmand' \in [Line -> Nat]
      /\ line_demmand' \in [Line -> Nat]
      /\ line_inventory' \in [Line -> Nat]
  BY <1>1
<1>3. timeoutMsg' \in BOOLEAN
  BY DEF TypeOK
<1>4. \A l \in Line : /\ NodesOf(l)' = NodesOf(l)
                      /\ Unstarted(l)' = Unstarted(l)
                      /\ StartReports(l)' = StartReports(l)
  BY DEF NodesOf, Unstarted, StartReports
<1>5. \A l \in Line : /\ Cardinality(NodesOf(l)) \in Nat
                      /\ Cardinality(Unstarted(l)) \in Nat
                      /\ Cardinality(StartReports(l)) \in Nat
  BY FiniteNodes, FiniteReports
<1>6. LinesOweTheirProducts'
  <2> SUFFICES ASSUME NEW l \in Line
               PROVE  line_demmand'[l] = m_demmand'[l]
                                           + Cardinality(NodesOf(l))
    BY <1>4 DEF LinesOweTheirProducts
  <2>1. line_demmand[l] = m_demmand[l] + Cardinality(NodesOf(l))
    BY DEF LinesOweTheirProducts
  <2> QED BY <1>1, <1>5, <2>1
<1>7. MaterialForEveryProduct'
  <2> SUFFICES ASSUME NEW l \in Line
               PROVE  line_inventory'[l] =
                        m_demmand'[l] + Cardinality(Unstarted(l))
                          + Cardinality(StartReports(l))
    BY <1>4 DEF MaterialForEveryProduct
  <2>1. line_inventory[l] = m_demmand[l] + Cardinality(Unstarted(l))
                              + Cardinality(StartReports(l))
    BY DEF MaterialForEveryProduct
  <2> QED BY <1>1, <1>5, <2>1
<1>8. DemandHasTimer'
  <2> SUFFICES ASSUME NEW l \in Line, m_demmand'[l] > 0
               PROVE  timeoutMsg'
    BY DEF DemandHasTimer
  <2>1. CASE timeoutMsg' = TRUE
    BY <2>1
  <2>2. CASE n = 0 /\ timeoutMsg' = timeoutMsg
    <3>1. m_demmand[l] > 0
      BY <1>1, <2>2
    <3> QED BY <2>2, <3>1 DEF DemandHasTimer
  <2> QED BY <2>1, <2>2
<1> QED BY <1>2, <1>3, <1>6, <1>7, <1>8

\* A check with demand d and inventory i, where d has grown by what was
\* ordered in the step, preserves the invariant.
LEMMA CheckKeepsInv ==
  ASSUME Inv, NEW d \in Nat, NEW i \in Nat, check_demmmand(d, i),
         d = product_demmand + (ordered' - ordered) * OrderSize,
         ordered' \in 0..Orders, delivery' \in Nat, supplying' \in BOOLEAN,
         ended' \in BOOLEAN,
         UNCHANGED <<productVars, failed, m_history, reports>>
  PROVE  Inv'
<1>1. PICK k \in Line, n \in Nat :
        /\ n <= d /\ n <= i
        /\ product_demmand' = d - n
        /\ product_inventory' = i - n
        /\ line_demmand' = [line_demmand EXCEPT ![k] = @ + n]
        /\ line_inventory' = [line_inventory EXCEPT ![k] = @ + n]
        /\ m_demmand' = [m_demmand EXCEPT ![k] = @ + n]
        /\ UNCHANGED <<nextNodeId, nodes>>
        /\ timeoutMsg' = TRUE \/ (n = 0 /\ timeoutMsg' = timeoutMsg)
  BY CheckGivesToOneLine DEF Inv
<1>2. /\ m_demmand' \in [Line -> Nat]
      /\ line_demmand' \in [Line -> Nat]
      /\ line_inventory' \in [Line -> Nat]
      /\ timeoutMsg' \in BOOLEAN
      /\ LinesOweTheirProducts'
      /\ MaterialForEveryProduct'
      /\ DemandHasTimer'
  BY <1>1, GivingKeepsBooks DEF Inv
<1>3. product_demmand' \in Nat /\ product_inventory' \in Nat
  BY <1>1
<1>4. TypeOK'
  BY <1>1, <1>2, <1>3 DEF Inv, TypeOK, productVars
<1>5. ReportsTrue'
  BY <1>1 DEF Inv, ReportsTrue
<1>6. MadeAreGone'
  BY <1>1 DEF Inv, MadeAreGone, productVars
<1>7. OrdersConserved'
  <2> SUFFICES ASSUME ~failed
               PROVE  ordered' * OrderSize =
                        product_demmand' + line_demmand'[0] + line_demmand'[1]
                          + ProductsDone'
    BY DEF OrdersConserved
  <2>1. ProductsDone' = ProductsDone
    BY DEF ProductsDone, productVars
  <2>2. ordered * OrderSize = product_demmand + line_demmand[0]
                                + line_demmand[1] + ProductsDone
    BY DEF Inv, OrdersConserved
  <2>3. line_demmand'[0] + line_demmand'[1]
          = line_demmand[0] + line_demmand[1] + n
    BY <1>1 DEF Inv, TypeOK, Line
  <2>4. /\ line_demmand[0] \in Nat /\ line_demmand[1] \in Nat
        /\ line_demmand'[0] \in Nat /\ line_demmand'[1] \in Nat
        /\ product_demmand \in Nat /\ ordered \in Nat /\ ordered' \in Nat
        /\ OrderSize \in Nat
    BY <1>2, OrdersAssumption DEF Inv, TypeOK, Line
  <2>5. ordered' * OrderSize
          = ordered * OrderSize + (ordered' - ordered) * OrderSize
    BY <2>4
  <2>6. ProductsDone \in Nat
    <3>1. \A l \in Line : Cardinality(production_done[l]) \in Nat
      <4> TAKE l \in Line
      <4>1. production_done[l] \in SUBSET (0..(nextNodeId - 1))
        BY DEF Inv, MadeAreGone
      <4>2. IsFiniteSet(0..(nextNodeId - 1))
        BY FS_Interval DEF Inv, TypeOK
      <4> QED BY <4>1, <4>2, FS_Subset, FS_CardinalityType
    <3> QED BY <3>1 DEF ProductsDone, Line
  <2>7. (ordered' - ordered) * OrderSize \in Int
    BY <2>4
  <2> DEFINE x == (ordered' - ordered) * OrderSize
             y == ordered * OrderSize
             z == ordered' * OrderSize
  <2>8. y \in Int
    BY <2>4
  <2>9. z = y + x /\ d = product_demmand + x
        /\ y = product_demmand + line_demmand[0] + line_demmand[1] + ProductsDone
    BY <2>2, <2>5
  <2>10. x \in Int
    BY <2>7
  <2> HIDE DEF x, y
  <2>11. z = product_demmand' + line_demmand'[0] + line_demmand'[1]
               + ProductsDone
    <3>1. product_demmand' = d - n
      BY <1>1
    <3> DEFINE a == line_demmand[0] + line_demmand[1]
               b == line_demmand'[0] + line_demmand'[1]
    <3>2. a \in Int /\ b = a + n
      BY <2>3, <2>4
    <3>3. y = product_demmand + a + ProductsDone
      BY <2>4, <2>6, <2>9
    <3>4. product_demmand' + line_demmand'[0] + line_demmand'[1] + ProductsDone
            = product_demmand' + b + ProductsDone
      BY <2>4, <2>6, <3>1
    <3> HIDE DEF a, b, z
    <3>5. d = product_demmand + x
      BY <2>9
    <3>6. d \in Int /\ product_demmand \in Int /\ ProductsDone \in Int
      BY <2>4, <2>6
    <3>7. (product_demmand + a + ProductsDone) + x
            = (d - n) + (a + n) + ProductsDone
      BY <2>10, <3>2, <3>5, <3>6
    <3>8. z = product_demmand' + b + ProductsDone
      BY <2>9, <3>1, <3>2, <3>3, <3>7
    <3> QED BY <3>4, <3>8
  <2> QED BY <2>1, <2>11
<1> QED BY <1>2, <1>4, <1>5, <1>6, <1>7 DEF Inv

-----------------------------------------------------------------------------
(* The node factory.                                                       *)

\* A tick of the timer of NodeFactory preserves the invariant.
LEMMA CreationKeepsInv ==
  ASSUME Inv, ProductsCreated
  PROVE  Inv'
<1>1. /\ nextNodeId' \in Nat /\ nextNodeId <= nextNodeId'
      /\ DOMAIN nodes' \subseteq 0..(nextNodeId' - 1)
      /\ \A id \in DOMAIN nodes' \ DOMAIN nodes :
           id >= nextNodeId /\ nodes'[id] \in Line
      /\ DOMAIN nodes \subseteq DOMAIN nodes'
      /\ \A id \in DOMAIN nodes : nodes'[id] = nodes[id]
      /\ \A l \in Line : NodesOf(l)' = IF l \in Demanded
                                       THEN NodesOf(l) \cup {NewId(l)}
                                       ELSE NodesOf(l)
      /\ \A l \in Demanded : NewId(l) >= nextNodeId
  BY CreatesOnePerLine DEF Inv, ProductsCreated
<1>2. UNCHANGED <<serverVars, floorVars>>
  BY DEF ProductsCreated
<1>3. UNCHANGED <<product_demmand, product_inventory, line_demmand,
                  line_inventory, production_starts, production_done,
                  production_defect, ended, failed, ordered, delivery,
                  supplying, m_history, reports>>
  BY <1>2 DEF serverVars, stockVars, lineVars, productVars, outcomeVars,
              floorVars
<1>4. /\ timeoutMsg' = (Demanded # {})
      /\ m_demmand' = [l \in Line |-> IF l \in Demanded THEN m_demmand[l] - 1
                                      ELSE m_demmand[l]]
  BY DEF ProductsCreated, createNodes
<1>5. nextNodeId \in Nat /\ DOMAIN nodes \subseteq 0..(nextNodeId - 1)
  BY DEF Inv, TypeOK
<1>6. m_demmand \in [Line -> Nat] /\ m_demmand' \in [Line -> Nat]
  <2>1. m_demmand \in [Line -> Nat]
    BY DEF Inv, TypeOK
  <2>2. \A l \in Demanded : m_demmand[l] - 1 \in Nat
    BY <2>1 DEF Demanded
  <2> QED BY <1>4, <2>1, <2>2
<1>7. \A i \in 0..(nextNodeId - 1) : i \in 0..(nextNodeId' - 1)
  <2>1. nextNodeId \in Nat /\ nextNodeId' \in Nat /\ nextNodeId <= nextNodeId'
    BY <1>1, <1>5
  <2>2. \A a, b \in Nat : a <= b => \A i \in 0..(a - 1) : i \in 0..(b - 1)
    OBVIOUS
  <2> QED BY <2>1, <2>2
<1>8. TypeOK'
  <2>1. \A id \in DOMAIN nodes' : nodes'[id] \in Line
    BY <1>1 DEF Inv, TypeOK
  <2>2. timeoutMsg' \in BOOLEAN
    BY <1>4
  <2> QED BY <1>1, <1>3, <1>6, <2>1, <2>2 DEF Inv, TypeOK
<1>9. ReportsTrue'
  <2>1. \A s \in Sensor : m_history[s] \subseteq 0..(nextNodeId' - 1)
    BY <1>7 DEF Inv, ReportsTrue
  <2>2. ASSUME NEW r \in reports, r.tag \in DOMAIN nodes'
        PROVE  r.line = nodes'[r.tag]
    <3>1. r.tag \in 0..(nextNodeId - 1)
      <4>1. r.sensor \in Sensor
        BY DEF Inv, TypeOK, Report
      <4> QED BY <4>1 DEF Inv, ReportsTrue
    <3>2. r.tag \in DOMAIN nodes
      BY <1>1, <1>5, <2>2, <3>1
    <3> QED BY <1>1, <3>2 DEF Inv, ReportsTrue
  <2> QED BY <1>3, <2>1, <2>2 DEF Inv, ReportsTrue
<1>10. MadeAreGone'
  <2>1. ASSUME NEW l \in Line
        PROVE  production_done[l] \subseteq 0..(nextNodeId' - 1)
    BY <1>7 DEF Inv, MadeAreGone
  <2>2. ASSUME NEW l \in Line, ~failed, NEW i \in production_done[l],
               i \in DOMAIN nodes'
        PROVE  FALSE
    <3>1. i \in 0..(nextNodeId - 1) /\ i \notin DOMAIN nodes
      BY <2>2 DEF Inv, MadeAreGone
    <3> QED BY <1>1, <1>5, <2>2, <3>1
  <2> QED BY <1>3, <2>1, <2>2 DEF MadeAreGone
<1>11. \A l \in Line : l \in Demanded =>
         /\ NewId(l) \notin DOMAIN nodes
         /\ NewId(l) \notin m_history["PRODUCT"]
  <2> TAKE l \in Line
  <2> HAVE l \in Demanded
  <2>1. NewId(l) \notin 0..(nextNodeId - 1)
    BY <1>1, <1>5
  <2>2. m_history["PRODUCT"] \subseteq 0..(nextNodeId - 1)
    BY DEF Inv, ReportsTrue, Sensor
  <2> QED BY <1>5, <2>1, <2>2
<1>12. LinesOweTheirProducts'
  <2> SUFFICES ASSUME NEW l \in Line
               PROVE  line_demmand[l] = m_demmand'[l] + Cardinality(NodesOf(l)')
    BY <1>3 DEF LinesOweTheirProducts
  <2>1. line_demmand[l] = m_demmand[l] + Cardinality(NodesOf(l))
    BY DEF Inv, LinesOweTheirProducts
  <2>2. IsFiniteSet(NodesOf(l)) /\ Cardinality(NodesOf(l)) \in Nat
    BY FiniteNodes DEF Inv
  <2>3. CASE l \in Demanded
    <3>1. NewId(l) \notin NodesOf(l)
      BY <1>11, <2>3 DEF NodesOf
    <3>2. Cardinality(NodesOf(l)') = Cardinality(NodesOf(l)) + 1
      BY <1>1, <2>2, <2>3, <3>1, FS_AddElement
    <3> QED BY <1>4, <1>6, <2>1, <2>2, <2>3, <3>2
  <2>4. CASE l \notin Demanded
    BY <1>1, <1>4, <2>1, <2>4
  <2> QED BY <2>3, <2>4
<1>13. MaterialForEveryProduct'
  <2> SUFFICES ASSUME NEW l \in Line
               PROVE  line_inventory[l] =
                        m_demmand'[l] + Cardinality(Unstarted(l)')
                          + Cardinality(StartReports(l))
    BY <1>3 DEF MaterialForEveryProduct, StartReports
  <2>1. line_inventory[l] = m_demmand[l] + Cardinality(Unstarted(l))
                              + Cardinality(StartReports(l))
    BY DEF Inv, MaterialForEveryProduct
  <2>2. /\ IsFiniteSet(Unstarted(l)) /\ Cardinality(Unstarted(l)) \in Nat
        /\ Cardinality(StartReports(l)) \in Nat
    BY FiniteNodes, FiniteReports DEF Inv
  <2>3. Unstarted(l)' = NodesOf(l)' \ m_history["PRODUCT"]
    BY <1>3 DEF Unstarted
  <2>4. Unstarted(l) = NodesOf(l) \ m_history["PRODUCT"]
    BY DEF Unstarted
  <2>5. CASE l \in Demanded
    <3>1. Unstarted(l)' = Unstarted(l) \cup {NewId(l)}
      BY <1>1, <1>11, <2>3, <2>4, <2>5
    <3>2. NewId(l) \notin Unstarted(l)
      BY <1>11, <2>5 DEF Unstarted, NodesOf
    <3>3. Cardinality(Unstarted(l)') = Cardinality(Unstarted(l)) + 1
      BY <2>2, <3>1, <3>2, FS_AddElement
    <3> QED BY <1>4, <1>6, <2>1, <2>2, <2>5, <3>3
  <2>6. CASE l \notin Demanded
    BY <1>1, <1>4, <2>1, <2>3, <2>4, <2>6
  <2> QED BY <2>5, <2>6
<1>14. OrdersConserved'
  BY <1>3 DEF Inv, OrdersConserved, ProductsDone
<1>15. DemandHasTimer'
  <2> SUFFICES ASSUME NEW l \in Line, m_demmand'[l] > 0
               PROVE  timeoutMsg'
    BY DEF DemandHasTimer
  <2>1. m_demmand[l] > 0
    BY <1>4, <1>6 DEF Demanded
  <2> QED BY <1>4, <2>1 DEF Demanded
<1> QED BY <1>8, <1>9, <1>10, <1>12, <1>13, <1>14, <1>15 DEF Inv

-----------------------------------------------------------------------------
(* The sensors.                                                            *)

\* A sensor that reads a tag preserves the invariant.
LEMMA ReadingKeepsInv ==
  ASSUME Inv, NEW s \in Sensor, NEW id \in DOMAIN nodes, NEW v \in Readings,
         ReadTag(s, id, v)
  PROVE  Inv'
<1> DEFINE rep == [line |-> nodes[id], sensor |-> s, tag |-> id, reading |-> v]
<1>1. /\ id \notin m_history[s]
      /\ \A b \in Before(s) : id \in m_history[b]
      /\ m_history' = [m_history EXCEPT ![s] = @ \cup {id}]
      /\ reports' = reports \cup {rep}
      /\ UNCHANGED <<ordered, delivery, supplying>>
  BY DEF ReadTag
<1>2. UNCHANGED <<m_demmand, timeoutMsg, nextNodeId, nodes, product_demmand,
                  product_inventory, line_demmand, line_inventory,
                  production_starts, production_done, production_defect,
                  ended, failed>>
  BY DEF ReadTag, factoryVars, serverVars, stockVars, lineVars, productVars,
         outcomeVars
<1>3. rep \in Report
  BY ReadingsAssumption DEF Inv, TypeOK, Report
<1>4. /\ m_history \in [Sensor -> SUBSET Nat]
      /\ m_history' \in [Sensor -> SUBSET Nat]
      /\ id \in 0..(nextNodeId - 1) /\ id \in Nat
  BY <1>1 DEF Inv, TypeOK
<1>5. TypeOK'
  BY <1>1, <1>2, <1>3, <1>4 DEF Inv, TypeOK
<1>6. ReportsTrue'
  <2>1. IsFiniteSet(reports')
    BY <1>1, FS_AddElement DEF Inv, ReportsTrue
  <2>2. \A t \in Sensor : m_history[t] \subseteq m_history'[t]
    BY <1>1, <1>4
  <2>3. \A t \in Sensor : m_history'[t] \subseteq 0..(nextNodeId - 1)
    BY <1>1, <1>4 DEF Inv, ReportsTrue
  <2>4. ASSUME NEW r \in reports
        PROVE  /\ r.tag \in m_history'[r.sensor]
               /\ \A b \in Before(r.sensor) : r.tag \in m_history'[b]
               /\ r.tag \in DOMAIN nodes => r.line = nodes[r.tag]
    <3>1. r.sensor \in Sensor /\ Before(r.sensor) \subseteq Sensor
      BY DEF Inv, TypeOK, Report, Sensor, Before
    <3> QED BY <2>2, <3>1 DEF Inv, ReportsTrue
  <2>5. /\ rep.tag \in m_history'[rep.sensor]
        /\ \A b \in Before(rep.sensor) : rep.tag \in m_history'[b]
        /\ rep.tag \in DOMAIN nodes => rep.line = nodes[rep.tag]
    <3>1. Before(s) \subseteq Sensor
      BY DEF Sensor, Before
    <3> QED BY <1>1, <1>4, <2>2, <3>1
  <2> QED BY <1>1, <1>2, <2>1, <2>3, <2>4, <2>5 DEF ReportsTrue
<1>7. MadeAreGone'
  BY <1>2 DEF Inv, MadeAreGone
<1>8. LinesOweTheirProducts' /\ OrdersConserved' /\ DemandHasTimer'
  BY <1>1, <1>2 DEF Inv, LinesOweTheirProducts, OrdersConserved,
                    DemandHasTimer, NodesOf, ProductsDone
<1>9. MaterialForEveryProduct'
  <2> SUFFICES ASSUME NEW l \in Line
               PROVE  line_inventory[l] =
                        m_demmand[l] + Cardinality(Unstarted(l)')
                          + Cardinality(StartReports(l)')
    BY <1>2 DEF MaterialForEveryProduct
  <2>1. line_inventory[l] = m_demmand[l] + Cardinality(Unstarted(l))
                              + Cardinality(StartReports(l))
    BY DEF Inv, MaterialForEveryProduct
  <2>2. /\ IsFiniteSet(Unstarted(l)) /\ Cardinality(Unstarted(l)) \in Nat
        /\ IsFiniteSet(StartReports(l)) /\ Cardinality(StartReports(l)) \in Nat
        /\ m_demmand[l] \in Nat
    BY FiniteNodes, FiniteReports DEF Inv, TypeOK
  <2>3. Unstarted(l) = {i \in NodesOf(l) : i \notin m_history["PRODUCT"]}
    BY DEF Unstarted
  <2>4. Unstarted(l)' = {i \in NodesOf(l) : i \notin m_history'["PRODUCT"]}
    BY <1>2 DEF Unstarted, NodesOf
  <2>5. CASE s = "PRODUCT" /\ l = nodes[id]
    <3>1. Unstarted(l)' = Unstarted(l) \ {id}
      BY <1>1, <1>4, <2>3, <2>4, <2>5
    <3>2. id \in Unstarted(l)
      BY <1>1, <2>5 DEF Unstarted, NodesOf
    <3>3. Cardinality(Unstarted(l)') = Cardinality(Unstarted(l)) - 1
      BY <2>2, <3>1, <3>2, FS_RemoveElement
    <3>4. StartReports(l)' = StartReports(l) \cup {rep}
      BY <1>1, <2>5 DEF StartReports
    <3>5. rep \notin reports
      BY <1>1 DEF Inv, ReportsTrue
    <3>6. rep \notin StartReports(l)
      BY <3>5 DEF StartReports
    <3>7. Cardinality(StartReports(l)') = Cardinality(StartReports(l)) + 1
      BY <2>2, <3>4, <3>6, FS_AddElement
    <3> QED BY <2>1, <2>2, <3>3, <3>7
  <2>6. CASE ~(s = "PRODUCT" /\ l = nodes[id])
    <3>1. Unstarted(l)' = Unstarted(l)
      <4>1. \A i \in NodesOf(l) : i \in m_history'["PRODUCT"]
                                    <=> i \in m_history["PRODUCT"]
        BY <1>1, <1>4, <2>6 DEF NodesOf
      <4> QED BY <2>3, <2>4, <4>1
    <3>2. StartReports(l)' = StartReports(l)
      BY <1>1, <2>6 DEF StartReports
    <3> QED BY <2>1, <3>1, <3>2
  <2> QED BY <2>5, <2>6
<1> QED BY <1>5, <1>6, <1>7, <1>8, <1>9 DEF Inv

\* A report has reached the server.
LEMMA ReportLeaves ==
  ASSUME Inv, NEW r \in reports, reports' = reports \ {r},
         UNCHANGED <<nextNodeId, m_history>>,
         DOMAIN nodes' \subseteq DOMAIN nodes,
         \A id \in DOMAIN nodes' : nodes'[id] = nodes[id]
  PROVE  ReportsTrue'
<1>1. IsFiniteSet(reports')
  BY FS_RemoveElement DEF Inv, ReportsTrue
<1> QED BY <1>1 DEF Inv, ReportsTrue

\* SENSOR_PRODUCT: the material that the line counted for the report is used.
LEMMA StartKeepsInv ==
  ASSUME Inv, NEW r \in reports, r.sensor = "PRODUCT",
         process_start(r.line, r.tag), reports' = reports \ {r},
         UNCHANGED <<ordered, delivery, supplying, m_history>>
  PROVE  Inv'
<1>1. UNCHANGED <<m_demmand, timeoutMsg, nextNodeId, nodes, product_demmand,
                  product_inventory, line_demmand, production_done,
                  production_defect, ended, failed>>
  BY DEF process_start, factoryVars, stockVars, outcomeVars
<1>2. /\ line_inventory' = [line_inventory EXCEPT ![r.line] = @ - 1]
      /\ production_starts' = [production_starts EXCEPT ![r.line] = @ \cup {r.tag}]
  BY DEF process_start
<1>3. r.line \in Line /\ r.tag \in Nat
  BY DEF Inv, TypeOK, Report
<1>4. line_inventory \in [Line -> Nat]
  BY DEF Inv, TypeOK
<1>5. MaterialForEveryProduct' /\ line_inventory' \in [Line -> Nat]
  <2> SUFFICES ASSUME NEW l \in Line
               PROVE  /\ line_inventory'[l] =
                           m_demmand[l] + Cardinality(Unstarted(l))
                             + Cardinality(StartReports(l)')
                      /\ line_inventory'[l] \in Nat
    <3>1. \A l \in Line : Unstarted(l)' = Unstarted(l)
      BY <1>1 DEF Unstarted, NodesOf
    <3>2. line_inventory' = [l \in Line |-> line_inventory'[l]]
      BY <1>2, <1>4
    <3> QED BY <1>1, <3>1, <3>2 DEF MaterialForEveryProduct
  <2>1. line_inventory[l] = m_demmand[l] + Cardinality(Unstarted(l))
                              + Cardinality(StartReports(l))
    BY DEF Inv, MaterialForEveryProduct
  <2>2. /\ Cardinality(Unstarted(l)) \in Nat
        /\ IsFiniteSet(StartReports(l)) /\ Cardinality(StartReports(l)) \in Nat
        /\ m_demmand[l] \in Nat
    BY FiniteNodes, FiniteReports DEF Inv, TypeOK
  <2>3. CASE l = r.line
    <3>1. StartReports(l)' = StartReports(l) \ {r}
      BY DEF StartReports
    <3>2. r \in StartReports(l)
      BY <2>3 DEF StartReports
    <3>3. /\ Cardinality(StartReports(l)') = Cardinality(StartReports(l)) - 1
          /\ IsFiniteSet(StartReports(l)')
      BY <2>2, <3>1, <3>2, FS_RemoveElement
    <3>4. Cardinality(StartReports(l)') \in Nat
      BY <3>3, FS_CardinalityType
    <3> QED BY <1>2, <1>3, <1>4, <2>1, <2>2, <2>3, <3>3, <3>4
  <2>4. CASE l # r.line
    <3>1. StartReports(l)' = StartReports(l)
      BY <2>4 DEF StartReports
    <3> QED BY <1>2, <1>3, <1>4, <2>1, <2>2, <2>4, <3>1
  <2> QED BY <2>3, <2>4
<1>6. TypeOK'
  BY <1>1, <1>2, <1>3, <1>5 DEF Inv, TypeOK
<1>7. ReportsTrue'
  BY <1>1, ReportLeaves
<1>8. MadeAreGone' /\ LinesOweTheirProducts' /\ OrdersConserved' /\ DemandHasTimer'
  BY <1>1 DEF Inv, MadeAreGone, LinesOweTheirProducts, OrdersConserved,
              DemandHasTimer, NodesOf, ProductsDone
<1> QED BY <1>5, <1>6, <1>7, <1>8 DEF Inv

\* A product leaves its line, made (owed = 0) or defective (owed = 1): the
\* line owes one less, and the order is conserved either way.
LEMMA LeavingKeepsInv ==
  ASSUME Inv, ~failed, NEW r \in reports, r.sensor # "PRODUCT",
         NEW owed \in {0, 1}, Leaves(r.line, r.tag, owed),
         production_done' = IF owed = 1 THEN production_done
                            ELSE [production_done EXCEPT ![r.line] = @ \cup {r.tag}],
         production_defect' \in [Line -> SUBSET Nat],
         reports' = reports \ {r},
         UNCHANGED <<ordered, delivery, supplying, m_history>>
  PROVE  Inv'
<1>1. UNCHANGED <<m_demmand, timeoutMsg, nextNodeId, line_inventory,
                  product_inventory, ended>>
  BY DEF Leaves, deleteNode, factoryVars
<1>2. production_starts' = [production_starts EXCEPT ![r.line] = @ \ {r.tag}]
  BY DEF Leaves
<1>3. r.line \in Line /\ r.tag \in Nat /\ r.sensor \in {"WEIGTH", "SIZE"}
  BY DEF Inv, TypeOK, Report, Sensor
<1>4. r.tag \in m_history["PRODUCT"] /\ r.tag \in 0..(nextNodeId - 1)
  <2>1. "PRODUCT" \in Before(r.sensor) /\ "PRODUCT" \in Sensor
    BY <1>3 DEF Before, Sensor
  <2> QED BY <2>1 DEF Inv, ReportsTrue
<1>5. /\ line_demmand \in [Line -> Nat] /\ line_inventory \in [Line -> Nat]
      /\ production_starts \in [Line -> SUBSET Nat]
      /\ production_done \in [Line -> SUBSET Nat]
      /\ product_demmand \in Nat
      /\ m_demmand \in [Line -> Nat]
  BY DEF Inv, TypeOK
<1>6. /\ production_starts' \in [Line -> SUBSET Nat]
      /\ production_done' \in [Line -> SUBSET Nat]
  BY <1>2, <1>3, <1>5
<1>7. \A l \in Line : production_done'[l] \subseteq 0..(nextNodeId - 1)
  BY <1>3, <1>4, <1>5 DEF Inv, MadeAreGone
<1>8. \A l \in Line : StartReports(l)' = StartReports(l)
  BY DEF StartReports
<1>9. CASE r.tag \in DOMAIN nodes
  <2>1. /\ nodes' = Restrict(nodes, DOMAIN nodes \ {r.tag})
        /\ line_demmand' = [line_demmand EXCEPT ![r.line] = @ - 1]
        /\ product_demmand' = product_demmand + owed
        /\ failed' = failed
    BY <1>9 DEF Leaves, deleteNode
  <2>2. /\ DOMAIN nodes' = DOMAIN nodes \ {r.tag}
        /\ \A id \in DOMAIN nodes' : nodes'[id] = nodes[id]
    BY <2>1 DEF Restrict
  <2>3. nodes[r.tag] = r.line
    BY <1>9 DEF Inv, ReportsTrue
  <2>4. \A l \in Line : Unstarted(l)' = Unstarted(l)
    BY <1>4, <2>2 DEF Unstarted, NodesOf
  <2>5. \A l \in Line : NodesOf(l)' = IF l = r.line THEN NodesOf(l) \ {r.tag}
                                      ELSE NodesOf(l)
    BY <2>2, <2>3 DEF NodesOf
  <2>6. r.tag \in NodesOf(r.line)
    BY <1>9, <2>3 DEF NodesOf
  <2>7. \A l \in Line : /\ line_demmand[l] = m_demmand[l] + Cardinality(NodesOf(l))
                        /\ IsFiniteSet(NodesOf(l))
                        /\ Cardinality(NodesOf(l)) \in Nat
    BY FiniteNodes DEF Inv, LinesOweTheirProducts
  <2>8. /\ Cardinality(NodesOf(r.line)') = Cardinality(NodesOf(r.line)) - 1
        /\ Cardinality(NodesOf(r.line)') \in Nat
    <3>1. /\ NodesOf(r.line)' = NodesOf(r.line) \ {r.tag}
          /\ IsFiniteSet(NodesOf(r.line))
      BY <1>3, <2>5, <2>7
    <3> QED BY <2>6, <3>1, FS_RemoveElement, FS_CardinalityType
  <2>9. LinesOweTheirProducts' /\ line_demmand' \in [Line -> Nat]
    <3> SUFFICES ASSUME NEW l \in Line
                 PROVE  /\ line_demmand'[l] = m_demmand[l] + Cardinality(NodesOf(l)')
                        /\ line_demmand'[l] \in Nat
      <4>1. line_demmand' = [l \in Line |-> line_demmand'[l]]
        BY <1>5, <2>1
      <4> QED BY <1>1, <4>1 DEF LinesOweTheirProducts
    <3>1. CASE l = r.line
      BY <1>3, <1>5, <2>1, <2>7, <2>8, <3>1
    <3>2. CASE l # r.line
      BY <1>3, <1>5, <2>1, <2>5, <2>7, <3>2
    <3> QED BY <3>1, <3>2
  <2>10. TypeOK'
    <3>1. product_demmand' \in Nat
      BY <1>5, <2>1
    <3>2. DOMAIN nodes' \subseteq 0..(nextNodeId - 1)
      BY <2>2 DEF Inv, TypeOK
    <3>3. \A id \in DOMAIN nodes' : nodes'[id] \in Line
      BY <2>2 DEF Inv, TypeOK
    <3> QED BY <1>1, <1>6, <2>1, <2>9, <3>1, <3>2, <3>3 DEF Inv, TypeOK
  <2>11. ReportsTrue'
    BY <1>1, <2>2, ReportLeaves
  <2>12. MadeAreGone'
    <3>1. \A l \in Line : production_done'[l] \cap DOMAIN nodes' = {}
      BY <1>3, <1>5, <2>2 DEF Inv, MadeAreGone
    <3> QED BY <1>1, <1>7, <3>1 DEF MadeAreGone
  <2>13. MaterialForEveryProduct' /\ DemandHasTimer'
    BY <1>1, <1>8, <2>4 DEF Inv, MaterialForEveryProduct, DemandHasTimer
  <2>14. OrdersConserved'
    <3>1. \A l \in Line : /\ IsFiniteSet(production_done[l])
                          /\ Cardinality(production_done[l]) \in Nat
      <4> TAKE l \in Line
      <4>1. production_done[l] \in SUBSET (0..(nextNodeId - 1))
        BY DEF Inv, MadeAreGone
      <4>2. IsFiniteSet(0..(nextNodeId - 1))
        BY FS_Interval DEF Inv, TypeOK
      <4> QED BY <4>1, <4>2, FS_Subset, FS_CardinalityType
    <3>2. Cardinality(production_done'[r.line])
            = Cardinality(production_done[r.line]) + (1 - owed)
      <4>1. CASE owed = 0
        <5>1. production_done'[r.line] = production_done[r.line] \cup {r.tag}
          BY <1>3, <1>5, <4>1
        <5>2. r.tag \notin production_done[r.line]
          BY <1>3, <1>9 DEF Inv, MadeAreGone
        <5>3. Cardinality(production_done'[r.line])
                = Cardinality(production_done[r.line]) + 1
          BY <1>3, <3>1, <5>1, <5>2, FS_AddElement
        <5>4. 1 - owed = 1
          BY <4>1
        <5> QED BY <5>3, <5>4
      <4>2. CASE owed = 1
        <5>1. production_done'[r.line] = production_done[r.line]
          BY <4>2
        <5>2. /\ 1 - owed = 0
              /\ Cardinality(production_done[r.line])
                   = Cardinality(production_done[r.line]) + 0
          BY <1>3, <3>1, <4>2
        <5> QED BY <5>1, <5>2
      <4> QED BY <4>1, <4>2
    <3>3. 0 \in Line /\ 1 \in Line /\ (r.line = 0 \/ r.line = 1)
      BY <1>3 DEF Line
    <3>4. ProductsDone' = ProductsDone + (1 - owed)
      <4> DEFINE a == Cardinality(production_done[0])
                 b == Cardinality(production_done[1])
      <4>1. 1 - owed \in Int /\ a \in Int /\ b \in Int
        BY <3>1, <3>3
      <4>2. /\ ProductsDone = a + b
            /\ ProductsDone' = Cardinality(production_done'[0])
                                 + Cardinality(production_done'[1])
        BY DEF ProductsDone
      <4>3. CASE r.line = 0
        <5>1. production_done'[1] = production_done[1]
          BY <1>5, <4>3 DEF Line
        <5>2. ProductsDone' = (a + (1 - owed)) + b
          BY <3>2, <4>2, <4>3, <5>1
        <5>3. (a + (1 - owed)) + b = (a + b) + (1 - owed)
          BY <4>1
        <5> QED BY <4>2, <5>2, <5>3
      <4>4. CASE r.line = 1
        <5>1. production_done'[0] = production_done[0]
          BY <1>5, <4>4 DEF Line
        <5>2. ProductsDone' = a + (b + (1 - owed))
          BY <3>2, <4>2, <4>4, <5>1
        <5>3. a + (b + (1 - owed)) = (a + b) + (1 - owed)
          BY <4>1
        <5> QED BY <4>2, <5>2, <5>3
      <4> QED BY <3>3, <4>3, <4>4
    <3>5. ProductsDone \in Nat
      BY <3>1, <3>3 DEF ProductsDone
    <3>6. line_demmand'[0] + line_demmand'[1]
            = line_demmand[0] + line_demmand[1] - 1
      BY <1>5, <2>1, <3>3
    <3>7. /\ line_demmand[0] \in Nat /\ line_demmand[1] \in Nat
          /\ line_demmand'[0] \in Nat /\ line_demmand'[1] \in Nat
      BY <1>5, <2>9, <3>3
    <3>8. ordered * OrderSize = product_demmand + line_demmand[0]
                                  + line_demmand[1] + ProductsDone
      BY DEF Inv, OrdersConserved
    <3> DEFINE all == ordered * OrderSize
    <3>9. all = product_demmand' + line_demmand'[0] + line_demmand'[1]
                  + ProductsDone'
      <4> HIDE DEF all
      <4>1. all = product_demmand + line_demmand[0] + line_demmand[1]
                    + ProductsDone
        BY <3>8 DEF all
      <4> QED BY <1>5, <2>1, <3>4, <3>5, <3>6, <3>7, <4>1
    <3> QED BY <3>9 DEF OrdersConserved
  <2> QED BY <2>9, <2>10, <2>11, <2>12, <2>13, <2>14 DEF Inv
<1>10. CASE r.tag \notin DOMAIN nodes
  <2>1. failed' = TRUE /\ UNCHANGED <<nodes, line_demmand, product_demmand>>
    BY <1>10 DEF Leaves, factoryVars
  <2>2. TypeOK'
    BY <1>1, <1>6, <2>1 DEF Inv, TypeOK
  <2>3. ReportsTrue'
    BY <1>1, <2>1, ReportLeaves
  <2>4. MadeAreGone'
    BY <1>1, <1>7, <2>1 DEF MadeAreGone
  <2>5. /\ LinesOweTheirProducts' /\ MaterialForEveryProduct'
        /\ OrdersConserved' /\ DemandHasTimer'
    BY <1>1, <1>8, <2>1 DEF Inv, LinesOweTheirProducts, OrdersConserved,
       MaterialForEveryProduct, DemandHasTimer, NodesOf, Unstarted
  <2> QED BY <2>2, <2>3, <2>4, <2>5 DEF Inv
<1> QED BY <1>9, <1>10

\* The server processing a report preserves the invariant.
LEMMA ReportKeepsInv ==
  ASSUME Inv, Running, NEW r \in reports, ReportArrives(r)
  PROVE  Inv'
<1>1. /\ reports' = reports \ {r}
      /\ process_sensor(r.line, r.sensor, r.tag, r.reading)
      /\ UNCHANGED <<ordered, delivery, supplying, m_history>>
  BY DEF ReportArrives
<1>2. r.line \in Line /\ r.tag \in Nat /\ r.sensor \in Sensor
  BY DEF Inv, TypeOK, Report
<1>3. CASE r.sensor = "PRODUCT"
  <2>1. process_start(r.line, r.tag)
    BY <1>1, <1>3 DEF process_sensor
  <2> QED BY <1>1, <1>3, <2>1, StartKeepsInv
<1>4. CASE r.sensor # "PRODUCT" /\ process_defect(r.line, r.tag)
  <2>1. /\ Leaves(r.line, r.tag, 1)
        /\ production_done' = production_done
        /\ production_defect' \in [Line -> SUBSET Nat]
    BY <1>2, <1>4 DEF process_defect, Inv, TypeOK
  <2> QED BY <1>1, <1>4, <2>1, LeavingKeepsInv DEF Running
<1>5. CASE r.sensor # "PRODUCT" /\ process_done(r.line, r.tag)
  <2>1. /\ Leaves(r.line, r.tag, 0)
        /\ production_done' = [production_done EXCEPT ![r.line] = @ \cup {r.tag}]
        /\ production_defect' \in [Line -> SUBSET Nat]
    BY <1>2, <1>5 DEF process_done, Inv, TypeOK
  <2>2. production_done' = IF 0 = 1 THEN production_done
                           ELSE [production_done EXCEPT ![r.line] = @ \cup {r.tag}]
    BY <2>1
  <2>3. 0 \in {0, 1} /\ ~failed
    BY DEF Running
  <2> QED BY <1>1, <1>5, <2>1, <2>2, <2>3, LeavingKeepsInv
<1>6. CASE r.sensor # "PRODUCT" /\ process_pass
  <2>1. UNCHANGED <<factoryVars, serverVars>>
    BY <1>6 DEF process_pass
  <2>2. ReportsTrue'
    BY <1>1, <2>1, ReportLeaves DEF factoryVars
  <2>3. \A l \in Line : StartReports(l)' = StartReports(l)
    BY <1>1, <1>6 DEF StartReports
  <2>4. TypeOK'
    BY <1>1, <2>1 DEF Inv, TypeOK, factoryVars, serverVars, stockVars, lineVars,
                      productVars, outcomeVars
  <2>5. /\ MadeAreGone' /\ LinesOweTheirProducts' /\ MaterialForEveryProduct'
        /\ OrdersConserved' /\ DemandHasTimer'
    BY <1>1, <2>1, <2>3
       DEF Inv, MadeAreGone, LinesOweTheirProducts, OrdersConserved,
           MaterialForEveryProduct, DemandHasTimer, NodesOf, Unstarted,
           ProductsDone, factoryVars, serverVars, stockVars, lineVars,
           productVars, outcomeVars
  <2> QED BY <2>2, <2>4, <2>5 DEF Inv
<1>7. r.sensor = "PRODUCT" \/ process_defect(r.line, r.tag)
        \/ process_done(r.line, r.tag) \/ process_pass
  <2>1. CASE r.sensor = "WEIGTH"
    BY <1>1, <2>1 DEF process_sensor
  <2>2. CASE r.sensor = "SIZE"
    BY <1>1, <2>2 DEF process_sensor
  <2> QED BY <1>2, <2>1, <2>2 DEF Sensor
<1> QED BY <1>3, <1>4, <1>5, <1>6, <1>7

-----------------------------------------------------------------------------
(* The theorems.                                                           *)

\* initialize of both modules establishes the invariant.
LEMMA InitInv == Init => Inv
<1> SUFFICES ASSUME Init PROVE Inv
  OBVIOUS
<1>1. /\ m_demmand = [l \in Line |-> 0] /\ timeoutMsg = FALSE
      /\ nextNodeId = 0 /\ nodes = << >>
  BY DEF Init, FactoryInit
<1>2. /\ product_demmand = 0 /\ product_inventory = 0
      /\ line_demmand = [l \in Line |-> 0]
      /\ line_inventory = [l \in Line |-> 0]
      /\ production_starts = [l \in Line |-> {}]
      /\ production_done = [l \in Line |-> {}]
      /\ production_defect = [l \in Line |-> {}]
      /\ ended = FALSE /\ failed = FALSE
  BY DEF Init, ServerInit
<1>3. /\ ordered = 0 /\ delivery = 0 /\ supplying = TRUE
      /\ m_history = [s \in Sensor |-> {}] /\ reports = {}
  BY DEF Init, Supplier!SupplyInit
<1>4. DOMAIN nodes = {}
  BY <1>1
<1>5. Cardinality({}) = 0 /\ IsFiniteSet({})
  BY FS_EmptySet
<1>6. TypeOK
  <2>1. 0 \in 0..Orders
    BY OrdersAssumption
  <2> QED BY <1>1, <1>2, <1>3, <1>4, <2>1 DEF TypeOK
<1>7. ReportsTrue
  BY <1>3, <1>5 DEF ReportsTrue
<1>8. MadeAreGone
  BY <1>2 DEF MadeAreGone
<1>9. \A l \in Line : NodesOf(l) = {} /\ Unstarted(l) = {} /\ StartReports(l) = {}
  BY <1>3, <1>4 DEF NodesOf, Unstarted, StartReports
<1>10. LinesOweTheirProducts /\ MaterialForEveryProduct
  <2>1. \A l \in Line : /\ Cardinality(NodesOf(l)) = 0
                        /\ Cardinality(Unstarted(l)) = 0
                        /\ Cardinality(StartReports(l)) = 0
    BY <1>5, <1>9
  <2> QED BY <1>1, <1>2, <2>1 DEF LinesOweTheirProducts, MaterialForEveryProduct
<1>11. OrdersConserved
  <2>1. ProductsDone = 0
    BY <1>2, <1>5 DEF ProductsDone, Line
  <2>2. ordered * OrderSize = 0
    BY <1>3, OrdersAssumption
  <2> QED BY <1>2, <2>1, <2>2 DEF OrdersConserved, Line
<1>12. DemandHasTimer
  BY <1>1 DEF DemandHasTimer
<1> QED BY <1>6, <1>7, <1>8, <1>10, <1>11, <1>12 DEF Inv

\* Every event preserves the invariant.
LEMMA NextInv == Inv /\ [Next]_vars => Inv'
<1> SUFFICES ASSUME Inv, [Next]_vars PROVE Inv'
  OBVIOUS
<1>1. ASSUME Running, ClientOrders PROVE Inv'
  <2>1. /\ check_demmmand(product_demmand + OrderSize, product_inventory)
        /\ ordered < Orders /\ ordered' = ordered + 1
        /\ UNCHANGED <<productVars, ended, failed, delivery, supplying,
                       m_history, reports>>
    BY <1>1 DEF ClientOrders, process_client, outcomeVars
  <2>2. /\ product_demmand \in Nat /\ product_inventory \in Nat
        /\ ordered \in 0..Orders /\ delivery \in Nat /\ ended \in BOOLEAN
        /\ supplying \in BOOLEAN /\ OrderSize \in Nat /\ Orders \in Nat
    BY OrdersAssumption DEF Inv, TypeOK
  <2>3. /\ product_demmand + OrderSize \in Nat
        /\ product_demmand + OrderSize
             = product_demmand + (ordered' - ordered) * OrderSize
        /\ ordered' \in 0..Orders
    <3>1. ordered' - ordered = 1 /\ ordered' \in 0..Orders
      BY <2>1, <2>2
    <3>2. 1 * OrderSize = OrderSize /\ product_demmand + OrderSize \in Nat
      BY <2>2
    <3>3. (ordered' - ordered) * OrderSize = OrderSize
      BY <3>1, <3>2
    <3> QED BY <3>1, <3>2, <3>3
  <2>4. delivery' \in Nat /\ supplying' \in BOOLEAN /\ ended' \in BOOLEAN
    BY <2>1, <2>2
  <2> QED BY <2>1, <2>2, <2>3, <2>4, CheckKeepsInv
<1>2. ASSUME Running, SupplierAsks PROVE Inv'
  <2>1. /\ check_demmmand(product_demmand, product_inventory)
        /\ ended' = (ProductsDone = Target)
        /\ delivery' = Supplier!Supply(SupplyRequest)
        /\ UNCHANGED <<productVars, failed, ordered, supplying, m_history,
                       reports>>
    BY <1>2 DEF SupplierAsks, Supplier!Asks, process_poll, process_supplier
  <2>2. /\ product_demmand \in Nat /\ product_inventory \in Nat
        /\ ordered \in 0..Orders /\ OrderSize \in Nat
    BY OrdersAssumption DEF Inv, TypeOK
  <2>3. delivery' \in Nat
    BY <2>1, <2>2 DEF Supplier!Supply, SupplyRequest
  <2>4. ended' \in BOOLEAN /\ supplying' \in BOOLEAN
    BY <2>1 DEF Inv, TypeOK
  <2>5. product_demmand = product_demmand + (ordered' - ordered) * OrderSize
    <3>1. ordered' - ordered = 0
      BY <2>1, <2>2
    <3>2. (ordered' - ordered) * OrderSize = 0
      BY <2>2, <3>1
    <3> QED BY <2>2, <3>2
  <2>6. ordered' \in 0..Orders
    BY <2>1, <2>2
  <2> QED BY <2>1, <2>2, <2>3, <2>4, <2>5, <2>6, CheckKeepsInv
<1>3. ASSUME Running, SupplierDelivers PROVE Inv'
  <2>1. /\ check_demmmand(product_demmand, product_inventory + delivery)
        /\ ended' = (ProductsDone = Target)
        /\ delivery' = 0
        /\ UNCHANGED <<productVars, failed, ordered, supplying, m_history,
                       reports>>
    BY <1>3 DEF SupplierDelivers, Supplier!Delivers, process_delivery, process_supplier
  <2>2. /\ product_demmand \in Nat /\ product_inventory \in Nat
        /\ delivery \in Nat /\ ordered \in 0..Orders /\ OrderSize \in Nat
    BY OrdersAssumption DEF Inv, TypeOK
  <2>3. delivery' \in Nat /\ product_inventory + delivery \in Nat
    BY <2>1, <2>2
  <2>4. ended' \in BOOLEAN /\ supplying' \in BOOLEAN
    BY <2>1 DEF Inv, TypeOK
  <2>5. product_demmand = product_demmand + (ordered' - ordered) * OrderSize
    <3>1. ordered' - ordered = 0
      BY <2>1, <2>2
    <3>2. (ordered' - ordered) * OrderSize = 0
      BY <2>2, <3>1
    <3> QED BY <2>2, <3>2
  <2>6. ordered' \in 0..Orders
    BY <2>1, <2>2
  <2> QED BY <2>1, <2>2, <2>3, <2>4, <2>5, <2>6, CheckKeepsInv
<1>4. ASSUME ProductsCreated PROVE Inv'
  BY <1>4, CreationKeepsInv
<1>5. ASSUME NEW s \in Sensor, NEW id \in DOMAIN nodes, NEW v \in Readings,
             ReadTag(s, id, v)
      PROVE  Inv'
  BY <1>5, ReadingKeepsInv
<1>6. ASSUME Running, NEW r \in reports, ReportArrives(r) PROVE Inv'
  BY <1>6, ReportKeepsInv
<1>7. ASSUME SupplierBreaksOff PROVE Inv'
  <2>1. delivery' \in Nat /\ supplying' \in BOOLEAN
    BY <1>7 DEF SupplierBreaksOff, Supplier!BreaksOff
  <2>2. UNCHANGED <<factoryVars, serverVars, ordered, m_history, reports>>
    BY <1>7 DEF SupplierBreaksOff
  <2> QED
    BY <2>1, <2>2 DEF Inv, TypeOK, ReportsTrue, MadeAreGone,
       LinesOweTheirProducts, MaterialForEveryProduct, OrdersConserved,
       DemandHasTimer, NodesOf, Unstarted, StartReports, ProductsDone,
       factoryVars, serverVars, stockVars, lineVars, productVars, outcomeVars
<1>8. ASSUME UNCHANGED vars PROVE Inv'
  BY <1>8 DEF Inv, TypeOK, ReportsTrue, MadeAreGone, LinesOweTheirProducts,
     MaterialForEveryProduct, OrdersConserved, DemandHasTimer, NodesOf,
     Unstarted, StartReports, ProductsDone, vars, factoryVars, serverVars,
     stockVars, lineVars, productVars, outcomeVars, floorVars
<1> QED BY <1>1, <1>2, <1>3, <1>4, <1>5, <1>6, <1>7, <1>8 DEF Next

\* The invariant that the theorems below are parts of holds in every state: the
\* books of ServerApp and those of NodeFactory agree after every event.
THEOREM Invariance == Spec => []Inv
BY InitInv, NextInv, PTL DEF Spec

\* Every variable of the factory keeps its type: in particular no line ever
\* owes less than nothing (line_demmand) or uses material it was not given
\* (line_inventory), although both are decremented unchecked.
THEOREM TypeCorrect == Spec => []TypeOK
<1>1. Inv => TypeOK
  BY DEF Inv
<1> QED BY <1>1, Invariance, PTL

\* The demand of each line in ServerApp is what NodeFactory has left to create
\* for it and has created and not deleted.
THEOREM LinesOwe == Spec => []LinesOweTheirProducts
<1>1. Inv => LinesOweTheirProducts
  BY DEF Inv
<1> QED BY <1>1, Invariance, PTL

\* The orders of the clients are neither lost nor made twice, whatever
\* products are defective and in whatever order reports arrive.
THEOREM Conserved == Spec => []OrdersConserved
<1>1. Inv => OrdersConserved
  BY DEF Inv
<1> QED BY <1>1, Invariance, PTL

\* Each line holds the material for exactly the products still to start on it.
THEOREM MaterialSuffices == Spec => []MaterialForEveryProduct
<1>1. Inv => MaterialForEveryProduct
  BY DEF Inv
<1> QED BY <1>1, Invariance, PTL

\* While products are left to create, NodeFactory has its timer.
THEOREM TimerThere == Spec => []DemandHasTimer
<1>1. Inv => DemandHasTimer
  BY DEF Inv
<1> QED BY <1>1, Invariance, PTL

-----------------------------------------------------------------------------
(* The products one by one.  What follows holds of the states that the      *)
(* invariant above describes, and says where each product is.               *)

\* A sensor has at most one report of a product under way.
ReportedOnce ==
  \A q, r \in reports : q.sensor = r.sensor /\ q.tag = r.tag => q = r

\* The judgement of a sensor ends a product for good: one that is made has been
\* reported by the last sensor, with no report of it left there; one that is
\* scrapped was reported by the last sensor or has no report left of the one
\* before.
JudgedOnce ==
  ~failed =>
    /\ \A id \in Made : /\ id \in m_history["SIZE"]
                        /\ \A r \in reports : r.sensor = "SIZE" => r.tag # id
    /\ \A id \in Scrapped :
         \/ id \in m_history["SIZE"]
         \/ \A r \in reports : r.sensor = "WEIGTH" => r.tag # id

\* The simulation was ended at the target, and not by an error.
EndsOnTarget == ended => ~failed /\ ProductsDone = Target

ProductInv ==
  /\ ReportedOnce
  /\ ProductsAccountedFor
  /\ JudgedOnce
  /\ OnlyDefectsAreDeletedTwice
  /\ EndsOnTarget

\* What ProductInv says is about these variables only, and of the line of a
\* product nothing.
LEMMA ProductsUntouched ==
  ASSUME ProductInv, DOMAIN nodes' = DOMAIN nodes,
         production_done' = production_done,
         production_defect' = production_defect,
         UNCHANGED <<nextNodeId, failed, m_history>>,
         reports' \subseteq reports,
         ended' => ~failed /\ ProductsDone = Target
  PROVE  ProductInv'
<1>1. /\ Made' = Made /\ Scrapped' = Scrapped /\ ProductsDone' = ProductsDone
      /\ failed' = failed /\ m_history' = m_history /\ nextNodeId' = nextNodeId
  BY DEF Made, Scrapped, ProductsDone
<1>2. ReportedOnce'
  BY DEF ProductInv, ReportedOnce
<1>3. ProductsAccountedFor' /\ OnlyDefectsAreDeletedTwice'
  BY <1>1 DEF ProductInv, ProductsAccountedFor, OnlyDefectsAreDeletedTwice
<1>4. JudgedOnce'
  BY <1>1 DEF ProductInv, JudgedOnce
<1>5. EndsOnTarget'
  BY <1>1 DEF EndsOnTarget
<1> QED BY <1>2, <1>3, <1>4, <1>5 DEF ProductInv

\* check_demmmand gives demand to a line and touches no product.
LEMMA CheckTouchesNoProduct ==
  ASSUME Inv, ProductInv, NEW d \in Nat, NEW i \in Nat, check_demmmand(d, i),
         UNCHANGED <<productVars, failed, m_history, reports>>,
         ended' => ~failed /\ ProductsDone = Target
  PROVE  ProductInv'
<1>1. UNCHANGED <<nextNodeId, nodes>>
  BY CheckGivesToOneLine DEF Inv
<1> QED BY <1>1, ProductsUntouched DEF productVars

\* The ids below b are those below a and those from a on.
LEMMA IdsSplit ==
  ASSUME NEW a \in Nat, NEW b \in Nat, a <= b
  PROVE  /\ 0..(a - 1) \cap a..(b - 1) = {}
         /\ 0..(b - 1) = 0..(a - 1) \cup a..(b - 1)
<1>1. \A i : i \in 0..(b - 1) <=> i \in 0..(a - 1) \/ i \in a..(b - 1)
  OBVIOUS
<1>2. \A i : ~(i \in 0..(a - 1) /\ i \in a..(b - 1))
  OBVIOUS
<1> QED BY <1>1, <1>2

\* A tick of the node factory adds products that nobody has judged.
LEMMA CreationKeepsProducts ==
  ASSUME Inv, ProductInv, Running, ProductsCreated
  PROVE  ProductInv'
<1>1. DOMAIN nodes' = DOMAIN nodes \cup nextNodeId..(nextNodeId' - 1)
  <2>1. DOMAIN nodes' = DOMAIN nodes \cup NewIds
    BY DEF ProductsCreated, createNodes
  <2>2. nextNodeId' = nextNodeId + Cardinality(Demanded)
    BY DEF ProductsCreated, createNodes
  <2>3. /\ NewIds = nextNodeId..(nextNodeId + Cardinality(Demanded) - 1)
        /\ nextNodeId \in Nat /\ Cardinality(Demanded) \in Nat
    BY NewIdsFresh DEF Inv, TypeOK
  <2>4. NewIds = nextNodeId..(nextNodeId' - 1)
    BY <2>2, <2>3
  <2> QED BY <2>1, <2>4
<1>2. nextNodeId \in Nat /\ nextNodeId' \in Nat /\ nextNodeId <= nextNodeId'
  BY CreatesOnePerLine DEF Inv, TypeOK, ProductsCreated
<1>3. UNCHANGED <<production_done, production_defect, ended, failed, m_history,
                  reports>>
  BY DEF ProductsCreated, serverVars, productVars, outcomeVars, floorVars
<1>4. Made' = Made /\ Scrapped' = Scrapped /\ ProductsDone' = ProductsDone
  BY <1>3 DEF Made, Scrapped, ProductsDone
<1>5. ProductsAccountedFor'
  <2> SUFFICES ASSUME ~failed
               PROVE  /\ DOMAIN nodes' \cup Made \cup Scrapped
                           = 0..(nextNodeId' - 1)
                      /\ DOMAIN nodes' \cap (Made \cup Scrapped) = {}
                      /\ Made \cap Scrapped = {}
    BY <1>3, <1>4 DEF ProductsAccountedFor
  <2>1. /\ DOMAIN nodes \cup Made \cup Scrapped = 0..(nextNodeId - 1)
        /\ DOMAIN nodes \cap (Made \cup Scrapped) = {}
        /\ Made \cap Scrapped = {}
    BY DEF ProductInv, ProductsAccountedFor
  <2> DEFINE old == 0..(nextNodeId - 1)
             new == nextNodeId..(nextNodeId' - 1)
             all == 0..(nextNodeId' - 1)
  <2>3. old \cap new = {} /\ all = old \cup new
    BY <1>2, IdsSplit
  <2>4. /\ DOMAIN nodes' = DOMAIN nodes \cup new
        /\ DOMAIN nodes \cup Made \cup Scrapped = old
    BY <1>1, <2>1
  <2>5. DOMAIN nodes' \cup Made \cup Scrapped = all
    <3> HIDE DEF old, new, all
    <3> QED BY <2>3, <2>4
  <2>6. DOMAIN nodes' \cap (Made \cup Scrapped) = {}
    <3> HIDE DEF old, new, all
    <3> QED BY <2>1, <2>3, <2>4
  <2> QED BY <2>1, <2>5, <2>6
<1> QED BY <1>3, <1>4, <1>5 DEF ProductInv, ReportedOnce, JudgedOnce, EndsOnTarget,
           OnlyDefectsAreDeletedTwice

\* A sensor reads only products that are on a line, each once.
LEMMA ReadingKeepsProducts ==
  ASSUME Inv, ProductInv, Running,
         NEW s \in Sensor, NEW id \in DOMAIN nodes, NEW v \in Readings,
         ReadTag(s, id, v)
  PROVE  ProductInv'
<1> DEFINE rep == [line |-> nodes[id], sensor |-> s, tag |-> id, reading |-> v]
<1>1. /\ id \notin m_history[s]
      /\ m_history' = [m_history EXCEPT ![s] = @ \cup {id}]
      /\ reports' = reports \cup {rep}
  BY DEF ReadTag
<1>2. UNCHANGED <<nextNodeId, nodes, production_done, production_defect, ended,
                  failed>>
  BY DEF ReadTag, factoryVars, serverVars, productVars, outcomeVars
<1>3. Made' = Made /\ Scrapped' = Scrapped /\ ProductsDone' = ProductsDone
  BY <1>2 DEF Made, Scrapped, ProductsDone
<1>4. \A r \in reports : ~(r.sensor = s /\ r.tag = id)
  BY <1>1 DEF Inv, ReportsTrue
<1>5. rep.sensor = s /\ rep.tag = id
  OBVIOUS
<1>6. ReportedOnce'
  <2> HIDE DEF rep
  <2> QED BY <1>1, <1>4, <1>5 DEF ProductInv, ReportedOnce
<1>7. id \notin Made /\ id \notin Scrapped
  BY DEF ProductInv, ProductsAccountedFor, Running
<1>8. m_history["SIZE"] \subseteq m_history'["SIZE"]
  BY <1>1 DEF Inv, TypeOK, Sensor
<1>9. JudgedOnce'
  <2> HIDE DEF rep
  <2> QED BY <1>1, <1>2, <1>3, <1>5, <1>7, <1>8 DEF ProductInv, JudgedOnce, Running
<1> QED BY <1>2, <1>3, <1>6, <1>9
        DEF ProductInv, ProductsAccountedFor, OnlyDefectsAreDeletedTwice,
            EndsOnTarget, Running

\* A report makes a product leave: it is made (by the last sensor) or scrapped.
LEMMA LeavingKeepsProducts ==
  ASSUME Inv, ProductInv, Running, NEW r \in reports, reports' = reports \ {r},
         UNCHANGED m_history,
         \/ r.sensor = "SIZE" /\ process_done(r.line, r.tag)
         \/ r.sensor \in {"WEIGTH", "SIZE"} /\ process_defect(r.line, r.tag)
  PROVE  ProductInv'
<1>1. r.line \in Line /\ r.tag \in Nat /\ r.sensor \in Sensor
  BY DEF Inv, TypeOK, Report
<1>2. ended' = ended /\ nextNodeId' = nextNodeId
  BY DEF process_done, process_defect, Leaves, deleteNode, factoryVars
<1>3. ~failed /\ ~ended
  BY DEF Running
<1>4. \/ /\ r.sensor = "SIZE" /\ Made' = Made \cup {r.tag}
         /\ Scrapped' = Scrapped
      \/ /\ r.sensor \in {"WEIGTH", "SIZE"} /\ Made' = Made
         /\ Scrapped' = Scrapped \cup {r.tag}
  BY <1>1 DEF process_done, process_defect, Inv, TypeOK, Made, Scrapped, Line
<1>5. ReportedOnce'
  BY DEF ProductInv, ReportedOnce
<1>6. EndsOnTarget'
  BY <1>2, <1>3 DEF EndsOnTarget
<1>7. r.tag \in m_history[r.sensor] /\ r.tag \in 0..(nextNodeId - 1)
  BY <1>1 DEF Inv, ReportsTrue
<1>8. \A q \in reports' : ~(q.sensor = r.sensor /\ q.tag = r.tag)
  BY DEF ProductInv, ReportedOnce
<1>9. JudgedOnce'
  <2>1. /\ \A id \in Made : /\ id \in m_history["SIZE"]
                            /\ \A q \in reports : q.sensor = "SIZE" => q.tag # id
        /\ \A id \in Scrapped :
             \/ id \in m_history["SIZE"]
             \/ \A q \in reports : q.sensor = "WEIGTH" => q.tag # id
    BY <1>3 DEF ProductInv, JudgedOnce
  <2> QED BY <1>4, <1>7, <1>8, <2>1 DEF JudgedOnce
<1>10. CASE r.tag \in DOMAIN nodes
  <2>1. failed' = failed /\ DOMAIN nodes' = DOMAIN nodes \ {r.tag}
    BY <1>10 DEF process_done, process_defect, Leaves, deleteNode, Restrict
  <2>2. ProductsAccountedFor'
    <3>1. /\ DOMAIN nodes \cup Made \cup Scrapped = 0..(nextNodeId - 1)
          /\ DOMAIN nodes \cap (Made \cup Scrapped) = {}
          /\ Made \cap Scrapped = {}
      BY <1>3 DEF ProductInv, ProductsAccountedFor
    <3> QED BY <1>2, <1>4, <1>10, <2>1, <3>1 DEF ProductsAccountedFor
  <2>3. OnlyDefectsAreDeletedTwice'
    BY <1>3, <2>1 DEF OnlyDefectsAreDeletedTwice
  <2> QED BY <1>5, <1>6, <1>9, <2>2, <2>3 DEF ProductInv
<1>11. CASE r.tag \notin DOMAIN nodes
  <2>1. failed' = TRUE
    BY <1>11 DEF process_done, process_defect, Leaves
  <2>2. r.tag \in Made \/ r.tag \in Scrapped
    BY <1>3, <1>7, <1>11 DEF ProductInv, ProductsAccountedFor
  <2>3. r.tag \in Scrapped' /\ r.tag \in m_history["SIZE"]
    <3>1. CASE r.tag \in Made
      <4>1. r.sensor # "SIZE" /\ r.tag \in m_history["SIZE"]
        BY <1>3, <3>1 DEF ProductInv, JudgedOnce
      <4> QED BY <1>4, <4>1
    <3>2. CASE r.tag \in Scrapped
      <4>1. r.tag \in m_history["SIZE"] \/ r.sensor # "WEIGTH"
        BY <1>3, <3>2 DEF ProductInv, JudgedOnce
      <4>2. r.tag \in m_history["SIZE"]
        BY <1>4, <1>7, <4>1
      <4> QED BY <1>4, <3>2, <4>2
    <3> QED BY <2>2, <3>1, <3>2
  <2>4. OnlyDefectsAreDeletedTwice'
    BY <2>3 DEF OnlyDefectsAreDeletedTwice
  <2>5. ProductsAccountedFor'
    BY <2>1 DEF ProductsAccountedFor
  <2> QED BY <1>5, <1>6, <1>9, <2>4, <2>5 DEF ProductInv
<1> QED BY <1>10, <1>11

\* What a report of the two last sensors does.
LEMMA ReportCases ==
  ASSUME Inv, NEW r \in reports, ReportArrives(r)
  PROVE  \/ r.sensor = "PRODUCT" /\ process_start(r.line, r.tag)
         \/ r.sensor = "WEIGTH" /\ process_pass
         \/ r.sensor = "SIZE" /\ process_done(r.line, r.tag)
         \/ r.sensor \in {"WEIGTH", "SIZE"} /\ process_defect(r.line, r.tag)
<1>1. r.sensor \in Sensor
  BY DEF Inv, TypeOK, Report
<1>2. process_sensor(r.line, r.sensor, r.tag, r.reading)
  BY DEF ReportArrives
<1> QED BY <1>1, <1>2 DEF process_sensor, Sensor

\* initialize leaves no product, no report and no judgement.
LEMMA InitProducts == Init => ProductInv
<1> SUFFICES ASSUME Init PROVE ProductInv
  OBVIOUS
<1>1. /\ nextNodeId = 0 /\ DOMAIN nodes = {} /\ reports = {}
      /\ ended = FALSE /\ failed = FALSE
  BY DEF Init, FactoryInit, ServerInit
<1>2. Made = {} /\ Scrapped = {}
  BY DEF Init, ServerInit, Made, Scrapped, Line
<1>3. 0..(0 - 1) = {}
  OBVIOUS
<1> QED BY <1>1, <1>2, <1>3
        DEF ProductInv, ReportedOnce, ProductsAccountedFor, JudgedOnce,
            OnlyDefectsAreDeletedTwice, EndsOnTarget

\* Every event preserves what is said of the products.
LEMMA NextProducts == Inv /\ ProductInv /\ [Next]_vars => ProductInv'
<1> SUFFICES ASSUME Inv, ProductInv, [Next]_vars PROVE ProductInv'
  OBVIOUS
<1>0. /\ product_demmand \in Nat /\ product_inventory \in Nat
      /\ delivery \in Nat /\ OrderSize \in Nat
  BY OrdersAssumption DEF Inv, TypeOK
<1>1. ASSUME Running, ClientOrders PROVE ProductInv'
  <2>1. /\ check_demmmand(product_demmand + OrderSize, product_inventory)
        /\ UNCHANGED <<productVars, ended, failed, m_history, reports>>
    BY <1>1 DEF ClientOrders, process_client, outcomeVars
  <2>2. product_demmand + OrderSize \in Nat /\ ~ended'
    BY <1>0, <1>1, <2>1 DEF Running
  <2> QED BY <1>0, <2>1, <2>2, CheckTouchesNoProduct
<1>2. ASSUME Running, SupplierAsks PROVE ProductInv'
  <2>1. /\ check_demmmand(product_demmand, product_inventory)
        /\ ended' = (ProductsDone = Target)
        /\ UNCHANGED <<productVars, failed, m_history, reports>>
    BY <1>2 DEF SupplierAsks, process_poll, process_supplier
  <2> QED BY <1>0, <1>2, <2>1, CheckTouchesNoProduct DEF Running
<1>3. ASSUME Running, SupplierDelivers PROVE ProductInv'
  <2>1. /\ check_demmmand(product_demmand, product_inventory + delivery)
        /\ ended' = (ProductsDone = Target)
        /\ UNCHANGED <<productVars, failed, m_history, reports>>
    BY <1>3 DEF SupplierDelivers, process_delivery, process_supplier
  <2>2. product_inventory + delivery \in Nat
    BY <1>0
  <2> QED BY <1>0, <1>3, <2>1, <2>2, CheckTouchesNoProduct DEF Running
<1>4. ASSUME Running, ProductsCreated PROVE ProductInv'
  BY <1>4, CreationKeepsProducts
<1>5. ASSUME Running, NEW s \in Sensor, NEW id \in DOMAIN nodes,
             NEW v \in Readings, ReadTag(s, id, v)
      PROVE  ProductInv'
  BY <1>5, ReadingKeepsProducts
<1>6. ASSUME Running, NEW r \in reports, ReportArrives(r) PROVE ProductInv'
  <2>1. reports' = reports \ {r} /\ UNCHANGED m_history
    BY <1>6 DEF ReportArrives
  <2>2. CASE \/ r.sensor = "PRODUCT" /\ process_start(r.line, r.tag)
             \/ process_pass
    <3>1. UNCHANGED <<nextNodeId, nodes, production_done, production_defect,
                      ended, failed>>
      BY <2>2 DEF process_start, process_pass, factoryVars, serverVars,
                  productVars, outcomeVars
    <3>2. ~ended'
      BY <1>6, <3>1 DEF Running
    <3> QED BY <2>1, <3>1, <3>2, ProductsUntouched
  <2>3. CASE \/ r.sensor = "SIZE" /\ process_done(r.line, r.tag)
             \/ r.sensor \in {"WEIGTH", "SIZE"} /\ process_defect(r.line, r.tag)
    BY <1>6, <2>1, <2>3, LeavingKeepsProducts
  <2> QED BY <1>6, <2>2, <2>3, ReportCases
<1>7. ASSUME Running, SupplierBreaksOff PROVE ProductInv'
  <2>1. UNCHANGED <<nextNodeId, nodes, production_done, production_defect,
                    ended, failed, m_history, reports>>
    BY <1>7 DEF SupplierBreaksOff, factoryVars, serverVars, productVars, outcomeVars
  <2>2. ~ended'
    BY <1>7, <2>1 DEF Running
  <2> QED BY <2>1, <2>2, ProductsUntouched
<1>8. ASSUME UNCHANGED vars PROVE ProductInv'
  <2>1. UNCHANGED <<nextNodeId, nodes, production_done, production_defect,
                    ended, failed, m_history, reports>>
    BY <1>8 DEF vars, factoryVars, serverVars, productVars, outcomeVars, floorVars
  <2>2. ended' => ~failed /\ ProductsDone = Target
    BY <2>1 DEF ProductInv, EndsOnTarget
  <2> QED BY <2>1, <2>2, ProductsUntouched
<1> QED BY <1>1, <1>2, <1>3, <1>4, <1>5, <1>6, <1>7, <1>8 DEF Next

\* ProductInv holds in every state.
THEOREM ProductInvariance == Spec => []ProductInv
BY Invariance, InitProducts, NextProducts, PTL DEF Spec

\* Every product that the node factory has created is on a line, made or
\* defective, and one of them only: the server and the node factory agree on
\* each id, in whatever order the reports arrive.
THEOREM AccountedFor == Spec => []ProductsAccountedFor
<1>1. ProductInv => ProductsAccountedFor
  BY DEF ProductInv
<1> QED BY <1>1, ProductInvariance, PTL

\* The error "deleting a node that does not exist" needs a product that the
\* weight sensor scrapped and the size sensor reported all the same.
THEOREM DeletedTwice == Spec => []OnlyDefectsAreDeletedTwice
<1>1. ProductInv => OnlyDefectsAreDeletedTwice
  BY DEF ProductInv
<1> QED BY <1>1, ProductInvariance, PTL

\* When the target is what the client orders in all, as in the code (1000
\* products, 10 orders of 100), the simulation ends with no product left on a
\* line, none to create and none ordered and not given to a line.
THEOREM NothingLeft ==
  ASSUME Target = Orders * OrderSize
  PROVE  Spec => []EndsWithNothingLeft
<1>1. Inv /\ ProductInv => EndsWithNothingLeft
  <2> SUFFICES ASSUME Inv, ProductInv, ended
               PROVE  /\ DOMAIN nodes = {}
                      /\ \A l \in Line : m_demmand[l] = 0
                      /\ product_demmand = 0
    BY DEF EndsWithNothingLeft
  <2>1. /\ ordered * OrderSize = product_demmand + line_demmand[0]
                                   + line_demmand[1] + ProductsDone
        /\ ProductsDone = Orders * OrderSize
    BY DEF Inv, OrdersConserved, ProductInv, EndsOnTarget
  <2>2. /\ ordered \in Nat /\ Orders \in Nat /\ OrderSize \in Nat
        /\ ordered <= Orders
    BY OrdersAssumption DEF Inv, TypeOK
  <2>3. ordered * OrderSize <= Orders * OrderSize
    BY <2>2
  <2>4. /\ product_demmand \in Nat /\ line_demmand[0] \in Nat
        /\ line_demmand[1] \in Nat
    BY DEF Inv, TypeOK, Line
  <2>5. product_demmand = 0 /\ line_demmand[0] = 0 /\ line_demmand[1] = 0
    <3> DEFINE x == ordered * OrderSize
               y == Orders * OrderSize
    <3>1. x \in Nat /\ y \in Nat
      BY <2>2
    <3>2. x = product_demmand + line_demmand[0] + line_demmand[1] + y
      BY <2>1
    <3>3. x <= y
      BY <2>3
    <3> HIDE DEF x, y
    <3> QED BY <2>4, <3>1, <3>2, <3>3
  <2>6. \A l \in Line : m_demmand[l] = 0 /\ Cardinality(NodesOf(l)) = 0
    <3> TAKE l \in Line
    <3>1. line_demmand[l] = 0
      BY <2>5 DEF Line
    <3>2. line_demmand[l] = m_demmand[l] + Cardinality(NodesOf(l))
      BY DEF Inv, LinesOweTheirProducts
    <3>3. m_demmand[l] \in Nat /\ Cardinality(NodesOf(l)) \in Nat
      BY FiniteNodes DEF Inv, TypeOK
    <3> QED BY <3>1, <3>2, <3>3
  <2>7. \A l \in Line : NodesOf(l) = {}
    BY <2>6, FiniteNodes, FS_EmptySet DEF Inv
  <2>8. \A id \in DOMAIN nodes : id \in NodesOf(nodes[id]) /\ nodes[id] \in Line
    BY DEF Inv, TypeOK, NodesOf
  <2>9. DOMAIN nodes = {}
    BY <2>7, <2>8
  <2> QED BY <2>5, <2>6, <2>9
<1> QED BY <1>1, Invariance, ProductInvariance, PTL

-----------------------------------------------------------------------------
(* Products that reach a sensor only after their report has arrived.        *)

\* Where no report overtakes a product, each product has one report under way
\* at most, it is there until that arrives, and it has started only where it
\* is: no product is deleted twice.
InTurn ==
  /\ \A q, r \in reports : q.tag = r.tag => q = r
  /\ \A r \in reports : r.tag \in DOMAIN nodes
  /\ \A l \in Line : production_starts[l] \subseteq NodesOf(l)
  /\ ~failed

\* Each event preserves it.
LEMMA TurnsUntouched ==
  ASSUME InTurn, DOMAIN nodes \subseteq DOMAIN nodes',
         \A id \in DOMAIN nodes : nodes'[id] = nodes[id],
         UNCHANGED <<production_starts, failed, reports>>
  PROVE  InTurn'
<1>1. \A l \in Line : NodesOf(l) \subseteq NodesOf(l)'
  BY DEF NodesOf
<1> QED BY <1>1 DEF InTurn

\* A report of a camera that is handled keeps the turns of the products.
LEMMA ReportKeepsTurns ==
  ASSUME Inv, InTurn, NEW r \in reports, ReportArrives(r)
  PROVE  InTurn'
<1>1. reports' = reports \ {r}
  BY DEF ReportArrives
<1>2. r.line \in Line /\ r.tag \in DOMAIN nodes /\ nodes[r.tag] = r.line
  BY DEF Inv, TypeOK, Report, InTurn, ReportsTrue
<1>3. \A q \in reports' : q.tag # r.tag /\ q.tag \in DOMAIN nodes
  BY <1>1 DEF InTurn
<1>4. production_starts \in [Line -> SUBSET Nat]
  BY DEF Inv, TypeOK
<1>5. CASE r.sensor = "PRODUCT" /\ process_start(r.line, r.tag)
  <2>1. /\ production_starts' = [production_starts EXCEPT ![r.line] = @ \cup {r.tag}]
        /\ UNCHANGED <<nodes, failed>>
    BY <1>5 DEF process_start, factoryVars, outcomeVars
  <2>2. r.tag \in NodesOf(r.line)
    BY <1>2 DEF NodesOf
  <2>3. \A l \in Line : NodesOf(l)' = NodesOf(l)
    BY <2>1 DEF NodesOf
  <2>4. \A l \in Line : production_starts'[l] \subseteq NodesOf(l)'
    BY <1>2, <1>4, <2>1, <2>2, <2>3 DEF InTurn
  <2> QED BY <1>1, <2>1, <2>4 DEF InTurn
<1>6. CASE process_pass
  BY <1>1, <1>6 DEF InTurn, process_pass, NodesOf, factoryVars, serverVars,
                    productVars, outcomeVars
<1>7. CASE process_done(r.line, r.tag) \/ process_defect(r.line, r.tag)
  <2>1. /\ production_starts' = [production_starts EXCEPT ![r.line] = @ \ {r.tag}]
        /\ nodes' = Restrict(nodes, DOMAIN nodes \ {r.tag})
        /\ UNCHANGED failed
    BY <1>2, <1>7 DEF process_done, process_defect, Leaves, deleteNode
  <2>2. /\ DOMAIN nodes' = DOMAIN nodes \ {r.tag}
        /\ \A id \in DOMAIN nodes' : nodes'[id] = nodes[id]
    BY <2>1 DEF Restrict
  <2>3. \A q \in reports' : q.tag \in DOMAIN nodes'
    BY <1>3, <2>2
  <2>4. \A l \in Line : NodesOf(l)' = NodesOf(l) \ {r.tag}
    BY <2>2 DEF NodesOf
  <2>5. \A l \in Line : l # r.line => r.tag \notin NodesOf(l)
    BY <1>2 DEF NodesOf
  <2>6. ASSUME NEW l \in Line
        PROVE  production_starts'[l] \subseteq NodesOf(l)'
    <3>1. production_starts[l] \subseteq NodesOf(l)
      BY DEF InTurn
    <3>2. CASE l = r.line
      BY <1>4, <2>1, <2>4, <3>1, <3>2
    <3>3. CASE l # r.line
      BY <1>4, <2>1, <2>4, <2>5, <3>1, <3>3
    <3> QED BY <3>2, <3>3
  <2> QED BY <1>1, <2>1, <2>3, <2>6 DEF InTurn
<1> QED BY <1>5, <1>6, <1>7, ReportCases

\* So does every step.
LEMMA NextTurns ==
  ASSUME ~Overtaking, Inv, InTurn, [Next]_vars
  PROVE  InTurn'
<1>1. ASSUME NEW d \in Nat, NEW i \in Nat, check_demmmand(d, i),
             UNCHANGED <<productVars, failed, reports>>
      PROVE  InTurn'
  <2>1. UNCHANGED nodes
    BY <1>1, CheckGivesToOneLine DEF Inv
  <2> QED BY <1>1, <2>1, TurnsUntouched DEF productVars
<1>2. /\ product_demmand \in Nat /\ product_inventory \in Nat
      /\ delivery \in Nat /\ OrderSize \in Nat
  BY OrdersAssumption DEF Inv, TypeOK
<1>3. CASE ClientOrders
  <2>1. product_demmand + OrderSize \in Nat
    BY <1>2
  <2>2. /\ check_demmmand(product_demmand + OrderSize, product_inventory)
        /\ UNCHANGED <<productVars, failed, reports>>
    BY <1>3 DEF ClientOrders, process_client, outcomeVars
  <2> QED BY <1>1, <1>2, <2>1, <2>2
<1>4. CASE SupplierAsks
  <2>1. /\ check_demmmand(product_demmand, product_inventory)
        /\ UNCHANGED <<productVars, failed, reports>>
    BY <1>4 DEF SupplierAsks, process_poll, process_supplier
  <2> QED BY <1>1, <1>2, <2>1
<1>5. CASE SupplierDelivers
  <2>1. product_inventory + delivery \in Nat
    BY <1>2
  <2>2. /\ check_demmmand(product_demmand, product_inventory + delivery)
        /\ UNCHANGED <<productVars, failed, reports>>
    BY <1>5 DEF SupplierDelivers, process_delivery, process_supplier
  <2> QED BY <1>1, <1>2, <2>1, <2>2
<1>6. CASE SupplierBreaksOff
  BY <1>6, TurnsUntouched DEF SupplierBreaksOff, factoryVars, serverVars,
                              productVars, outcomeVars
<1>7. CASE ProductsCreated
  <2>1. /\ DOMAIN nodes \subseteq DOMAIN nodes'
        /\ \A id \in DOMAIN nodes : nodes'[id] = nodes[id]
    BY <1>7, CreatesOnePerLine DEF Inv, ProductsCreated
  <2>2. UNCHANGED <<production_starts, failed, reports>>
    BY <1>7 DEF ProductsCreated, serverVars, productVars, outcomeVars, floorVars
  <2> QED BY <2>1, <2>2, TurnsUntouched
<1>8. ASSUME NEW s \in Sensor, NEW id \in DOMAIN nodes, NEW v \in Readings,
             ReadTag(s, id, v)
      PROVE  InTurn'
  <2> DEFINE rep == [line |-> nodes[id], sensor |-> s, tag |-> id, reading |-> v]
  <2>1. reports' = reports \cup {rep} /\ \A r \in reports : r.tag # id
    BY <1>8 DEF ReadTag
  <2>2. UNCHANGED <<nodes, production_starts, failed>>
    BY <1>8 DEF ReadTag, factoryVars, serverVars, productVars, outcomeVars
  <2>3. rep.tag = id
    OBVIOUS
  <2> HIDE DEF rep
  <2>4. \A l \in Line : NodesOf(l)' = NodesOf(l)
    BY <2>2 DEF NodesOf
  <2> QED BY <2>1, <2>2, <2>3, <2>4 DEF InTurn
<1>9. ASSUME NEW r \in reports, ReportArrives(r) PROVE InTurn'
  BY <1>9, ReportKeepsTurns
<1>10. CASE UNCHANGED vars
  BY <1>10, TurnsUntouched DEF vars, factoryVars, serverVars, productVars,
                               outcomeVars, floorVars
<1> QED BY <1>3, <1>4, <1>5, <1>6, <1>7, <1>8, <1>9, <1>10 DEF Next

\* Where products are read one report at a time, no product is deleted twice
\* and none counts as started once it has left its line.
THEOREM TurnsKept ==
  ASSUME ~Overtaking
  PROVE  Spec => []InTurn
<1>1. Init => InTurn
  <2>1. Init => DOMAIN nodes = {} /\ reports = {} /\ failed = FALSE
    BY DEF Init, FactoryInit, ServerInit
  <2>2. Init => \A l \in Line : production_starts[l] = {}
    BY DEF Init, ServerInit
  <2> QED BY <2>1, <2>2 DEF InTurn
<1>2. Inv /\ InTurn /\ [Next]_vars => InTurn'
  BY NextTurns
<1> QED BY <1>1, <1>2, Invariance, PTL DEF Spec

\* The set of started products never keeps one that has left.
THEOREM StartedOnLine ==
  ASSUME ~Overtaking
  PROVE  Spec => []StartedAreOnTheLine
<1>1. InTurn => StartedAreOnTheLine
  BY DEF InTurn, StartedAreOnTheLine, NodesOf
<1> QED BY <1>1, TurnsKept, PTL

-----------------------------------------------------------------------------
(* FactoryFloor implements Production, step by step.                        *)

\* A product that is added to those made counts once.
LEMMA DoneCounts ==
  ASSUME Inv, NEW l \in Line, NEW tag \in Nat,
         production_done' = [production_done EXCEPT ![l] = @ \cup {tag}]
  PROVE  /\ ProductsDone' \in {ProductsDone, ProductsDone + 1}
         /\ tag \notin production_done[l] => ProductsDone' = ProductsDone + 1
<1> DEFINE c(k) == Cardinality(production_done[k])
           d(k) == Cardinality(production_done'[k])
<1>1. \A k \in Line : IsFiniteSet(production_done[k]) /\ c(k) \in Nat
  <2> TAKE k \in Line
  <2>1. production_done[k] \in SUBSET (0..(nextNodeId - 1))
    BY DEF Inv, MadeAreGone
  <2>2. IsFiniteSet(0..(nextNodeId - 1))
    BY FS_Interval DEF Inv, TypeOK
  <2> QED BY <2>1, <2>2, FS_Subset, FS_CardinalityType
<1>2. production_done \in [Line -> SUBSET Nat]
  BY DEF Inv, TypeOK
<1>3. CASE tag \in production_done[l]
  <2>1. production_done' = production_done
    BY <1>2, <1>3
  <2> QED BY <1>3, <2>1 DEF ProductsDone
<1>4. CASE tag \notin production_done[l]
  <2>1. production_done'[l] = production_done[l] \cup {tag}
    BY <1>2
  <2>2. d(l) = c(l) + 1
    BY <1>1, <1>4, <2>1, FS_AddElement
  <2>3. \A k \in Line : k # l => d(k) = c(k)
    BY <1>2
  <2>4. ProductsDone = c(0) + c(1) /\ ProductsDone' = d(0) + d(1)
    BY DEF ProductsDone
  <2>5. /\ l = 0 \/ l = 1
        /\ 0 \in Line /\ 1 \in Line
    BY DEF Line
  <2> HIDE DEF c, d
  <2>6. CASE l = 0
    <3>1. ProductsDone' = (c(0) + 1) + c(1)
      BY <2>2, <2>3, <2>4, <2>5, <2>6
    <3> QED BY <1>1, <2>4, <2>5, <3>1
  <2>7. CASE l = 1
    <3>1. ProductsDone' = c(0) + (c(1) + 1)
      BY <2>2, <2>3, <2>4, <2>5, <2>7
    <3> QED BY <1>1, <2>4, <2>5, <3>1
  <2> QED BY <2>5, <2>6, <2>7
<1> QED BY <1>3, <1>4

\* A product on a line is one that was ordered and is not made yet.
LEMMA OnLineIsOwed ==
  ASSUME Inv, ~failed, NEW id \in DOMAIN nodes
  PROVE  ProductsDone < ordered * OrderSize
<1> DEFINE l == nodes[id]
           all == ordered * OrderSize
<1>1. l \in Line /\ id \in NodesOf(l)
  BY DEF Inv, TypeOK, NodesOf
<1>2. /\ IsFiniteSet(NodesOf(l)) /\ Cardinality(NodesOf(l)) \in Nat
      /\ line_demmand[l] = m_demmand[l] + Cardinality(NodesOf(l))
      /\ m_demmand[l] \in Nat
  BY <1>1, FiniteNodes DEF Inv, LinesOweTheirProducts, TypeOK
<1>3. Cardinality(NodesOf(l)) # 0
  BY <1>1, <1>2, FS_EmptySet
<1>4. line_demmand[l] > 0
  <2> HIDE DEF l
  <2> QED BY <1>2, <1>3
<1>5. /\ product_demmand \in Nat /\ line_demmand[0] \in Nat
      /\ line_demmand[1] \in Nat
  BY DEF Inv, TypeOK, Line
<1>6. ProductsDone \in Nat
  <2>1. \A k \in Line : Cardinality(production_done[k]) \in Nat
    <3> TAKE k \in Line
    <3>1. production_done[k] \in SUBSET (0..(nextNodeId - 1))
      BY DEF Inv, MadeAreGone
    <3>2. IsFiniteSet(0..(nextNodeId - 1))
      BY FS_Interval DEF Inv, TypeOK
    <3> QED BY <3>1, <3>2, FS_Subset, FS_CardinalityType
  <2> QED BY <2>1 DEF ProductsDone, Line
<1>7. all = product_demmand + line_demmand[0] + line_demmand[1] + ProductsDone
  BY DEF Inv, OrdersConserved
<1>8. l = 0 \/ l = 1
  BY <1>1 DEF Line
<1>9. line_demmand[0] > 0 \/ line_demmand[1] > 0
  BY <1>4, <1>8
<1> HIDE DEF all
<1>10. all > ProductsDone
  BY <1>5, <1>6, <1>7, <1>9
<1> QED BY <1>10 DEF all

\* A report is a product made, an error or nothing that shows.
LEMMA ReportImplements ==
  ASSUME Inv, ProductInv, Running, NEW r \in reports, ReportArrives(r)
  PROVE  \/ Factory!Make
         \/ Factory!Fail
         \/ UNCHANGED <<ordered, ProductsDone, ended, failed>>
<1>1. r.line \in Line /\ r.tag \in Nat
  BY DEF Inv, TypeOK, Report
<1>2. ordered' = ordered
  BY DEF ReportArrives
<1>3. CASE \/ r.sensor = "PRODUCT" /\ process_start(r.line, r.tag)
           \/ process_pass
  BY <1>2, <1>3 DEF process_start, process_pass, ProductsDone, serverVars,
                    productVars, outcomeVars
<1>4. CASE process_defect(r.line, r.tag)
  <2>1. ProductsDone' = ProductsDone /\ ended' = ended
    BY <1>4 DEF process_defect, Leaves, ProductsDone
  <2>2. failed' = failed \/ failed' = TRUE
    BY <1>4 DEF process_defect, Leaves
  <2> QED BY <1>2, <2>1, <2>2 DEF Factory!Fail
<1>5. CASE process_done(r.line, r.tag)
  <2>1. /\ production_done' = [production_done EXCEPT ![r.line] = @ \cup {r.tag}]
        /\ ended' = ended
    BY <1>5 DEF process_done, Leaves
  <2>2. CASE r.tag \in DOMAIN nodes
    <3>1. failed' = failed
      BY <1>5, <2>2 DEF process_done, Leaves
    <3>2. r.tag \notin production_done[r.line]
      BY <1>1, <2>2 DEF Inv, MadeAreGone, Running
    <3>3. ProductsDone' = ProductsDone + 1
      BY <1>1, <2>1, <3>2, DoneCounts
    <3>4. ProductsDone < ordered * OrderSize
      BY <2>2, OnLineIsOwed DEF Running
    <3> QED BY <1>2, <2>1, <3>1, <3>3, <3>4 DEF Factory!Make
  <2>3. CASE r.tag \notin DOMAIN nodes
    <3>1. failed' = TRUE
      BY <1>5, <2>3 DEF process_done, Leaves
    <3>2. ProductsDone' \in {ProductsDone, ProductsDone + 1}
      BY <1>1, <2>1, DoneCounts
    <3> QED BY <1>2, <2>1, <3>1, <3>2 DEF Factory!Fail
  <2> QED BY <2>2, <2>3
<1> QED BY <1>3, <1>4, <1>5, ReportCases

\* Every step of the factory is one of Production or none that shows.
LEMMA StepImplements ==
  ASSUME Inv, ProductInv, [Next]_vars
  PROVE  [Factory!ProductionNext]_(Factory!productionVars)
<1> SUFFICES ASSUME ~UNCHANGED <<ordered, ProductsDone, ended, failed>>
             PROVE  Factory!ProductionNext
  BY DEF Factory!productionVars
<1>1. ASSUME UNCHANGED <<production_done, ordered, ended, failed>>
      PROVE  FALSE
  BY <1>1 DEF ProductsDone
<1>2. Running
  BY <1>1 DEF Next, vars, serverVars, productVars, outcomeVars, floorVars
<1>3. CASE ClientOrders
  <2>1. /\ ordered < Orders /\ ordered' = ordered + 1
        /\ UNCHANGED <<production_done, ended, failed>>
    BY <1>3 DEF ClientOrders, process_client, productVars, outcomeVars
  <2>2. ProductsDone' = ProductsDone
    BY <2>1 DEF ProductsDone
  <2>3. Factory!Order
    BY <2>1, <2>2 DEF Factory!Order
  <2> QED BY <1>2, <2>3 DEF Factory!ProductionNext, Factory!InOperation, Running
<1>4. CASE SupplierAsks \/ SupplierDelivers
  <2>1. /\ ended' = (ProductsDone = Target)
        /\ UNCHANGED <<production_done, failed, ordered>>
    BY <1>4 DEF SupplierAsks, SupplierDelivers, process_poll, process_delivery,
                process_supplier, productVars
  <2>2. ProductsDone' = ProductsDone
    BY <2>1 DEF ProductsDone
  <2>3. ProductsDone = Target
    BY <1>1, <1>2, <2>1 DEF Running, Inv, TypeOK
  <2>4. Factory!End
    BY <2>1, <2>2, <2>3 DEF Factory!End
  <2> QED BY <1>2, <2>4 DEF Factory!ProductionNext, Factory!InOperation, Running
<1>5. CASE \/ SupplierBreaksOff \/ ProductsCreated
           \/ \E s \in Sensor, id \in DOMAIN nodes, v \in Readings :
                ReadTag(s, id, v)
  BY <1>1, <1>5 DEF SupplierBreaksOff, ProductsCreated, ReadTag, serverVars,
                    productVars, outcomeVars, floorVars
<1>6. ASSUME NEW r \in reports, ReportArrives(r) PROVE Factory!ProductionNext
  <2>1. Factory!Make \/ Factory!Fail
    BY <1>2, <1>6, ReportImplements
  <2> QED BY <1>2, <2>1 DEF Factory!ProductionNext, Factory!InOperation, Running
<1>7. CASE UNCHANGED vars
  BY <1>1, <1>7 DEF vars, serverVars, productVars, outcomeVars, floorVars
<1> QED BY <1>3, <1>4, <1>5, <1>6, <1>7 DEF Next

\* The factory implements Production, for every number of orders, order size
\* and target and whatever overtakes what: it makes what was ordered, one by
\* one and never too many, and ends at its target only.
THEOREM Implements == Spec => MakesWhatIsOrdered
<1>1. Init => Factory!ProductionInit
  <2>1. Cardinality({}) = 0
    BY FS_EmptySet
  <2>2. Init => ProductsDone = 0
    BY <2>1 DEF Init, ServerInit, ProductsDone, Line
  <2> QED BY <2>2 DEF Init, ServerInit, Factory!ProductionInit
<1>2. Inv /\ ProductInv /\ [Next]_vars
        => [Factory!ProductionNext]_(Factory!productionVars)
  BY StepImplements
<1> QED BY <1>1, <1>2, Invariance, ProductInvariance, PTL
        DEF Spec, MakesWhatIsOrdered, Factory!ProductionSpec
=============================================================================
