---------------------------- MODULE FactoryFloor ----------------------------
(***************************************************************************)
(* The server and the node factory composed with what drives them: the     *)
(* client that orders (ClientApp.cc), the supplier that asks and delivers  *)
(* (SupplierApp.cc), the products that move past the three sensors of      *)
(* their line, and the reports of the sensors, which travel on connections *)
(* of their own and so overtake each other.                                *)
(***************************************************************************)
EXTENDS ServerApp

CONSTANTS Orders,        \* orders a client makes (10)
          OrderSize,     \* products in an order (100)
          Readings,      \* what a sensor measures: "low" (below 0.1), "mid"
                         \* or "high" (above 0.9)
          Overtaking,    \* whether a product can reach a sensor while the
                         \* report of the one before is still under way
          MaxDefects,    \* bound: defective products in a behaviour
          SupplierFails  \* whether a session of the supplier may break

ASSUME OrdersAssumption == Orders \in Nat /\ OrderSize \in Nat \ {0}
ASSUME ReadingsAssumption == Readings \subseteq {"low", "mid", "high"}
ASSUME OvertakingAssumption == Overtaking \in BOOLEAN
ASSUME MaxDefectsAssumption == MaxDefects \in Nat
ASSUME SupplierFailsAssumption == SupplierFails \in BOOLEAN

VARIABLES ordered,       \* orders made so far (toSend of ClientApp)
          delivery,      \* units under way from the supplier, 0 if none
          supplying,     \* FALSE once a session of the supplier has broken
          m_history,     \* per sensor: the tags it has reported
          reports        \* reports of the sensors under way to the server

floorVars == <<ordered, delivery, supplying, m_history, reports>>
vars == <<factoryVars, serverVars, floorVars>>

\* The supplier is what SupplierApp is shown to be.
Supplier == INSTANCE SupplyContract WITH Requests <- Int

Sensor == {"PRODUCT", "WEIGTH", "SIZE"}

\* The sensors that a product passes before s.
Before(s) ==
  CASE s = "PRODUCT" -> {}
    [] s = "WEIGTH" -> {"PRODUCT"}
    [] s = "SIZE" -> {"PRODUCT", "WEIGTH"}

Report ==
  [line : Line, sensor : Sensor, tag : Nat, reading : {"low", "mid", "high"}]

Init ==
  /\ FactoryInit
  /\ ServerInit
  /\ ordered = 0
  /\ Supplier!SupplyInit
  /\ m_history = [s \in Sensor |-> {}]
  /\ reports = {}

ClientOrders ==
  /\ ordered < Orders
  /\ ordered' = ordered + 1
  /\ process_client(OrderSize)
  /\ UNCHANGED <<delivery, supplying, m_history, reports>>

\* The first request of a session and its answer, which makes the supplier
\* deliver or close the session.
SupplierAsks ==
  /\ Supplier!Asks(SupplyRequest)
  /\ process_poll
  /\ UNCHANGED <<ordered, m_history, reports>>

SupplierDelivers ==
  /\ Supplier!Delivers
  /\ process_delivery(delivery)
  /\ UNCHANGED <<ordered, m_history, reports>>

\* The connection of the supplier breaks within a session.
SupplierBreaksOff ==
  /\ SupplierFails
  /\ Supplier!BreaksOff
  /\ UNCHANGED <<factoryVars, serverVars, ordered, m_history, reports>>

ProductsCreated == createNodes /\ UNCHANGED <<serverVars, floorVars>>

Defects ==
  Cardinality(production_defect[0] \cup production_defect[1]
                \cup {r.tag : r \in {q \in reports : Defective(q.reading)}})

\* A product reaches a sensor, which reports its tag with what it measures.
ReadTag(s, id, reading) ==
  /\ id \in DOMAIN nodes
  /\ id \notin m_history[s]
  /\ \A b \in Before(s) : id \in m_history[b]
  /\ Overtaking \/ \A r \in reports : r.tag # id
  /\ Defective(reading) => s # "PRODUCT" /\ Defects < MaxDefects
  /\ m_history' = [m_history EXCEPT ![s] = @ \cup {id}]
  /\ reports' = reports \cup {[line |-> nodes[id], sensor |-> s, tag |-> id,
                               reading |-> reading]}
  /\ UNCHANGED <<factoryVars, serverVars, ordered, delivery, supplying>>

\* A report reaches the server.
ReportArrives(r) ==
  /\ r \in reports
  /\ reports' = reports \ {r}
  /\ process_sensor(r.line, r.sensor, r.tag, r.reading)
  /\ UNCHANGED <<ordered, delivery, supplying, m_history>>

Running == ~ended /\ ~failed

Next ==
  /\ Running
  /\ \/ ClientOrders
     \/ SupplierAsks
     \/ SupplierDelivers
     \/ SupplierBreaksOff
     \/ ProductsCreated
     \/ \E s \in Sensor, id \in DOMAIN nodes, v \in Readings : ReadTag(s, id, v)
     \/ \E r \in reports : ReportArrives(r)

Spec == Init /\ [][Next]_vars

\* Client and supplier run on timers, the node factory too; every product
\* moves on and every report arrives.
Fairness ==
  /\ WF_vars(Running /\ ClientOrders)
  /\ WF_vars(Running /\ SupplierAsks)
  /\ WF_vars(Running /\ SupplierDelivers)
  /\ WF_vars(Running /\ ProductsCreated)
  /\ WF_vars(Running /\ \E s \in Sensor, id \in DOMAIN nodes, v \in Readings :
                           ReadTag(s, id, v))
  /\ WF_vars(Running /\ \E r \in reports : ReportArrives(r))

FairSpec == Spec /\ Fairness

-----------------------------------------------------------------------------
TypeOK ==
  /\ m_demmand \in [Line -> Nat]
  /\ timeoutMsg \in BOOLEAN
  /\ nextNodeId \in Nat
  /\ DOMAIN nodes \subseteq 0..(nextNodeId - 1)
  /\ \A id \in DOMAIN nodes : nodes[id] \in Line
  /\ product_demmand \in Nat
  /\ product_inventory \in Nat
  /\ line_demmand \in [Line -> Nat]
  /\ line_inventory \in [Line -> Nat]
  /\ production_starts \in [Line -> SUBSET Nat]
  /\ production_done \in [Line -> SUBSET Nat]
  /\ production_defect \in [Line -> SUBSET Nat]
  /\ ended \in BOOLEAN
  /\ failed \in BOOLEAN
  /\ ordered \in 0..Orders
  /\ delivery \in Nat
  /\ supplying \in BOOLEAN
  /\ m_history \in [Sensor -> SUBSET Nat]
  /\ reports \in SUBSET Report

\* What a line still owes is what the node factory still has to create for it
\* and the products on it: every product that leaves was counted once.
LinesOweTheirProducts ==
  \A l \in Line :
    line_demmand[l] = m_demmand[l] + Cardinality(NodesOf(l))

\* No order is lost and none is made twice, whatever products are defective:
\* what clients ordered is waiting, in production or made.
OrdersConserved ==
  ~failed =>
    ordered * OrderSize = product_demmand + line_demmand[0] + line_demmand[1]
                            + ProductsDone

\* The material given to a line is what its products to come will use: those
\* not yet created, those that have not reached the first sensor and those
\* whose first report is under way.  It never runs out early.
Unstarted(l) == {id \in NodesOf(l) : id \notin m_history["PRODUCT"]}

StartReports(l) == {r \in reports : r.line = l /\ r.sensor = "PRODUCT"}

MaterialForEveryProduct ==
  \A l \in Line :
    line_inventory[l] = m_demmand[l] + Cardinality(Unstarted(l))
                          + Cardinality(StartReports(l))

\* Each product ever created is on a line, made or defective, and one of them
\* only.
Made == production_done[0] \cup production_done[1]
Scrapped == production_defect[0] \cup production_defect[1]

ProductsAccountedFor ==
  ~failed =>
    /\ DOMAIN nodes \cup Made \cup Scrapped = 0..(nextNodeId - 1)
    /\ DOMAIN nodes \cap (Made \cup Scrapped) = {}
    /\ Made \cap Scrapped = {}

\* Work that is left has a timer that will do it, though the timer is created
\* and deleted in different modules.
DemandHasTimer == \A l \in Line : m_demmand[l] > 0 => timeoutMsg

\* A product counts as started only while it is on its line.
StartedAreOnTheLine ==
  \A l \in Line : production_starts[l] \subseteq DOMAIN nodes

\* The simulation ends when everything that was ordered has been made: no
\* product is on a line and none is still to be created.
EndsWithNothingLeft ==
  ended => /\ DOMAIN nodes = {}
           /\ \A l \in Line : m_demmand[l] = 0
           /\ product_demmand = 0

\* Deleting a product twice ends the simulation with an error.  Reports that
\* overtake each other cause it only for a product with a defect that went on
\* to the last sensor: a sound one may be reported in any order.
OnlyDefectsAreDeletedTwice ==
  failed => \E id \in Scrapped : id \in m_history["SIZE"]

\* The two lines, the defects that are ordered again and the order in which
\* reports arrive do not show outside: the factory makes what was ordered, one
\* by one and never too many.
Factory == INSTANCE Production WITH made <- ProductsDone

MakesWhatIsOrdered == Factory!ProductionSpec

\* All orders are made in the end, and the end is noticed, whatever products
\* are defective on the way, unless the supplier breaks off.  This is for orders
\* that all arrive and products that are all reported: a client that gives up
\* or a sensor that falls silent stops the production too, and is not in here.
EventuallyEnds == <>(ended \/ ~supplying)
=============================================================================
