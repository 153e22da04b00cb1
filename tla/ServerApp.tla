----------------------------- MODULE ServerApp ------------------------------
(***************************************************************************)
(* apps/ServerApp.cc: the factory's server.  It keeps the demand of the    *)
(* clients, the raw material of the supplier and the state of the two      *)
(* production lines, and reacts to the messages of process_message.        *)
(***************************************************************************)
EXTENDS NodeFactory

CONSTANT Target          \* products made that end the simulation (1000)

ASSUME TargetAssumption == Target \in Nat \ {0}

VARIABLES product_demmand,    \* ordered and not yet given to a line
          product_inventory,  \* material not yet given to a line
          line_demmand,       \* per line: given to it and not yet judged
          line_inventory,     \* per line: material not yet used
          production_starts,  \* per line: ids in production
          production_done,    \* per line: ids made
          production_defect,  \* per line: ids found defective
          ended,              \* endSimulation() was called
          failed              \* deleteNode raised a runtime error

lineVars == <<line_demmand, line_inventory>>
stockVars == <<product_demmand, product_inventory>>
productVars == <<production_starts, production_done, production_defect>>
outcomeVars == <<ended, failed>>
serverVars == <<stockVars, lineVars, productVars, outcomeVars>>

ServerInit ==
  /\ product_demmand = 0
  /\ product_inventory = 0
  /\ line_demmand = [l \in Line |-> 0]
  /\ line_inventory = [l \in Line |-> 0]
  /\ production_starts = [l \in Line |-> {}]
  /\ production_done = [l \in Line |-> {}]
  /\ production_defect = [l \in Line |-> {}]
  /\ ended = FALSE
  /\ failed = FALSE

-----------------------------------------------------------------------------
\* Mutant of Covered: the inventory is not looked at.
CoveredUnchecked(d, i) == d

\* check_demmmand with demand d and inventory i: the demand that the material
\* covers goes to the line that has less to do.
Covered(d, i) == IF d > i THEN (IF i > 0 THEN i ELSE 0) ELSE d

LeastLoaded == IF line_demmand[0] <= line_demmand[1] THEN 0 ELSE 1

check_demmmand(d, i) ==
  LET n == Covered(d, i)
  IN  /\ product_demmand' = d - n
      /\ product_inventory' = i - n
      /\ IF n = 0
         THEN UNCHANGED <<lineVars, factoryVars>>
         ELSE /\ line_demmand' = [line_demmand EXCEPT ![LeastLoaded] = @ + n]
              /\ line_inventory' =
                   [line_inventory EXCEPT ![LeastLoaded] = @ + n]
              /\ setDemand(n, LeastLoaded)

\* Mutant of process_client: an order replaces the demand that waits.
process_clientOverwrites(value) ==
  /\ check_demmmand(value, product_inventory)
  /\ UNCHANGED <<productVars, outcomeVars>>

\* CLIENT: an order of value products.
process_client(value) ==
  /\ check_demmmand(product_demmand + value, product_inventory)
  /\ UNCHANGED <<productVars, outcomeVars>>

\* SUPPLIER: the end of the simulation is tested here only.
ProductsDone == Cardinality(production_done[0]) + Cardinality(production_done[1])

\* Mutants of process_supplier: defective products count as done, or one
\* product more than the target is waited for.
EndsOnDefects(d, i) ==
  /\ check_demmmand(d, i)
  /\ ended' = (ProductsDone + Cardinality(production_defect[0])
                 + Cardinality(production_defect[1]) = Target)
  /\ UNCHANGED <<productVars, failed>>

EndsOneLate(d, i) ==
  /\ check_demmmand(d, i)
  /\ ended' = (ProductsDone = Target + 1)
  /\ UNCHANGED <<productVars, failed>>

process_supplier(d, i) ==
  /\ check_demmmand(d, i)
  /\ ended' = (ProductsDone = Target)
  /\ UNCHANGED <<productVars, failed>>

\* The supplier asks (value -1): the whole demand is the answer, also when
\* part of it is covered, and -1 when all of it is.
SupplyRequest ==
  IF product_demmand > product_inventory THEN product_demmand ELSE -1

process_poll == process_supplier(product_demmand, product_inventory)

\* The supplier delivers value units.
process_delivery(value) ==
  process_supplier(product_demmand, product_inventory + value)

-----------------------------------------------------------------------------
(* The sensors of line l report a tag.                                     *)

\* Mutant of process_start: no material is used.
StartUsesNothing(l, tag) ==
  /\ production_starts' = [production_starts EXCEPT ![l] = @ \cup {tag}]
  /\ UNCHANGED <<factoryVars, stockVars, lineVars, production_done,
                 production_defect, outcomeVars>>

\* SENSOR_PRODUCT: production starts and uses one unit of material.
process_start(l, tag) ==
  /\ production_starts' = [production_starts EXCEPT ![l] = @ \cup {tag}]
  /\ line_inventory' = [line_inventory EXCEPT ![l] = @ - 1]
  /\ UNCHANGED <<factoryVars, stockVars, line_demmand, production_done,
                 production_defect, outcomeVars>>

\* Mutants of Leaves: the line still owes the product, or it still counts as
\* started.
LeavesOwed(l, tag, owed) ==
  /\ production_starts' = [production_starts EXCEPT ![l] = @ \ {tag}]
  /\ UNCHANGED <<line_inventory, product_inventory, ended>>
  /\ IF tag \in DOMAIN nodes
     THEN /\ deleteNode(tag)
          /\ product_demmand' = product_demmand + owed
          /\ UNCHANGED <<line_demmand, failed>>
     ELSE /\ failed' = TRUE
          /\ UNCHANGED <<factoryVars, line_demmand, product_demmand>>

LeavesStarted(l, tag, owed) ==
  /\ UNCHANGED <<line_inventory, product_inventory, ended, production_starts>>
  /\ IF tag \in DOMAIN nodes
     THEN /\ deleteNode(tag)
          /\ line_demmand' = [line_demmand EXCEPT ![l] = @ - 1]
          /\ product_demmand' = product_demmand + owed
          /\ UNCHANGED failed
     ELSE /\ failed' = TRUE
          /\ UNCHANGED <<factoryVars, line_demmand, product_demmand>>

\* A product leaves the line: it is deleted, and owed products are ordered
\* again.  An id that does not exist any more is a runtime error, which ends
\* the simulation inside deleteNode.
Leaves(l, tag, owed) ==
  /\ production_starts' = [production_starts EXCEPT ![l] = @ \ {tag}]
  /\ UNCHANGED <<line_inventory, product_inventory, ended>>
  /\ IF tag \in DOMAIN nodes
     THEN /\ deleteNode(tag)
          /\ line_demmand' = [line_demmand EXCEPT ![l] = @ - 1]
          /\ product_demmand' = product_demmand + owed
          /\ UNCHANGED failed
     ELSE /\ failed' = TRUE
          /\ UNCHANGED <<factoryVars, line_demmand, product_demmand>>

\* Mutant of process_defect: the product is not ordered again.
DefectForgotten(l, tag) ==
  /\ production_defect' = [production_defect EXCEPT ![l] = @ \cup {tag}]
  /\ Leaves(l, tag, 0)
  /\ UNCHANGED production_done

\* SENSOR_WEIGTH and SENSOR_SIZE find a defect: the product goes back to the
\* demand of the factory, to be given to a line again at the next check.
process_defect(l, tag) ==
  /\ production_defect' = [production_defect EXCEPT ![l] = @ \cup {tag}]
  /\ Leaves(l, tag, 1)
  /\ UNCHANGED production_done

\* SENSOR_SIZE, the last sensor, finds none: the product is made.
process_done(l, tag) ==
  /\ production_done' = [production_done EXCEPT ![l] = @ \cup {tag}]
  /\ Leaves(l, tag, 0)
  /\ UNCHANGED production_defect

\* SENSOR_WEIGTH finds none.
process_pass == UNCHANGED <<factoryVars, serverVars>>

\* A reading counts as defective when it is below 0.1.
Defective(reading) == reading = "low"

\* Mutant of process_sensor: the weight sensor's case runs into the next one.
process_sensorFallsThrough(l, sensor, tag, reading) ==
  CASE sensor = "PRODUCT" -> process_start(l, tag)
    [] sensor # "PRODUCT" -> IF Defective(reading) THEN process_defect(l, tag)
                             ELSE process_done(l, tag)

process_sensor(l, sensor, tag, reading) ==
  CASE sensor = "PRODUCT" -> process_start(l, tag)
    [] sensor = "WEIGTH" -> IF Defective(reading) THEN process_defect(l, tag)
                            ELSE process_pass
    [] sensor = "SIZE" -> IF Defective(reading) THEN process_defect(l, tag)
                          ELSE process_done(l, tag)
=============================================================================
