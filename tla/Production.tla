----------------------------- MODULE Production -----------------------------
(***************************************************************************)
(* What the factory promises to who orders from it: products are made one  *)
(* at a time and never more than were ordered, and the simulation ends     *)
(* only when as many are made as its target says.  A report that names a   *)
(* product twice stops it in error, with that product counted or not.      *)
(***************************************************************************)
EXTENDS Integers

CONSTANTS Orders,        \* orders that are made in all
          OrderSize,     \* products in an order
          Target         \* products made that end the simulation

VARIABLES ordered,       \* orders made so far
          made,          \* products made so far
          ended,         \* the target was reached and noticed
          failed         \* stopped in error

productionVars == <<ordered, made, ended, failed>>

ProductionInit ==
  /\ ordered = 0
  /\ made = 0
  /\ ended = FALSE
  /\ failed = FALSE

InOperation == ~ended /\ ~failed

Order ==
  /\ ordered < Orders
  /\ ordered' = ordered + 1
  /\ UNCHANGED <<made, ended, failed>>

Make ==
  /\ made < ordered * OrderSize
  /\ made' = made + 1
  /\ UNCHANGED <<ordered, ended, failed>>

End ==
  /\ made = Target
  /\ ended' = TRUE
  /\ UNCHANGED <<ordered, made, failed>>

Fail ==
  /\ failed' = TRUE
  /\ made' \in {made, made + 1}
  /\ UNCHANGED <<ordered, ended>>

ProductionNext == InOperation /\ (Order \/ Make \/ End \/ Fail)

ProductionSpec == ProductionInit /\ [][ProductionNext]_productionVars
=============================================================================
