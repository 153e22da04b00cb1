--------------------------- MODULE SupplyContract ---------------------------
(***************************************************************************)
(* What the factory may expect of its supplier: asked for value units it   *)
(* delivers a tenth more, once, before it asks again.  A supplier that     *)
(* breaks off does not deliver what is under way and never asks again.     *)
(***************************************************************************)
EXTENDS Integers

CONSTANT Requests        \* what the supplier may be told when it asks: integers

VARIABLES delivery,      \* units promised and not yet delivered, 0 if none
          supplying      \* FALSE once the supplier has broken off

supplyVars == <<delivery, supplying>>

SupplyInit == delivery = 0 /\ supplying = TRUE

\* The supplier sends a tenth more than it was asked for; the server reads
\* the amount as an int.
Supply(value) == IF value > 0 THEN (value * 11) \div 10 ELSE 0

\* The supplier asks and is told value: a number of units, or -1.
Asks(value) ==
  /\ supplying
  /\ delivery = 0
  /\ delivery' = Supply(value)
  /\ UNCHANGED supplying

Delivers ==
  /\ delivery > 0
  /\ delivery' = 0
  /\ UNCHANGED supplying

BreaksOff ==
  /\ supplying
  /\ supplying' = FALSE
  /\ delivery' = 0

SupplyNext ==
  \/ \E v \in Requests : Asks(v)
  \/ Delivers
  \/ BreaksOff

SupplySteps == SupplyInit /\ [][SupplyNext]_supplyVars

\* What was promised is delivered, unless the supplier breaks off.
SupplySpec == SupplySteps /\ (delivery > 0 ~> delivery = 0)
=============================================================================
