-------------------------------- MODULE Clock --------------------------------
(***************************************************************************)
(* The time that the upkeep of a cluster depends on: licenses and          *)
(* certificates expire, and are looked after by timers.  A component says  *)
(* what may not be passed over; Horizon bounds a behaviour.                *)
(***************************************************************************)
EXTENDS Naturals

CONSTANT Horizon

ASSUME HorizonAssumption == Horizon \in Nat

VARIABLE now

Advance == now < Horizon /\ now' = now + 1
=============================================================================
