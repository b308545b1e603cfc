------------------------------ MODULE MCGarage ------------------------------
(* The instance of Garage that TLC checks: Garage.cfg gives the constants. *)
EXTENDS Garage
=============================================================================
