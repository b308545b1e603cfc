------------------------------ MODULE MCOpenApp ------------------------------
(* Instances of OpenApp for TLC: the devices and rows of MCSync. *)
EXTENDS OpenApp, MCSync
=============================================================================
