----------------------------- MODULE MCScreens -----------------------------
(* Two vehicles; two records of the first. *)
EXTENDS Screens

CONSTANTS v1, v2, r1, r2

MCOwnerOf == [r \in {r1, r2} |-> v1]
MCReading == {1, 2}
MCInstant == {2, 4}
=============================================================================
