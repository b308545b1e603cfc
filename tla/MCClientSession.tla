-------------------------- MODULE MCClientSession --------------------------
(* Instances of ClientSession for TLC. *)
EXTENDS ClientSession, TLC

\* Tabs and accounts do the same things.
Symmetry == Permutations(Tab) \union Permutations(Account)
=============================================================================
