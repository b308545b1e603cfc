------------------------------- MODULE MCAuth -------------------------------
(* Instances of Auth for TLC: all addresses are x, so first sign-ins collide. *)
EXTENDS Auth, TLC

CONSTANT x

SameAddress == [s \in Subject |-> x]

\* Handlers do the same things, and no password or subject is special.
Symmetry == Permutations(Handler) \union Permutations(Password) \union Permutations(Subject)
=============================================================================
