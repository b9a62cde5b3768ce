----------------------------- MODULE MCTagStore -----------------------------
(* A TLC instance of TagStore. *)
EXTENDS TagStore, TLC

CONSTANTS c1, c2, c3

Symmetry == Permutations(Client)
=============================================================================
