----------------------------- MODULE MCDirLock -----------------------------
(* A TLC instance of DirLock. *)
EXTENDS DirLock, TLC

CONSTANTS c1, c2, c3

Symmetry == Permutations(Client)
=============================================================================
