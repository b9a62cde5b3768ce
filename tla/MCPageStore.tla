---------------------------- MODULE MCPageStore ----------------------------
(* TLC instances of PageStore: no symmetry, since liveness is checked.      *)
EXTENDS PageStore
=============================================================================
