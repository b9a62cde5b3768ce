----------------------------- MODULE MCPageSync -----------------------------
(* TLC instance of PageSync.  Wikis and synchronisations are interchangeable;  *)
(* nothing is claimed of the behaviours after a number was read too late.      *)
EXTENDS PageSync, TLC

Symmetry == Permutations(Wiki) \cup Permutations(Sync)

NotRaced == ~raced
=============================================================================
