---------------------------- MODULE MCItemCache ----------------------------
(* TLC instance of ItemCache: one save of any kind and many calls, or two    *)
(* plain saves and calls.                                                   *)
EXTENDS ItemCache, TLC

CONSTANTS p1, p2, t1, t2

FewSavesOrCalls ==
  {[saves |-> 1, kinds |-> AllKinds \cup {Failure}, calls |-> 4],
   [saves |-> 2, kinds |-> {"save"}, calls |-> 2]}

Symmetry == Permutations({t1, t2})
=============================================================================
