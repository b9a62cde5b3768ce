--------------------------- MODULE MCSearchIndex ---------------------------
(* TLC instance of SearchIndex: requests and pages are interchangeable.     *)
EXTENDS SearchIndex, TLC

Symmetry == Permutations(Client) \cup Permutations(Page)

B(changes, errors, deaths, scripts) ==
  [changes |-> changes, faults |-> errors, crashes |-> deaths, scripts |-> scripts]

ChangesOrErrors == {B(2, 1, 0, 0), B(2, 0, 1, 0), B(3, 0, 0, 0), B(2, 0, 0, 1)}
=============================================================================
