---------------------------- MODULE MCPageEditor ----------------------------
(* TLC instances of PageEditor: users are interchangeable.                  *)
EXTENDS PageEditor, TLC

UserSymmetry == Permutations(Users)

\* Four requests are two editors opened and saved; the fifth saves the merged
\* text after an edit conflict.
EditRequests == [none |-> 5, warn |-> 4, lock |-> 4]

\* Enough for one counterexample.
FewRequests == [none |-> 4, lock |-> 2]
=============================================================================
