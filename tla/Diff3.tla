------------------------------- MODULE Diff3 -------------------------------
(***************************************************************************)
(* The line by line three way merge of MoinMoin/util/diff3.py, which       *)
(* PageEditor.mergeEditConflict and the SyncPages action call with         *)
(* allow_conflicts = 1.  One action per branch of the two loops.           *)
(*                                                                         *)
(* The positions i, j and k count the lines of old, other and new that     *)
(* have been dealt with (old_nr, other_nr and new_nr).  In the result, a   *)
(* line between conflict markers is tagged with the side it comes from.    *)
(***************************************************************************)
EXTENDS Integers, Sequences, FiniteSetsExt

CONSTANTS
  Line,      \* the lines texts consist of
  Inputs     \* the <<old, other, new>> to merge

ASSUME InputsAssumption == Inputs \subseteq Seq(Line) \X Seq(Line) \X Seq(Line)

VARIABLES
  old, other, new,   \* the arguments
  pc,                \* "loop", "triple" (in tripple_match) or "done"
  i, j, k,           \* positions in old, other and new
  otherMatch,        \* positions in old and other where they agree again
  newMatch,          \* positions in old and new where they agree again
  result             \* the merged lines

input == <<old, other, new>>
vars  == <<input, pc, i, j, k, otherMatch, newMatch, result>>

MinCount == 3   \* equal lines in a row that make a match

\* s[from:to], which is empty or shorter if s ends before.
Cut(s, from, to) == SubSeq(s, from + 1, Min({to, Len(s)}))

Tagged(side, s) == [n \in DOMAIN s |-> [side |-> side, line |-> s[n]]]

\* match: how many lines agree from the two positions on, counting no further
\* than max if that is positive.
Match(s, t, p, q, max) ==
  Max({n \in 0..Len(s) :
        /\ n <= Len(s) - p /\ n <= Len(t) - q
        /\ max > 0 => n <= max
        /\ \A x \in 1..n : s[p + x] = t[q + x]})

\* Mutant of NoMatch: one line too far.
NoMatchLate(s, t) == <<Len(s) + 1, Len(t)>>

\* Mutant of NoMatch: the beginning of both.
NoMatchStart(s, t) == <<0, 0>>

\* No more agreement: the ends of both.
NoMatch(s, t) == <<Len(s), Len(t)>>

\* find_match: the next positions from which MinCount lines agree.  After n
\* turns all pairs up to n lines ahead of p and q have been looked at; the
\* first hit on the last line of s against t wins over one of t against s.
FindMatch(s, t, p, q) ==
  LET a(n)     == Min({p + n, Len(s)})
      b(n)     == Min({q + n, Len(t)})
      Hit(x, y) == Match(s, t, x, y, MinCount) = MinCount
      InS(n)   == {x \in p..a(n) : Hit(x, b(n))}
      InT(n)   == {y \in q..(b(n) - 1) : Hit(a(n), y)}
      turns    == {n \in 0..(Max({Len(s) - p, Len(t) - q}) - 1) :
                     InS(n) # {} \/ InT(n) # {}}
  IN  IF turns = {} THEN NoMatch(s, t)
      ELSE LET n == Min(turns)
           IN  IF InS(n) # {} THEN <<Min(InS(n)), b(n)>>
               ELSE <<a(n), Min(InT(n))>>

------------------------------------------------------------------------------
Init ==
  /\ \E in \in Inputs : old = in[1] /\ other = in[2] /\ new = in[3]
  /\ pc = "loop"
  /\ i = 0 /\ j = 0 /\ k = 0
  /\ otherMatch = <<0, 0>> /\ newMatch = <<0, 0>>
  /\ result = <<>>

Goto(label) == pc' = label

MoveTo(inOld, inOther, inNew) == i' = inOld /\ j' = inOther /\ k' = inNew

Emit(lines) == result' = result \o lines

NextNew   == FindMatch(old, new, i, k)
NextOther == FindMatch(old, other, i, j)

\* Mutant of NewChanged: counted from the position in new.
NewChangedInNew == NextNew[1] - k

\* Lines of old that new has changed; lines that other has changed, which the
\* code counts from the position in other, not from the one in old.
NewChanged   == NextNew[1] - i
OtherChanged == NextOther[1] - j

\* All three texts have lines left.
More == pc = "loop" /\ i < Len(old) /\ j < Len(other) /\ k < Len(new)

AllEqual == old[i + 1] = other[j + 1] /\ old[i + 1] = new[k + 1]

\* Is new different here, and is the text that is not different the same for as
\* long as the other one has changed?
NewIsChanged == NextNew # <<i, k>>

OneChanged ==
  IF NewIsChanged
  THEN Match(old, other, i, j, NewChanged) = NewChanged
  ELSE Match(old, new, i, k, OtherChanged) = OtherChanged

Unchanged ==
  /\ More /\ AllEqual
  /\ Emit(Tagged("both", <<old[i + 1]>>))
  /\ MoveTo(i + 1, j + 1, k + 1)
  /\ UNCHANGED <<input, pc, otherMatch, newMatch>>

TakeNew ==
  /\ More /\ ~AllEqual
  /\ NewIsChanged /\ OneChanged
  /\ Emit(Tagged("both", Cut(new, k, NextNew[2])))
  /\ MoveTo(NextNew[1], j + NewChanged, NextNew[2])
  /\ UNCHANGED <<input, pc, otherMatch, newMatch>>

TakeOther ==
  /\ More /\ ~AllEqual
  /\ ~NewIsChanged /\ OneChanged
  /\ Emit(Tagged("both", Cut(other, j, NextOther[2])))
  /\ MoveTo(NextOther[1], NextOther[2], k + OtherChanged)
  /\ UNCHANGED <<input, pc, otherMatch, newMatch>>

\* Both changed: look for the next lines that are unchanged in both.
Conflict ==
  /\ More /\ ~AllEqual /\ ~OneChanged
  /\ Goto("triple")
  /\ otherMatch' = NextOther /\ newMatch' = NextNew
  /\ UNCHANGED <<input, i, j, k, result>>

------------------------------------------------------------------------------
(* tripple_match *)

\* Search on, behind the n lines that agreed.
Again(s, t, m, n) == FindMatch(s, t, m[1] + n, m[2] + n)

\* How far the match in new is ahead of the one in other, in old.
Ahead == newMatch[1] - otherMatch[1]

EndConflict(inOld, inOther, inNew) ==
  /\ Emit(Tagged("other", Cut(other, j, inOther))
             \o Tagged("new", Cut(new, k, inNew)))
  /\ MoveTo(inOld, inOther, inNew)
  /\ Goto("loop")
  /\ UNCHANGED <<input, otherMatch, newMatch>>

MatchesMeet ==
  /\ pc = "triple" /\ Ahead = 0
  /\ EndConflict(newMatch[1], otherMatch[2], newMatch[2])

NewIsAhead ==
  /\ pc = "triple" /\ Ahead > 0
  /\ LET n == Match(old, other, otherMatch[1], otherMatch[2], Ahead)
     IN  IF n = Ahead
         THEN EndConflict(newMatch[1], otherMatch[2] + Ahead, newMatch[2])
         ELSE /\ otherMatch' = Again(old, other, otherMatch, n)
              /\ UNCHANGED <<input, pc, i, j, k, newMatch, result>>

OtherIsAhead ==
  /\ pc = "triple" /\ Ahead < 0
  /\ LET n == Match(old, new, newMatch[1], newMatch[2], -Ahead)
     IN  IF n = -Ahead
         THEN EndConflict(otherMatch[1], otherMatch[2], newMatch[1] - Ahead)
         ELSE /\ newMatch' = Again(old, new, newMatch, n)
              /\ UNCHANGED <<input, pc, i, j, k, otherMatch, result>>

------------------------------------------------------------------------------
(* "process tail" *)

RestOfOther == Cut(other, j, Len(other))
RestOfNew   == Cut(new, k, Len(new))
RestOfOld   == Cut(old, i, Len(old))

\* Mutant of Untouched: that there is a rest is enough.
UntouchedAtAll(rest) == rest # <<>>

\* The rest of one text is still that of old.
Untouched(rest) == rest = RestOfOld

\* Nothing left, lines added by one side, lines deleted by one side, the same
\* text on both sides, or a conflict.
TailLines ==
  IF i = Len(old) /\ j = Len(other) THEN Tagged("both", RestOfNew)
  ELSE IF i = Len(old) /\ k = Len(new) THEN Tagged("both", RestOfOther)
  ELSE IF k = Len(new) /\ Untouched(RestOfOther) THEN <<>>
  ELSE IF j = Len(other) /\ Untouched(RestOfNew) THEN <<>>
  ELSE IF new = other THEN Tagged("both", RestOfNew)
  ELSE Tagged("other", RestOfOther) \o Tagged("new", RestOfNew)

Tail3 ==
  /\ pc = "loop" /\ ~More
  /\ Emit(TailLines)
  /\ Goto("done")
  /\ UNCHANGED <<input, i, j, k, otherMatch, newMatch>>

Next ==
  \/ Unchanged \/ TakeNew \/ TakeOther \/ Conflict
  \/ MatchesMeet \/ NewIsAhead \/ OtherIsAhead
  \/ Tail3

Spec == Init /\ [][Next]_vars
------------------------------------------------------------------------------
(***************************************************************************)
(* Properties.                                                             *)
(***************************************************************************)

\* Positions stay in their texts, but that in new may be one in old.
TypeOK ==
  /\ pc \in {"loop", "triple", "done"}
  /\ i \in 0..Len(old) /\ j \in 0..Len(other)
  /\ k \in 0..Max({Len(old), Len(new)})
  /\ otherMatch \in (0..Len(old)) \X (0..Len(other))
  /\ newMatch \in (0..Len(old)) \X (0..Len(new))
  /\ result \in Seq([side : {"both", "other", "new"}, line : Line])

LinesOf(s) == {s[n] : n \in DOMAIN s}

\* The items of s that remain if every conflict is resolved in favour of side.
Remaining(side, s) == SelectSeq(s, LAMBDA item : item.side \in {"both", side})

Written(s) == [n \in DOMAIN s |-> s[n].line]

\* The lines of s that are outside of conflicts or on this side of one.
OnSide(side, s) == {s[n].line : n \in {m \in DOMAIN s : s[m].side \in {"both", side}}}

\* Whatever else happens, a line one of the authors added is in the result, on
\* that author's side of a conflict if there is one.  (Of a line that both added
\* because they wrote the same text only one may be left, on the new side.)
NothingAddedIsLost ==
  pc = "done" =>
    /\ LinesOf(new) \ LinesOf(old) \subseteq OnSide("new", result)
    /\ other # new => LinesOf(other) \ LinesOf(old) \subseteq OnSide("other", result)

\* If the other author changed nothing, the merge is the new text, possibly
\* with conflicts that are empty on the other side.
OnlyNewChanged ==
  pc = "done" /\ other = old =>
    /\ Written(result) = new
    /\ \A n \in DOMAIN result : result[n].side # "other"

\* If the new text changes nothing, the merge is the other author's text.
OnlyOtherChanged ==
  pc = "done" /\ new = old => Written(Remaining("other", result)) = other

\* The merge comes to an end: every turn gets ahead in old, or stays there and gets
\* ahead in the other texts.  (Only in new it may go back when it gets ahead in old:
\* OtherIsAhead sets the position in new to one in old.)
GetsAhead ==
  /\ i' >= i /\ j' >= j
  /\ pc' = "loop" => i' > i \/ (k' >= k /\ j' + k' > j + k)
  /\ pc = "triple" /\ pc' = "triple" =>
       \/ otherMatch' = otherMatch /\ newMatch'[1] > newMatch[1]
       \/ newMatch' = newMatch /\ otherMatch'[1] > otherMatch[1]

AlwaysAhead == [][GetsAhead]_vars
------------------------------------------------------------------------------
(***************************************************************************)
(* Inductive strengthenings, used by Diff3Proofs.                          *)
(***************************************************************************)
\* From these positions on there is a match, or nothing in s.
Meets(s, t, m) ==
  \/ m[1] = Len(s)
  \/ /\ m[1] + MinCount <= Len(s) /\ m[2] + MinCount <= Len(t)
     /\ \A x \in 1..MinCount : s[m[1] + x] = t[m[2] + x]

\* While the search for a common position goes on, both matches are ahead of the
\* positions, and one of them is really ahead.
SearchInv ==
  pc = "triple" =>
    /\ i <= otherMatch[1] /\ j <= otherMatch[2] /\ i <= newMatch[1] /\ k <= newMatch[2]
    /\ otherMatch # <<i, j>> \/ newMatch # <<i, k>>
    /\ Meets(old, other, otherMatch) /\ Meets(old, new, newMatch)

\* What has been dealt with of a text is old, or in the result.
Covered(side, s, n) ==
  \A x \in 1..Len(s) : x <= n => s[x] \in LinesOf(old) \cup OnSide(side, result)

CoverInv == Covered("new", new, k) /\ Covered("other", other, j)

\* As long as other is old, the result is what has been dealt with of new.
SameInv ==
  other = old /\ pc # "done" =>
    /\ i = j /\ k <= Len(new)
    /\ Written(result) = SubSeq(new, 1, k)
    /\ \A n \in DOMAIN result : result[n].side # "other"
    /\ pc = "triple" => otherMatch = <<i, i>> /\ newMatch[1] = i

MergeInv == SearchInv /\ CoverInv /\ SameInv
=============================================================================
