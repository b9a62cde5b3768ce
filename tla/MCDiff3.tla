------------------------------ MODULE MCDiff3 ------------------------------
(* TLC instances of Diff3: old texts of a few lines, and every way to        *)
(* replace a part of them by at most one new line.                           *)
EXTENDS Diff3, SequencesExt

CONSTANTS OldLine, NewLine, AlsoNewLine, MaxLength

Olds == BoundedSeq(OldLine, MaxLength)

\* s with its lines from..to-1 replaced by t.
Replaced(s, from, to, t) ==
  SubSeq(s, 1, from) \o t \o SubSeq(s, to + 1, Len(s))

Edits(s, line) ==
  {Replaced(s, c[1], c[2], t) :
     c \in {d \in (0..Len(s)) \X (0..Len(s)) : d[1] <= d[2]},
     t \in {<<>>, <<line>>}}

MCLine == OldLine \cup {NewLine, AlsoNewLine}

\* Each author makes one change.
OneChangeEach ==
  UNION {{s} \X Edits(s, AlsoNewLine) \X Edits(s, NewLine) : s \in Olds}

\* A text of equal lines; one author takes out one of them, the other one adds
\* lines in front and one further down, so that the positions are far apart.
FarApart ==
  LET Lines(line, n) == [m \in 1..n |-> line]
      Text(line) == Lines(line, MaxLength + 1)
      Added(line, n, at) ==
        Lines(NewLine, n) \o Replaced(Text(line), at, at, <<NewLine>>)
  IN  UNION {{<<Text(line), Lines(line, MaxLength), Added(line, n, at)>> :
                n \in 0..4, at \in 0..MaxLength} : line \in OldLine}

\* Both authors make the same change.
SameChange ==
  UNION {{<<s, t, t>> : t \in Edits(s, NewLine)} : s \in Olds}

AllChanges == OneChangeEach \cup FarApart \cup SameChange

\* Only the other author makes a change.
OneChangeByOther == UNION {{s} \X Edits(s, AlsoNewLine) \X {s} : s \in Olds}
=============================================================================
