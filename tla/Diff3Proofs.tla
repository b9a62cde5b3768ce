---------------------------- MODULE Diff3Proofs ----------------------------
(***************************************************************************)
(* Proofs about Diff3, for texts of any length: the types of the merge,    *)
(* that it gets ahead with every turn, and that MergeInv is inductive,     *)
(* from which it follows that nothing added is lost and that a text only   *)
(* one author changed is that author's text.                               *)
(***************************************************************************)
EXTENDS Diff3, FiniteSetTheorems, WellFoundedInduction, SequenceTheorems, TLAPS
------------------------------------------------------------------------------
(* Largest and smallest numbers. *)

LEMMA MaxOf ==
  ASSUME NEW n \in Nat, NEW S \in SUBSET (0..n), S # {}
  PROVE  Max(S) \in S /\ \A m \in S : m <= Max(S)
<1> DEFINE T == {c..n : c \in S}
<1>1. T \subseteq FiniteSubsetsOf(Nat) /\ T # {}
  <2>1. ASSUME NEW c \in S PROVE c..n \in FiniteSubsetsOf(Nat)
    BY FS_Interval DEF FiniteSubsetsOf
  <2> QED BY <2>1
<1>2. PICK x \in T : \A y \in T : <<y, x>> \notin StrictSubsetOrdering(Nat)
  <2> HIDE DEF T
  <2> QED BY <1>1, WFMin, FS_StrictSubsetOrderingWellFounded
<1>3. PICK m \in S : x = m..n
  OBVIOUS
<1>4. ASSUME NEW c \in S, ~(c <= m) PROVE FALSE
  <2>1. c..n \subseteq m..n /\ m \in m..n /\ m \notin c..n /\ c..n \in T
    BY <1>4
  <2>2. c..n \in SUBSET Nat /\ m..n \in SUBSET Nat /\ c..n # m..n
    BY <2>1
  <2>3. <<c..n, m..n>> \in StrictSubsetOrdering(Nat)
    BY <2>1, <2>2 DEF StrictSubsetOrdering
  <2> QED BY <1>2, <1>3, <2>1, <2>3
<1>5. \E m1 \in S : \A c \in S : m1 >= c
  BY <1>4
<1> QED BY <1>5 DEF Max

LEMMA MinOf ==
  ASSUME NEW S \in SUBSET Nat, S # {}
  PROVE  Min(S) \in S /\ \A m \in S : Min(S) <= m
<1> DEFINE T == {0..c : c \in S}
<1>1. T \subseteq FiniteSubsetsOf(Nat) /\ T # {}
  <2>1. ASSUME NEW c \in S PROVE 0..c \in FiniteSubsetsOf(Nat)
    BY FS_Interval DEF FiniteSubsetsOf
  <2> QED BY <2>1
<1>2. PICK x \in T : \A y \in T : <<y, x>> \notin StrictSubsetOrdering(Nat)
  <2> HIDE DEF T
  <2> QED BY <1>1, WFMin, FS_StrictSubsetOrderingWellFounded
<1>3. PICK m \in S : x = 0..m
  OBVIOUS
<1>4. ASSUME NEW c \in S, ~(m <= c) PROVE FALSE
  <2>1. 0..c \subseteq 0..m /\ m \in 0..m /\ m \notin 0..c /\ 0..c \in T
    BY <1>4
  <2>2. 0..c \in SUBSET Nat /\ 0..m \in SUBSET Nat /\ 0..c # 0..m
    BY <2>1
  <2>3. <<0..c, 0..m>> \in StrictSubsetOrdering(Nat)
    BY <2>1, <2>2 DEF StrictSubsetOrdering
  <2> QED BY <1>2, <1>3, <2>1, <2>3
<1>5. \E m1 \in S : \A c \in S : m1 <= c
  BY <1>4
<1> QED BY <1>5 DEF Min

LEMMA OfTwo ==
  ASSUME NEW a \in Int, NEW b \in Int
  PROVE  /\ Min({a, b}) = IF a <= b THEN a ELSE b
         /\ Max({a, b}) = IF a <= b THEN b ELSE a
BY DEF Min, Max
------------------------------------------------------------------------------
(* match and find_match. *)

\* The next n lines of s and t agree.
Agree(s, t, p, q, n) ==
  /\ n <= Len(s) - p /\ n <= Len(t) - q
  /\ \A x \in 1..n : s[p + x] = t[q + x]

\* match counts lines that agree, and all of them up to max.
LEMMA MatchCounts ==
  ASSUME NEW s \in Seq(Line), NEW t \in Seq(Line),
         NEW p \in 0..Len(s), NEW q \in 0..Len(t), NEW max \in Int
  PROVE  /\ Match(s, t, p, q, max) \in Nat
         /\ Agree(s, t, p, q, Match(s, t, p, q, max))
         /\ max > 0 => Match(s, t, p, q, max) <= max
         /\ \A n \in Nat :
              Agree(s, t, p, q, n) /\ (max > 0 => n <= max) => n <= Match(s, t, p, q, max)
<1> DEFINE S == {n \in 0..Len(s) :
                   /\ n <= Len(s) - p /\ n <= Len(t) - q
                   /\ max > 0 => n <= max
                   /\ \A x \in 1..n : s[p + x] = t[q + x]}
<1>1. Len(s) \in Nat /\ Len(t) \in Nat
  BY LenProperties
<1>2. S \in SUBSET (0..Len(s))
  OBVIOUS
<1>3. 0 \in S
  BY <1>1
<1>4. Max(S) \in S /\ \A m \in S : m <= Max(S)
  <2> HIDE DEF S
  <2> QED BY <1>1, <1>2, <1>3, MaxOf
<1>5. Match(s, t, p, q, max) = Max(S)
  BY DEF Match
<1>6. \A n \in Nat : Agree(s, t, p, q, n) /\ (max > 0 => n <= max) => n \in S
  BY <1>1 DEF Agree
<1>7. \A n \in S : n \in Nat /\ Agree(s, t, p, q, n) /\ (max > 0 => n <= max)
  BY <1>1 DEF Agree
<1> HIDE DEF S
<1> QED BY <1>4, <1>5, <1>6, <1>7

\* MinCount lines agree, or nothing more of s.
LEMMA MeetsIsAgree ==
  ASSUME NEW s \in Seq(Line), NEW t \in Seq(Line),
         NEW m \in (0..Len(s)) \X (0..Len(t))
  PROVE  Meets(s, t, m) <=> m[1] = Len(s) \/ Agree(s, t, m[1], m[2], MinCount)
<1>1. Len(s) \in Nat /\ Len(t) \in Nat /\ m[1] \in Nat /\ m[2] \in Nat
  BY LenProperties
<1> QED BY <1>1 DEF Meets, Agree, MinCount

\* A hit of find_match.
LEMMA HitIsAgree ==
  ASSUME NEW s \in Seq(Line), NEW t \in Seq(Line),
         NEW p \in 0..Len(s), NEW q \in 0..Len(t)
  PROVE  Match(s, t, p, q, MinCount) = MinCount <=> Agree(s, t, p, q, MinCount)
<1>1. MinCount \in Nat /\ MinCount \in Int /\ MinCount > 0 /\ MinCount <= MinCount
  BY DEF MinCount
<1> DEFINE r == Match(s, t, p, q, MinCount)
<1>2. /\ r \in Nat /\ Agree(s, t, p, q, r) /\ r <= MinCount
      /\ Agree(s, t, p, q, MinCount) => MinCount <= r
  BY <1>1, MatchCounts
<1> HIDE DEF r
<1>3. r = MinCount <=> Agree(s, t, p, q, MinCount)
  BY <1>1, <1>2
<1> QED BY <1>3 DEF r

\* find_match returns positions further on where the texts meet again, and the
\* ones it was given if they meet there.
LEMMA FindMatchMeets ==
  ASSUME NEW s \in Seq(Line), NEW t \in Seq(Line),
         NEW p \in 0..Len(s), NEW q \in 0..Len(t)
  PROVE  /\ FindMatch(s, t, p, q) \in (p..Len(s)) \X (q..Len(t))
         /\ Meets(s, t, FindMatch(s, t, p, q))
         /\ Agree(s, t, p, q, MinCount) => FindMatch(s, t, p, q) = <<p, q>>
<1>1. Len(s) \in Nat /\ Len(t) \in Nat /\ p \in Nat /\ q \in Nat
  BY LenProperties
<1> DEFINE a(n)  == Min({p + n, Len(s)})
           b(n)  == Min({q + n, Len(t)})
           Hit(x, y) == Match(s, t, x, y, MinCount) = MinCount
           InS(n) == {x \in p..a(n) : Hit(x, b(n))}
           InT(n) == {y \in q..(b(n) - 1) : Hit(a(n), y)}
           turns == {n \in 0..(Max({Len(s) - p, Len(t) - q}) - 1) :
                       InS(n) # {} \/ InT(n) # {}}
<1>2. \A n \in Nat : a(n) \in p..Len(s) /\ b(n) \in q..Len(t)
  BY <1>1, OfTwo
<1>3. \A x \in 0..Len(s), y \in 0..Len(t) : Hit(x, y) <=> Agree(s, t, x, y, MinCount)
  BY HitIsAgree
<1>4. \A x \in p..Len(s), y \in q..Len(t) : Hit(x, y) => Meets(s, t, <<x, y>>)
  BY <1>1, <1>3, MeetsIsAgree
<1>5. turns \subseteq Nat
  OBVIOUS
<1>6. \A n \in Nat : InS(n) \subseteq p..Len(s) /\ InT(n) \subseteq q..Len(t)
  <2>1. SUFFICES ASSUME NEW n \in Nat
                 PROVE  InS(n) \subseteq p..Len(s) /\ InT(n) \subseteq q..Len(t)
    OBVIOUS
  <2>2. a(n) \in Int /\ b(n) \in Int /\ a(n) <= Len(s) /\ b(n) <= Len(t)
    <3>1. a(n) \in p..Len(s) /\ b(n) \in q..Len(t)
      BY <1>2
    <3> HIDE DEF a, b
    <3> QED BY <1>1, <3>1
  <2>3. InS(n) \subseteq p..a(n) /\ InT(n) \subseteq q..(b(n) - 1)
    OBVIOUS
  <2> HIDE DEF a, b, InS, InT
  <2> QED BY <1>1, <2>2, <2>3
<1>7. \A n \in Nat : InS(n) \subseteq Nat /\ InT(n) \subseteq Nat
  BY <1>1, <1>6
<1>8. FindMatch(s, t, p, q) =
        IF turns = {} THEN NoMatch(s, t)
        ELSE IF InS(Min(turns)) # {} THEN <<Min(InS(Min(turns))), b(Min(turns))>>
             ELSE <<a(Min(turns)), Min(InT(Min(turns)))>>
  BY DEF FindMatch
<1>9. Agree(s, t, p, q, MinCount) => 0 \in turns /\ InS(0) = {p} /\ b(0) = q
  <2> SUFFICES ASSUME Agree(s, t, p, q, MinCount)
               PROVE  0 \in turns /\ InS(0) = {p} /\ b(0) = q
    OBVIOUS
  <2>1. Len(s) - p >= 3 /\ Len(t) - q >= 3
    BY DEF Agree, MinCount
  <2>2. a(0) = p /\ b(0) = q
    BY <1>1, OfTwo
  <2>3. Hit(p, q)
    BY <1>3
  <2>4. InS(0) = {p}
    BY <1>1, <2>2, <2>3
  <2>5. Max({Len(s) - p, Len(t) - q}) \in Int /\ Max({Len(s) - p, Len(t) - q}) >= 3
    <3>1. Len(s) - p \in Int /\ Len(t) - q \in Int
      BY <1>1
    <3> QED BY <2>1, <3>1, OfTwo
  <2>6. 0 \in 0..(Max({Len(s) - p, Len(t) - q}) - 1)
    BY <2>5
  <2> QED BY <2>2, <2>4, <2>6
<1>10. CASE turns = {}
  <2>1. FindMatch(s, t, p, q) = <<Len(s), Len(t)>>
    BY <1>8, <1>10 DEF NoMatch
  <2>2. <<Len(s), Len(t)>> \in (p..Len(s)) \X (q..Len(t))
    BY <1>1
  <2>3. Meets(s, t, <<Len(s), Len(t)>>)
    BY DEF Meets
  <2>4. ~Agree(s, t, p, q, MinCount)
    <3> HIDE DEF turns, InS, b
    <3> QED BY <1>9, <1>10
  <2> QED BY <2>1, <2>2, <2>3, <2>4
<1>11. CASE turns # {}
  <2>1. PICK n \in turns : n = Min(turns) /\ \A m \in turns : n <= m
    <3> HIDE DEF turns
    <3> QED BY <1>5, <1>11, MinOf
  <2>2. n \in Nat /\ (InS(n) # {} \/ InT(n) # {})
    <3> HIDE DEF InS, InT
    <3> QED BY <1>5
  <2>3. 0 \in turns => n = 0
    <3> HIDE DEF turns
    <3> QED BY <2>1, <2>2
  <2>4. CASE InS(n) # {}
    <3>1. PICK x \in InS(n) : x = Min(InS(n))
      <4> HIDE DEF InS
      <4> QED BY <2>2, <2>4, <1>7, MinOf
    <3>2. FindMatch(s, t, p, q) = <<x, b(n)>>
      <4> HIDE DEF InS, turns, b
      <4> QED BY <1>8, <1>11, <2>1, <2>4, <3>1
    <3>3. x \in p..Len(s) /\ Hit(x, b(n)) /\ b(n) \in q..Len(t)
      BY <1>2, <1>6, <2>2
    <3>4. Agree(s, t, p, q, MinCount) => <<x, b(n)>> = <<p, q>>
      <4> HIDE DEF InS, turns, b
      <4> QED BY <1>9, <2>3
    <3>5. Meets(s, t, <<x, b(n)>>)
      <4> HIDE DEF b, Hit
      <4> QED BY <1>4, <3>3
    <3> HIDE DEF b, Hit, InS, turns
    <3> QED BY <3>2, <3>3, <3>4, <3>5
  <2>5. CASE InS(n) = {}
    <3>1. PICK y \in InT(n) : y = Min(InT(n))
      <4> HIDE DEF InS, InT
      <4> QED BY <2>2, <2>5, <1>7, MinOf
    <3>2. FindMatch(s, t, p, q) = <<a(n), y>>
      <4> HIDE DEF InS, InT, turns, a
      <4> QED BY <1>8, <1>11, <2>1, <2>5, <3>1
    <3>3. y \in q..Len(t) /\ Hit(a(n), y) /\ a(n) \in p..Len(s)
      BY <1>2, <1>6, <2>2
    <3>4. ~Agree(s, t, p, q, MinCount)
      <4> HIDE DEF InS, turns
      <4> QED BY <1>9, <2>3, <2>5
    <3>5. Meets(s, t, <<a(n), y>>)
      <4> HIDE DEF a, Hit
      <4> QED BY <1>4, <3>3
    <3> HIDE DEF a, Hit, InS, InT, turns
    <3> QED BY <3>2, <3>3, <3>4, <3>5
  <2> QED BY <2>4, <2>5
<1> QED BY <1>10, <1>11
------------------------------------------------------------------------------
(* Cuts of texts and what is written of them. *)

Side == {"both", "other", "new"}

Item == [side : Side, line : Line]

LEMMA CutOf ==
  ASSUME NEW s \in Seq(Line), NEW from \in Nat, NEW to \in Nat
  PROVE  /\ Cut(s, from, to) \in Seq(Line)
         /\ \A x \in 1..Len(s) : from < x /\ x <= to =>
              x - from \in 1..Len(Cut(s, from, to)) /\ Cut(s, from, to)[x - from] = s[x]
         /\ to <= from \/ Len(s) <= from => Cut(s, from, to) = <<>>
         /\ to <= Len(s) => Cut(s, from, to) = SubSeq(s, from + 1, to)
<1> DEFINE end == IF to <= Len(s) THEN to ELSE Len(s)
<1>1. Len(s) \in Nat /\ \A x \in 1..Len(s) : s[x] \in Line
  BY LenProperties, ElementOfSeq
<1>2. Cut(s, from, to) = SubSeq(s, from + 1, end)
  <2>1. Min({to, Len(s)}) = end
    BY <1>1, OfTwo
  <2> QED BY <2>1 DEF Cut
<1>3. end \in Nat /\ end <= Len(s) /\ end <= to /\ (to <= Len(s) => end = to)
      /\ \A x \in 1..Len(s) : x <= to => x <= end
  BY <1>1
<1> HIDE DEF end
<1>4. \A x \in (from + 1)..end : s[x] \in Line
  BY <1>1, <1>3
<1>5. /\ SubSeq(s, from + 1, end) \in Seq(Line)
      /\ Len(SubSeq(s, from + 1, end)) = IF from + 1 <= end THEN end - (from + 1) + 1 ELSE 0
      /\ \A x \in 1..(end - (from + 1) + 1) : SubSeq(s, from + 1, end)[x] = s[from + 1 + x - 1]
  BY <1>3, <1>4, SubSeqProperties
<1>6. ASSUME NEW x \in 1..Len(s), from < x, x <= to
      PROVE  x - from \in 1..Len(Cut(s, from, to)) /\ Cut(s, from, to)[x - from] = s[x]
  <2>1. x <= end /\ x \in Nat
    BY <1>1, <1>3, <1>6
  <2>2. x - from \in 1..(end - (from + 1) + 1) /\ from + 1 + (x - from) - 1 = x
    BY <1>3, <1>6, <2>1
  <2>3. Len(SubSeq(s, from + 1, end)) = end - (from + 1) + 1
    BY <1>3, <1>5, <1>6, <2>1
  <2> QED BY <1>2, <1>5, <2>2, <2>3
<1>7. to <= from \/ Len(s) <= from => Cut(s, from, to) = <<>>
  <2>1. to <= from \/ Len(s) <= from => end < from + 1
    BY <1>1, <1>3
  <2> QED BY <1>2, <1>3, <2>1, SubSeqEmpty
<1> QED BY <1>2, <1>3, <1>5, <1>6, <1>7

LEMMA TaggedOf ==
  ASSUME NEW side \in Side, NEW s \in Seq(Line)
  PROVE  /\ Tagged(side, s) \in Seq(Item)
         /\ Len(Tagged(side, s)) = Len(s) /\ DOMAIN Tagged(side, s) = 1..Len(s)
         /\ \A n \in 1..Len(s) : Tagged(side, s)[n].side = side /\ Tagged(side, s)[n].line = s[n]
         /\ Written(Tagged(side, s)) = s
<1>1. Len(s) \in Nat /\ DOMAIN s = 1..Len(s) /\ s \in [1..Len(s) -> Line]
  BY LenProperties
<1>2. Tagged(side, s) = [n \in 1..Len(s) |-> [side |-> side, line |-> s[n]]]
  BY <1>1 DEF Tagged
<1>3. Tagged(side, s) \in [1..Len(s) -> Item]
  BY <1>1, <1>2 DEF Item
<1>4. Tagged(side, s) \in Seq(Item)
  BY <1>1, <1>3, SeqDef
<1>5. Len(Tagged(side, s)) = Len(s) /\ DOMAIN Tagged(side, s) = 1..Len(s)
  BY <1>1, <1>2, <1>4, LenProperties
<1>6. \A n \in 1..Len(s) : Tagged(side, s)[n].side = side /\ Tagged(side, s)[n].line = s[n]
  BY <1>2
<1>7. Written(Tagged(side, s)) = [n \in 1..Len(s) |-> s[n]]
  BY <1>5, <1>6 DEF Written
<1> QED BY <1>1, <1>4, <1>5, <1>6, <1>7

\* The lines written of two results in a row.
LEMMA WrittenOfBoth ==
  ASSUME NEW r \in Seq(Item), NEW u \in Seq(Item)
  PROVE  /\ Written(r) \in Seq(Line) /\ Written(r \o u) = Written(r) \o Written(u)
<1>1. ASSUME NEW s \in Seq(Item)
      PROVE  /\ Written(s) \in Seq(Line) /\ Len(Written(s)) = Len(s)
             /\ \A n \in 1..Len(s) : Written(s)[n] = s[n].line
  <2>1. Len(s) \in Nat /\ DOMAIN s = 1..Len(s) /\ \A n \in 1..Len(s) : s[n] \in Item
    BY LenProperties, ElementOfSeq
  <2>2. Written(s) = [n \in 1..Len(s) |-> s[n].line]
    BY <2>1 DEF Written
  <2>3. Written(s) \in [1..Len(s) -> Line]
    BY <2>1, <2>2 DEF Item
  <2>4. Written(s) \in Seq(Line)
    BY <2>1, <2>3, SeqDef
  <2> QED BY <2>1, <2>2, <2>4, LenProperties
<1>2. /\ r \o u \in Seq(Item) /\ Len(r \o u) = Len(r) + Len(u)
      /\ \A n \in 1..Len(r) + Len(u) : (r \o u)[n] = IF n <= Len(r) THEN r[n] ELSE u[n - Len(r)]
      /\ Len(r) \in Nat /\ Len(u) \in Nat
  BY ConcatProperties, LenProperties
<1>3. /\ Written(r) \o Written(u) \in Seq(Line)
      /\ Len(Written(r) \o Written(u)) = Len(r) + Len(u)
      /\ \A n \in 1..Len(r) + Len(u) : (Written(r) \o Written(u))[n] =
           IF n <= Len(r) THEN Written(r)[n] ELSE Written(u)[n - Len(r)]
  <2> DEFINE v == Written(r)
             w == Written(u)
  <2>1. v \in Seq(Line) /\ w \in Seq(Line) /\ Len(v) = Len(r) /\ Len(w) = Len(u)
    BY <1>1
  <2> HIDE DEF v, w
  <2>2. /\ v \o w \in Seq(Line) /\ Len(v \o w) = Len(v) + Len(w)
        /\ \A n \in 1..Len(v) + Len(w) : (v \o w)[n] = IF n <= Len(v) THEN v[n] ELSE w[n - Len(v)]
    BY <2>1, ConcatProperties
  <2>3. /\ v \o w \in Seq(Line) /\ Len(v \o w) = Len(r) + Len(u)
        /\ \A n \in 1..Len(r) + Len(u) : (v \o w)[n] = IF n <= Len(r) THEN v[n] ELSE w[n - Len(r)]
    BY <2>1, <2>2
  <2> QED BY <2>3 DEF v, w
<1>4. ASSUME NEW n \in 1..Len(r) + Len(u)
      PROVE  Written(r \o u)[n] = (Written(r) \o Written(u))[n]
  <2>1. Written(r \o u)[n] = (r \o u)[n].line
    BY <1>1, <1>2
  <2>2. CASE n <= Len(r)
    BY <1>1, <1>2, <1>3, <2>1, <2>2
  <2>3. CASE ~(n <= Len(r))
    <3>1. n - Len(r) \in 1..Len(u)
      BY <1>2, <2>3
    <3> QED BY <1>1, <1>2, <1>3, <2>1, <2>3, <3>1
  <2> QED BY <2>2, <2>3
<1>5. Written(r \o u) \in Seq(Line) /\ Len(Written(r \o u)) = Len(r) + Len(u)
  BY <1>1, <1>2
<1>6. Written(r \o u) = Written(r) \o Written(u)
  BY <1>3, <1>4, <1>5, SeqEqual
<1> QED BY <1>1, <1>6

\* The items of two results in a row.
LEMMA ItemsOfBoth ==
  ASSUME NEW r \in Seq(Item), NEW u \in Seq(Item)
  PROVE  /\ \A n \in DOMAIN (r \o u) :
              \/ n \in DOMAIN r /\ (r \o u)[n] = r[n]
              \/ \E m \in DOMAIN u : (r \o u)[n] = u[m]
         /\ \A n \in DOMAIN r : n \in DOMAIN (r \o u) /\ (r \o u)[n] = r[n]
         /\ \A m \in DOMAIN u : \E n \in DOMAIN (r \o u) : (r \o u)[n] = u[m]
<1>1. /\ r \o u \in Seq(Item) /\ Len(r \o u) = Len(r) + Len(u)
      /\ \A n \in 1..Len(r) + Len(u) : (r \o u)[n] = IF n <= Len(r) THEN r[n] ELSE u[n - Len(r)]
      /\ Len(r) \in Nat /\ Len(u) \in Nat
  BY ConcatProperties, LenProperties
<1>2. DOMAIN (r \o u) = 1..Len(r) + Len(u) /\ DOMAIN r = 1..Len(r) /\ DOMAIN u = 1..Len(u)
  BY <1>1, LenProperties
<1>3. ASSUME NEW n \in 1..Len(r) + Len(u)
      PROVE  \/ n \in 1..Len(r) /\ (r \o u)[n] = r[n]
             \/ \E m \in 1..Len(u) : (r \o u)[n] = u[m]
  <2>1. CASE n <= Len(r)
    BY <1>1, <2>1
  <2>2. CASE ~(n <= Len(r))
    <3>1. n - Len(r) \in 1..Len(u)
      BY <1>1, <2>2
    <3> QED BY <1>1, <2>2, <3>1
  <2> QED BY <2>1, <2>2
<1>4. ASSUME NEW n \in 1..Len(r)
      PROVE  n \in 1..Len(r) + Len(u) /\ (r \o u)[n] = r[n]
  BY <1>1
<1>5. ASSUME NEW m \in 1..Len(u)
      PROVE  \E n \in 1..Len(r) + Len(u) : (r \o u)[n] = u[m]
  <2>1. /\ Len(r) + m \in 1..Len(r) + Len(u) /\ ~(Len(r) + m <= Len(r))
        /\ Len(r) + m - Len(r) = m
    BY <1>1
  <2> QED BY <1>1, <2>1
<1> QED BY <1>2, <1>3, <1>4, <1>5

\* What one side shows of two results in a row.
LEMMA ShownOfBoth ==
  ASSUME NEW r \in Seq(Item), NEW u \in Seq(Item), NEW side \in Side
  PROVE  OnSide(side, r) \subseteq OnSide(side, r \o u) /\ OnSide(side, u) \subseteq OnSide(side, r \o u)
<1>1. ASSUME NEW s \in Seq(Item), NEW l
      PROVE  l \in OnSide(side, s) <=> \E n \in DOMAIN s : s[n].side \in {"both", side} /\ s[n].line = l
  BY DEF OnSide
<1>2. r \o u \in Seq(Item)
  BY ConcatProperties
<1>3. ASSUME NEW l \in OnSide(side, r) PROVE l \in OnSide(side, r \o u)
  <2>1. PICK n \in DOMAIN r : r[n].side \in {"both", side} /\ r[n].line = l
    BY <1>1
  <2>2. n \in DOMAIN (r \o u) /\ (r \o u)[n] = r[n]
    BY ItemsOfBoth
  <2> QED BY <1>1, <1>2, <2>1, <2>2
<1>4. ASSUME NEW l \in OnSide(side, u) PROVE l \in OnSide(side, r \o u)
  <2>1. PICK m \in DOMAIN u : u[m].side \in {"both", side} /\ u[m].line = l
    BY <1>1
  <2>2. PICK n \in DOMAIN (r \o u) : (r \o u)[n] = u[m]
    BY ItemsOfBoth
  <2> QED BY <1>1, <1>2, <2>1, <2>2
<1> QED BY <1>3, <1>4

\* A cut that is written shows its lines.
LEMMA CutShown ==
  ASSUME NEW s \in Seq(Line), NEW from \in Nat, NEW to \in Nat,
         NEW side \in Side, NEW tag \in {"both", side}
  PROVE  \A x \in 1..Len(s) :
           from < x /\ x <= to => s[x] \in OnSide(side, Tagged(tag, Cut(s, from, to)))
<1> DEFINE c == Cut(s, from, to)
<1>1. c \in Seq(Line) /\ tag \in Side
  BY CutOf DEF Side
<1>2. SUFFICES ASSUME NEW x \in 1..Len(s), from < x, x <= to
               PROVE  s[x] \in OnSide(side, Tagged(tag, c))
  OBVIOUS
<1>3. x - from \in 1..Len(c) /\ c[x - from] = s[x]
  BY <1>2, CutOf
<1> HIDE DEF c
<1>4. /\ x - from \in DOMAIN Tagged(tag, c)
      /\ Tagged(tag, c)[x - from].side = tag /\ Tagged(tag, c)[x - from].line = s[x]
  BY <1>1, <1>3, TaggedOf
<1> QED BY <1>4 DEF OnSide
------------------------------------------------------------------------------
(* Types. *)

Texts == old \in Seq(Line) /\ other \in Seq(Line) /\ new \in Seq(Line)

LEMMA Lengths ==
  ASSUME Texts, TypeOK
  PROVE  /\ Len(old) \in Nat /\ Len(other) \in Nat /\ Len(new) \in Nat
         /\ i \in Nat /\ j \in Nat /\ k \in Nat
         /\ i <= Len(old) /\ j <= Len(other)
         /\ otherMatch[1] \in 0..Len(old) /\ otherMatch[2] \in 0..Len(other)
         /\ newMatch[1] \in 0..Len(old) /\ newMatch[2] \in 0..Len(new)
         /\ result \in Seq(Item)
<1>1. Len(old) \in Nat /\ Len(other) \in Nat /\ Len(new) \in Nat
  BY LenProperties DEF Texts
<1>2. Max({Len(old), Len(new)}) \in Int
  <2>1. Len(old) \in Int /\ Len(new) \in Int
    BY <1>1
  <2> QED BY <2>1, OfTwo
<1>3. i \in 0..Len(old) /\ j \in 0..Len(other) /\ k \in 0..Max({Len(old), Len(new)})
  BY DEF TypeOK
<1>4. /\ otherMatch[1] \in 0..Len(old) /\ otherMatch[2] \in 0..Len(other)
      /\ newMatch[1] \in 0..Len(old) /\ newMatch[2] \in 0..Len(new)
      /\ result \in Seq(Item)
  BY DEF TypeOK, Item, Side
<1> QED BY <1>1, <1>2, <1>3, <1>4

\* What find_match returns in a turn of the loop.
LEMMA Found ==
  ASSUME Texts, TypeOK, More
  PROVE  /\ i < Len(old) /\ j < Len(other) /\ k < Len(new)
         /\ NextNew \in (i..Len(old)) \X (k..Len(new))
         /\ NextOther \in (i..Len(old)) \X (j..Len(other))
         /\ Meets(old, new, NextNew) /\ Meets(old, other, NextOther)
         /\ Agree(old, new, i, k, MinCount) => NextNew = <<i, k>>
         /\ Agree(old, other, i, j, MinCount) => NextOther = <<i, j>>
<1>1. /\ i \in 0..Len(old) /\ j \in 0..Len(other) /\ k \in 0..Len(new)
      /\ i < Len(old) /\ j < Len(other) /\ k < Len(new)
  BY Lengths DEF More
<1> QED BY <1>1, FindMatchMeets DEF NextNew, NextOther, Texts

LEMMA FoundTypes ==
  ASSUME Texts, TypeOK, More
  PROVE  /\ NextNew[1] \in Nat /\ NextNew[2] \in Nat /\ NextOther[1] \in Nat /\ NextOther[2] \in Nat
         /\ i <= NextNew[1] /\ NextNew[1] <= Len(old) /\ k <= NextNew[2] /\ NextNew[2] <= Len(new)
         /\ i <= NextOther[1] /\ NextOther[1] <= Len(old)
         /\ j <= NextOther[2] /\ NextOther[2] <= Len(other)
         /\ NextNew \in (0..Len(old)) \X (0..Len(new))
         /\ NextOther \in (0..Len(old)) \X (0..Len(other))
         /\ NewChanged \in Nat /\ OtherChanged \in Int
<1>1. /\ NextNew \in (i..Len(old)) \X (k..Len(new))
      /\ NextOther \in (i..Len(old)) \X (j..Len(other))
  BY Found
<1>2. /\ NextNew[1] \in i..Len(old) /\ NextNew[2] \in k..Len(new)
      /\ NextOther[1] \in i..Len(old) /\ NextOther[2] \in j..Len(other)
      /\ NextNew = <<NextNew[1], NextNew[2]>> /\ NextOther = <<NextOther[1], NextOther[2]>>
  BY <1>1
<1>3. /\ i \in Nat /\ j \in Nat /\ k \in Nat
      /\ Len(old) \in Nat /\ Len(other) \in Nat /\ Len(new) \in Nat
  BY Lengths
<1>4. NewChanged \in Nat /\ OtherChanged \in Int
  BY <1>2, <1>3 DEF NewChanged, OtherChanged
<1>5. /\ NextNew[1] \in 0..Len(old) /\ NextNew[2] \in 0..Len(new)
      /\ NextOther[1] \in 0..Len(old) /\ NextOther[2] \in 0..Len(other)
  BY <1>2, <1>3
<1>6. NextNew \in (0..Len(old)) \X (0..Len(new)) /\ NextOther \in (0..Len(old)) \X (0..Len(other))
  BY <1>2, <1>5
<1> QED BY <1>2, <1>3, <1>4, <1>6

\* The first lines agree where three do.
LEMMA FirstAgrees ==
  ASSUME NEW s \in Seq(Line), NEW t \in Seq(Line), NEW p \in Nat, NEW q \in Nat,
         Agree(s, t, p, q, MinCount)
  PROVE  s[p + 1] = t[q + 1] /\ Agree(s, t, p, q, 1)
<1>1. 1 \in 1..MinCount /\ 1..1 = {1}
  BY DEF MinCount
<1>2. s[p + 1] = t[q + 1]
  BY <1>1 DEF Agree
<1>3. Len(s) \in Nat /\ Len(t) \in Nat
  BY LenProperties
<1> QED BY <1>1, <1>2, <1>3 DEF Agree, MinCount

\* Only new is changed: old and other agree as long as new is changed.
LEMMA OnlyNewIsChanged ==
  ASSUME Texts, TypeOK, More, NewIsChanged, OneChanged
  PROVE  Agree(old, other, i, j, NewChanged)
<1>1. i \in 0..Len(old) /\ j \in 0..Len(other) /\ NewChanged \in Int
  BY Lengths, FoundTypes
<1> QED BY <1>1, MatchCounts DEF OneChanged, Texts

\* Only other is changed: old and new agree here, and as long as other is changed.
LEMMA OnlyOtherIsChanged ==
  ASSUME Texts, TypeOK, More, ~NewIsChanged
  PROVE  /\ Agree(old, new, i, k, MinCount) /\ old[i + 1] = new[k + 1]
         /\ OneChanged => OtherChanged > 0 /\ Agree(old, new, i, k, OtherChanged)
<1>1. /\ i \in 0..Len(old) /\ i \in Nat /\ k \in Nat /\ k \in 0..Len(new) /\ OtherChanged \in Int
      /\ i < Len(old)
  BY Lengths, FoundTypes, Found
<1>2. NextNew = <<i, k>> /\ Meets(old, new, <<i, k>>)
  BY Found DEF NewIsChanged
<1>3. <<i, k>> \in (0..Len(old)) \X (0..Len(new)) /\ <<i, k>>[1] # Len(old)
  BY <1>1
<1>4. Agree(old, new, i, k, MinCount)
  BY <1>2, <1>3, MeetsIsAgree DEF Texts
<1>5. old[i + 1] = new[k + 1] /\ Agree(old, new, i, k, 1)
  BY <1>1, <1>4, FirstAgrees DEF Texts
<1>6. ASSUME OneChanged PROVE OtherChanged > 0 /\ Agree(old, new, i, k, OtherChanged)
  <2> DEFINE n == Match(old, new, i, k, OtherChanged)
  <2>1. n = OtherChanged
    BY <1>6 DEF OneChanged
  <2>2. /\ n \in Nat /\ Agree(old, new, i, k, n)
        /\ (OtherChanged > 0 => 1 <= OtherChanged) => 1 <= n
    BY <1>1, <1>5, MatchCounts DEF Texts
  <2> HIDE DEF n
  <2> QED BY <1>1, <2>1, <2>2
<1> QED BY <1>4, <1>5, <1>6
\* Where a position in new may be.
LEMMA NewBound ==
  ASSUME Texts, NEW n \in Nat
  PROVE  n <= Len(new) \/ n <= Len(old) => n \in 0..Max({Len(old), Len(new)})
<1>1. Len(old) \in Int /\ Len(new) \in Int
  BY LenProperties DEF Texts
<1>2. Max({Len(old), Len(new)}) = IF Len(old) <= Len(new) THEN Len(new) ELSE Len(old)
  BY <1>1, OfTwo
<1> QED BY <1>1, <1>2

\* One line, and the parts of texts, can be written.
LEMMA Writable ==
  ASSUME Texts, TypeOK
  PROVE  /\ \A side \in Side, from \in Nat, to \in Nat :
              /\ Tagged(side, Cut(other, from, to)) \in Seq(Item)
              /\ Tagged(side, Cut(new, from, to)) \in Seq(Item)
         /\ More => Tagged("both", <<old[i + 1]>>) \in Seq(Item)
         /\ \A u \in Seq(Item), v \in Seq(Item) : u \o v \in Seq(Item)
<1>1. \A side \in Side, from \in Nat, to \in Nat :
        /\ Tagged(side, Cut(other, from, to)) \in Seq(Item)
        /\ Tagged(side, Cut(new, from, to)) \in Seq(Item)
  BY CutOf, TaggedOf DEF Texts
<1>2. ASSUME More PROVE Tagged("both", <<old[i + 1]>>) \in Seq(Item)
  <2>1. i + 1 \in 1..Len(old)
    BY <1>2, Lengths DEF More
  <2>2. old[i + 1] \in Line
    BY <2>1, ElementOfSeq DEF Texts
  <2>3. <<old[i + 1]>> \in Seq(Line) /\ "both" \in Side
    BY <2>2 DEF Side
  <2> QED BY <2>3, TaggedOf
<1>3. \A u \in Seq(Item), v \in Seq(Item) : u \o v \in Seq(Item)
  BY ConcatProperties
<1> QED BY <1>1, <1>2, <1>3

\* What the tail writes.
LEMMA TailTypes == Texts /\ TypeOK => TailLines \in Seq(Item)
<1> SUFFICES ASSUME Texts, TypeOK PROVE TailLines \in Seq(Item)
  OBVIOUS
<1>1. "both" \in Side /\ "other" \in Side /\ "new" \in Side
  BY DEF Side
<1>2. \A side \in Side : Tagged(side, RestOfOther) \in Seq(Item) /\ Tagged(side, RestOfNew) \in Seq(Item)
  BY Lengths, Writable DEF RestOfOther, RestOfNew
<1>3. Tagged("other", RestOfOther) \o Tagged("new", RestOfNew) \in Seq(Item)
  BY <1>1, <1>2, Writable
<1>4. <<>> \in Seq(Item)
  BY EmptySeq
<1> QED BY <1>1, <1>2, <1>3, <1>4 DEF TailLines

\* The end of a search.
LEMMA EndTypes ==
  ASSUME Texts, TypeOK, NEW a \in 0..Len(old), NEW b \in 0..Len(other), NEW c \in Nat,
         c <= Len(new) \/ c <= Len(old), EndConflict(a, b, c)
  PROVE  Texts' /\ TypeOK'
<1>1. UNCHANGED <<old, other, new, otherMatch, newMatch>> /\ pc' = "loop" /\ i' = a /\ j' = b /\ k' = c
  BY DEF EndConflict, Goto, MoveTo, input
<1>2. result' \in Seq(Item)
  <2>1. /\ "other" \in Side /\ "new" \in Side /\ j \in Nat /\ k \in Nat /\ b \in Nat
        /\ result \in Seq(Item)
    BY Lengths DEF Side
  <2>2. Tagged("other", Cut(other, j, b)) \in Seq(Item) /\ Tagged("new", Cut(new, k, c)) \in Seq(Item)
    BY <2>1, Writable
  <2>3. result' = result \o (Tagged("other", Cut(other, j, b)) \o Tagged("new", Cut(new, k, c)))
    BY DEF EndConflict, Emit
  <2> QED BY <2>1, <2>2, <2>3, Writable
<1>3. c \in 0..Max({Len(old), Len(new)})
  BY NewBound
<1> QED BY <1>1, <1>2, <1>3 DEF Texts, TypeOK, Item, Side

\* What the search asks of the two matches.
LEMMA SearchTypes ==
  ASSUME Texts, TypeOK
  PROVE  /\ Ahead \in Int
         /\ Ahead > 0 =>
              LET n == Match(old, other, otherMatch[1], otherMatch[2], Ahead)
              IN  /\ n \in Nat /\ n <= Ahead
                  /\ Agree(old, other, otherMatch[1], otherMatch[2], n)
                  /\ otherMatch[1] + n \in 0..Len(old) /\ otherMatch[2] + n \in 0..Len(other)
         /\ Ahead < 0 =>
              LET n == Match(old, new, newMatch[1], newMatch[2], -Ahead)
              IN  /\ n \in Nat /\ n <= -Ahead
                  /\ Agree(old, new, newMatch[1], newMatch[2], n)
                  /\ newMatch[1] + n \in 0..Len(old) /\ newMatch[2] + n \in 0..Len(new)
<1>1. /\ otherMatch[1] \in 0..Len(old) /\ otherMatch[2] \in 0..Len(other)
      /\ newMatch[1] \in 0..Len(old) /\ newMatch[2] \in 0..Len(new)
      /\ Len(old) \in Nat /\ Len(other) \in Nat /\ Len(new) \in Nat
  BY Lengths
<1>2. Ahead \in Int /\ -Ahead \in Int
  BY <1>1 DEF Ahead
<1>3. ASSUME Ahead > 0
      PROVE LET n == Match(old, other, otherMatch[1], otherMatch[2], Ahead)
            IN  /\ n \in Nat /\ n <= Ahead
                /\ Agree(old, other, otherMatch[1], otherMatch[2], n)
                /\ otherMatch[1] + n \in 0..Len(old) /\ otherMatch[2] + n \in 0..Len(other)
  <2> DEFINE n == Match(old, other, otherMatch[1], otherMatch[2], Ahead)
  <2>1. n \in Nat /\ n <= Ahead /\ Agree(old, other, otherMatch[1], otherMatch[2], n)
    BY <1>1, <1>2, <1>3, MatchCounts DEF Texts
  <2> HIDE DEF n
  <2>2. otherMatch[1] + n \in 0..Len(old) /\ otherMatch[2] + n \in 0..Len(other)
    BY <1>1, <2>1 DEF Agree
  <2> QED BY <2>1, <2>2 DEF n
<1>4. ASSUME Ahead < 0
      PROVE LET n == Match(old, new, newMatch[1], newMatch[2], -Ahead)
            IN  /\ n \in Nat /\ n <= -Ahead
                /\ Agree(old, new, newMatch[1], newMatch[2], n)
                /\ newMatch[1] + n \in 0..Len(old) /\ newMatch[2] + n \in 0..Len(new)
  <2> DEFINE n == Match(old, new, newMatch[1], newMatch[2], -Ahead)
  <2>1. -Ahead > 0
    BY <1>2, <1>4
  <2>2. n \in Nat /\ n <= -Ahead /\ Agree(old, new, newMatch[1], newMatch[2], n)
    BY <1>1, <1>2, <2>1, MatchCounts DEF Texts
  <2> HIDE DEF n
  <2>3. newMatch[1] + n \in 0..Len(old) /\ newMatch[2] + n \in 0..Len(new)
    <3>1. n <= Len(old) - newMatch[1] /\ n <= Len(new) - newMatch[2] /\ n \in Nat
      BY <2>2 DEF Agree
    <3> QED BY <1>1, <3>1
  <2> QED BY <2>2, <2>3 DEF n
<1> QED BY <1>2, <1>3, <1>4
\* Every step keeps the types.
LEMMA InitTypes == Init => Texts /\ TypeOK
<1> SUFFICES ASSUME Init PROVE Texts /\ TypeOK
  OBVIOUS
<1>1. Texts
  BY InputsAssumption DEF Init, Texts
<1>2. Len(old) \in Nat /\ Len(other) \in Nat /\ Len(new) \in Nat
  BY <1>1, LenProperties DEF Texts
<1>3. 0 \in 0..Max({Len(old), Len(new)})
  <2>1. 0 \in Nat /\ 0 <= Len(new)
    BY <1>2
  <2> QED BY <1>1, <2>1, NewBound
<1>4. <<>> \in Seq(Item)
  BY EmptySeq
<1> QED BY <1>1, <1>2, <1>3, <1>4 DEF Init, TypeOK, Item, Side

LEMMA StepTypes == Texts /\ TypeOK /\ [Next]_vars => Texts' /\ TypeOK'
<1> SUFFICES ASSUME Texts, TypeOK, [Next]_vars PROVE Texts' /\ TypeOK'
  OBVIOUS
<1>0. /\ Len(old) \in Nat /\ Len(other) \in Nat /\ Len(new) \in Nat
      /\ i \in Nat /\ j \in Nat /\ k \in Nat
      /\ i <= Len(old) /\ j <= Len(other)
      /\ result \in Seq(Item)
      /\ "both" \in Side /\ "other" \in Side /\ "new" \in Side
  BY Lengths DEF Side
<1>1. CASE Unchanged
  <2>1. UNCHANGED <<old, other, new, pc, otherMatch, newMatch>>
        /\ i' = i + 1 /\ j' = j + 1 /\ k' = k + 1
        /\ result' = result \o Tagged("both", <<old[i + 1]>>)
        /\ i < Len(old) /\ j < Len(other) /\ k < Len(new) /\ More
    BY <1>1 DEF Unchanged, MoveTo, Emit, input, More
  <2>2. result' \in Seq(Item)
    BY <1>0, <2>1, Writable
  <2>3. k + 1 \in Nat /\ k + 1 <= Len(new)
    BY <1>0, <2>1
  <2>4. k + 1 \in 0..Max({Len(old), Len(new)})
    BY <2>3, NewBound
  <2>5. i + 1 \in 0..Len(old) /\ j + 1 \in 0..Len(other)
    BY <1>0, <2>1
  <2> QED BY <2>1, <2>2, <2>4, <2>5 DEF Texts, TypeOK, Item, Side
<1>2. CASE TakeNew
  <2>1. UNCHANGED <<old, other, new, pc, otherMatch, newMatch>>
        /\ i' = NextNew[1] /\ j' = j + NewChanged /\ k' = NextNew[2]
        /\ result' = result \o Tagged("both", Cut(new, k, NextNew[2]))
        /\ More /\ NewIsChanged /\ OneChanged
    BY <1>2 DEF TakeNew, MoveTo, Emit, input
  <2>2. /\ NextNew[1] \in 0..Len(old) /\ NextNew[2] \in Nat /\ NextNew[2] <= Len(new)
        /\ NewChanged \in Nat /\ NewChanged <= Len(other) - j
    BY <1>0, <2>1, FoundTypes, OnlyNewIsChanged DEF Agree
  <2>3. result' \in Seq(Item)
    BY <1>0, <2>1, <2>2, Writable
  <2>4. NextNew[2] \in 0..Max({Len(old), Len(new)})
    BY <2>2, NewBound
  <2>5. j + NewChanged \in 0..Len(other)
    BY <1>0, <2>2
  <2> QED BY <2>1, <2>2, <2>3, <2>4, <2>5 DEF Texts, TypeOK, Item, Side
<1>3. CASE TakeOther
  <2>1. UNCHANGED <<old, other, new, pc, otherMatch, newMatch>>
        /\ i' = NextOther[1] /\ j' = NextOther[2] /\ k' = k + OtherChanged
        /\ result' = result \o Tagged("both", Cut(other, j, NextOther[2]))
        /\ More /\ ~NewIsChanged /\ OneChanged
    BY <1>3 DEF TakeOther, MoveTo, Emit, input
  <2>2. /\ NextOther[1] \in 0..Len(old) /\ NextOther[2] \in 0..Len(other) /\ NextOther[2] \in Nat
        /\ OtherChanged \in Int /\ OtherChanged > 0 /\ OtherChanged <= Len(new) - k
    BY <1>0, <2>1, FoundTypes, OnlyOtherIsChanged DEF Agree
  <2>3. result' \in Seq(Item)
    BY <1>0, <2>1, <2>2, Writable
  <2>4. k + OtherChanged \in Nat /\ k + OtherChanged <= Len(new)
    BY <1>0, <2>2
  <2>5. k + OtherChanged \in 0..Max({Len(old), Len(new)})
    BY <2>4, NewBound
  <2> QED BY <2>1, <2>2, <2>3, <2>5 DEF Texts, TypeOK, Item, Side
<1>4. CASE Conflict
  <2>1. UNCHANGED <<old, other, new, i, j, k, result>> /\ pc' = "triple"
        /\ otherMatch' = NextOther /\ newMatch' = NextNew /\ More
    BY <1>4 DEF Conflict, Goto, input
  <2>2. /\ NextNew \in (0..Len(old)) \X (0..Len(new))
        /\ NextOther \in (0..Len(old)) \X (0..Len(other))
    BY <2>1, FoundTypes
  <2> QED BY <2>1, <2>2 DEF Texts, TypeOK
<1>5. CASE MatchesMeet
  <2>1. EndConflict(newMatch[1], otherMatch[2], newMatch[2])
    BY <1>5 DEF MatchesMeet
  <2>2. /\ newMatch[1] \in 0..Len(old) /\ otherMatch[2] \in 0..Len(other)
        /\ newMatch[2] \in Nat /\ newMatch[2] <= Len(new)
    BY Lengths
  <2> QED BY <2>1, <2>2, EndTypes
<1>6. CASE NewIsAhead
  <2>1. PICK n \in Nat :
          /\ n = Match(old, other, otherMatch[1], otherMatch[2], Ahead)
          /\ otherMatch[1] + n \in 0..Len(old) /\ otherMatch[2] + n \in 0..Len(other)
    BY <1>6, SearchTypes DEF NewIsAhead
  <2>2. CASE n = Ahead
    <3>1. EndConflict(newMatch[1], otherMatch[2] + Ahead, newMatch[2])
      BY <1>6, <2>1, <2>2 DEF NewIsAhead
    <3>2. /\ newMatch[1] \in 0..Len(old) /\ otherMatch[2] + Ahead \in 0..Len(other)
          /\ newMatch[2] \in Nat /\ newMatch[2] <= Len(new)
      BY <2>1, <2>2, Lengths
    <3> QED BY <3>1, <3>2, EndTypes
  <2>3. CASE n # Ahead
    <3>1. /\ otherMatch' = FindMatch(old, other, otherMatch[1] + n, otherMatch[2] + n)
          /\ UNCHANGED <<old, other, new, pc, i, j, k, newMatch, result>>
      BY <1>6, <2>1, <2>3 DEF NewIsAhead, Again, input
    <3>2. otherMatch' \in ((otherMatch[1] + n)..Len(old)) \X ((otherMatch[2] + n)..Len(other))
      BY <2>1, <3>1, FindMatchMeets DEF Texts
    <3>3. otherMatch' \in (0..Len(old)) \X (0..Len(other))
      BY <1>0, <2>1, <3>2
    <3> QED BY <3>1, <3>3 DEF Texts, TypeOK
  <2> QED BY <2>2, <2>3
<1>7. CASE OtherIsAhead
  <2>1. PICK n \in Nat :
          /\ n = Match(old, new, newMatch[1], newMatch[2], -Ahead)
          /\ newMatch[1] + n \in 0..Len(old) /\ newMatch[2] + n \in 0..Len(new)
    BY <1>7, SearchTypes DEF OtherIsAhead
  <2>2. CASE n = -Ahead
    <3>1. EndConflict(otherMatch[1], otherMatch[2], newMatch[1] - Ahead)
      BY <1>7, <2>1, <2>2 DEF OtherIsAhead
    <3>2. /\ otherMatch[1] \in 0..Len(old) /\ otherMatch[2] \in 0..Len(other)
          /\ newMatch[1] - Ahead = otherMatch[1] /\ otherMatch[1] \in Nat /\ otherMatch[1] <= Len(old)
      BY Lengths DEF Ahead
    <3> QED BY <3>1, <3>2, EndTypes
  <2>3. CASE n # -Ahead
    <3>1. /\ newMatch' = FindMatch(old, new, newMatch[1] + n, newMatch[2] + n)
          /\ UNCHANGED <<old, other, new, pc, i, j, k, otherMatch, result>>
      BY <1>7, <2>1, <2>3 DEF OtherIsAhead, Again, input
    <3>2. newMatch' \in ((newMatch[1] + n)..Len(old)) \X ((newMatch[2] + n)..Len(new))
      BY <2>1, <3>1, FindMatchMeets DEF Texts
    <3>3. newMatch' \in (0..Len(old)) \X (0..Len(new))
      BY <1>0, <2>1, <3>2
    <3> QED BY <3>1, <3>3 DEF Texts, TypeOK
  <2> QED BY <2>2, <2>3
<1>8. CASE Tail3
  <2>1. /\ UNCHANGED <<old, other, new, i, j, k, otherMatch, newMatch>>
        /\ pc' = "done" /\ result' = result \o TailLines
    BY <1>8 DEF Tail3, Goto, Emit, input
  <2>2. result' \in Seq(Item)
    BY <1>0, <2>1, TailTypes, Writable
  <2> QED BY <2>1, <2>2 DEF Texts, TypeOK, Item, Side
<1>9. CASE UNCHANGED vars
  BY <1>9 DEF vars, input, Texts, TypeOK
<1> QED BY <1>1, <1>2, <1>3, <1>4, <1>5, <1>6, <1>7, <1>8, <1>9 DEF Next

\* The positions stay in the texts, except that the one in new may be one in old
\* (diff3.py:147), and what is written are lines of the texts.
THEOREM MergeTypeCorrect == Spec => []TypeOK
<1>1. Init => Texts /\ TypeOK
  BY InitTypes
<1>2. (Texts /\ TypeOK) /\ [Next]_vars => (Texts /\ TypeOK)'
  BY StepTypes
<1> QED BY <1>1, <1>2, PTL DEF Spec
------------------------------------------------------------------------------
(* The search for a common position, and that the merge gets ahead. *)

\* The search goes on behind at least one line: where a match is behind the other
\* one there is something left of old, so three lines agree.
LEMMA SearchMoves ==
  ASSUME Texts, TypeOK, SearchInv, pc = "triple"
  PROVE  /\ Ahead > 0 => Match(old, other, otherMatch[1], otherMatch[2], Ahead) >= 1
         /\ Ahead < 0 => Match(old, new, newMatch[1], newMatch[2], -Ahead) >= 1
<1>1. /\ otherMatch[1] \in 0..Len(old) /\ otherMatch[2] \in 0..Len(other)
      /\ newMatch[1] \in 0..Len(old) /\ newMatch[2] \in 0..Len(new)
      /\ Len(old) \in Nat /\ Len(other) \in Nat /\ Len(new) \in Nat
  BY Lengths
<1>2. /\ otherMatch \in (0..Len(old)) \X (0..Len(other))
      /\ newMatch \in (0..Len(old)) \X (0..Len(new))
      /\ Meets(old, other, otherMatch) /\ Meets(old, new, newMatch)
  BY DEF TypeOK, SearchInv
<1>3. Ahead \in Int /\ -Ahead \in Int
  BY <1>1 DEF Ahead
<1>4. ASSUME Ahead > 0 PROVE Match(old, other, otherMatch[1], otherMatch[2], Ahead) >= 1
  <2>1. otherMatch[1] # Len(old)
    BY <1>1, <1>4 DEF Ahead
  <2>2. Agree(old, other, otherMatch[1], otherMatch[2], MinCount)
    BY <1>2, <2>1, MeetsIsAgree DEF Texts
  <2>3. Agree(old, other, otherMatch[1], otherMatch[2], 1)
    BY <1>1, <2>2, FirstAgrees DEF Texts
  <2>4. 1 \in Nat /\ 1 <= Ahead
    BY <1>3, <1>4
  <2>5. 1 <= Match(old, other, otherMatch[1], otherMatch[2], Ahead)
    BY <1>1, <1>3, <2>3, <2>4, MatchCounts DEF Texts
  <2> QED BY <1>1, <1>3, <2>5, MatchCounts DEF Texts
<1>5. ASSUME Ahead < 0 PROVE Match(old, new, newMatch[1], newMatch[2], -Ahead) >= 1
  <2>1. newMatch[1] # Len(old)
    BY <1>1, <1>5 DEF Ahead
  <2>2. Agree(old, new, newMatch[1], newMatch[2], MinCount)
    BY <1>2, <2>1, MeetsIsAgree DEF Texts
  <2>3. Agree(old, new, newMatch[1], newMatch[2], 1)
    BY <1>1, <2>2, FirstAgrees DEF Texts
  <2>4. 1 \in Nat /\ 1 <= -Ahead
    BY <1>3, <1>5
  <2>5. 1 <= Match(old, new, newMatch[1], newMatch[2], -Ahead)
    BY <1>1, <1>3, <2>3, <2>4, MatchCounts DEF Texts
  <2> QED BY <1>1, <1>3, <2>5, MatchCounts DEF Texts
<1> QED BY <1>4, <1>5

\* In a conflict the texts do not all agree here, so one match is further on.
LEMMA ConflictMoves ==
  ASSUME Texts, TypeOK, More, ~AllEqual
  PROVE  NextOther # <<i, j>> \/ NextNew # <<i, k>>
<1> SUFFICES ASSUME NextNew = <<i, k>>, NextOther = <<i, j>> PROVE FALSE
  OBVIOUS
<1>1. i \in Nat /\ j \in Nat /\ i \in 0..Len(old) /\ j \in 0..Len(other) /\ i < Len(old)
  BY Lengths, Found
<1>2. old[i + 1] = new[k + 1]
  BY OnlyOtherIsChanged DEF NewIsChanged
<1>3. <<i, j>> \in (0..Len(old)) \X (0..Len(other)) /\ <<i, j>>[1] # Len(old)
  BY <1>1
<1>4. Agree(old, other, i, j, MinCount)
  BY <1>1, <1>3, Found, MeetsIsAgree DEF Texts
<1>5. old[i + 1] = other[j + 1]
  BY <1>1, <1>4, FirstAgrees DEF Texts
<1> QED BY <1>2, <1>5 DEF AllEqual

LEMMA StepSearch == Texts /\ TypeOK /\ SearchInv /\ [Next]_vars => SearchInv'
<1> SUFFICES ASSUME Texts, TypeOK, SearchInv, [Next]_vars, pc' = "triple" PROVE SearchInv'
  BY DEF SearchInv
<1>0. /\ Len(old) \in Nat /\ Len(other) \in Nat /\ Len(new) \in Nat
      /\ i \in Nat /\ j \in Nat /\ k \in Nat
      /\ otherMatch[1] \in Nat /\ otherMatch[2] \in Nat
      /\ newMatch[1] \in Nat /\ newMatch[2] \in Nat
  BY Lengths
<1>1. CASE Conflict
  <2>1. UNCHANGED <<old, other, new, i, j, k>> /\ More /\ ~AllEqual
        /\ otherMatch' = NextOther /\ newMatch' = NextNew
    BY <1>1 DEF Conflict, Goto, input
  <2>2. NextOther # <<i, j>> \/ NextNew # <<i, k>>
    BY <2>1, ConflictMoves
  <2>3. /\ i <= NextNew[1] /\ k <= NextNew[2] /\ i <= NextOther[1] /\ j <= NextOther[2]
        /\ Meets(old, new, NextNew) /\ Meets(old, other, NextOther)
    BY <2>1, Found, FoundTypes
  <2> QED BY <2>1, <2>2, <2>3 DEF SearchInv, Meets
<1>2. CASE NewIsAhead
  <2>0. PICK n : n = Match(old, other, otherMatch[1], otherMatch[2], Ahead)
    OBVIOUS
  <2>1. pc = "triple" /\ Ahead > 0
        /\ (n = Ahead => EndConflict(newMatch[1], otherMatch[2] + Ahead, newMatch[2]))
        /\ (n # Ahead =>
              /\ otherMatch' = FindMatch(old, other, otherMatch[1] + n, otherMatch[2] + n)
              /\ UNCHANGED <<old, other, new, pc, i, j, k, newMatch, result>>)
    BY <1>2, <2>0 DEF NewIsAhead, Again, input
  <2>2. n \in Nat /\ n >= 1 /\ otherMatch[1] + n \in 0..Len(old) /\ otherMatch[2] + n \in 0..Len(other)
    BY <2>0, <2>1, SearchTypes, SearchMoves
  <2>3. n # Ahead
    BY <2>1 DEF EndConflict, Goto
  <2>4. /\ otherMatch' \in ((otherMatch[1] + n)..Len(old)) \X ((otherMatch[2] + n)..Len(other))
        /\ Meets(old, other, otherMatch')
    <3>1. /\ FindMatch(old, other, otherMatch[1] + n, otherMatch[2] + n)
               \in ((otherMatch[1] + n)..Len(old)) \X ((otherMatch[2] + n)..Len(other))
          /\ Meets(old, other, FindMatch(old, other, otherMatch[1] + n, otherMatch[2] + n))
      BY <2>2, FindMatchMeets DEF Texts
    <3> QED BY <2>1, <2>3, <3>1
  <2>5. /\ i <= otherMatch[1] /\ j <= otherMatch[2] /\ i <= newMatch[1] /\ k <= newMatch[2]
        /\ Meets(old, new, newMatch)
    BY <2>1 DEF SearchInv
  <2>6. otherMatch'[1] \in (otherMatch[1] + n)..Len(old) /\ otherMatch'[2] \in (otherMatch[2] + n)..Len(other)
    BY <2>4
  <2>7. i <= otherMatch'[1] /\ j <= otherMatch'[2] /\ otherMatch'[1] # i
    <3>1. /\ otherMatch[1] + n <= otherMatch'[1] /\ otherMatch[2] + n <= otherMatch'[2]
          /\ otherMatch'[1] \in Int /\ otherMatch'[2] \in Int
      BY <1>0, <2>2, <2>6
    <3>2. i <= otherMatch[1] /\ j <= otherMatch[2] /\ n \in Nat /\ n >= 1
      BY <2>2, <2>5
    <3>3. i < otherMatch'[1] /\ j <= otherMatch'[2]
      BY <1>0, <3>1, <3>2
    <3> QED BY <1>0, <3>1, <3>3
  <2> QED BY <2>1, <2>3, <2>4, <2>5, <2>7 DEF SearchInv, Meets
<1>3. CASE OtherIsAhead
  <2>0. PICK n : n = Match(old, new, newMatch[1], newMatch[2], -Ahead)
    OBVIOUS
  <2>1. pc = "triple" /\ Ahead < 0
        /\ (n = -Ahead => EndConflict(otherMatch[1], otherMatch[2], newMatch[1] - Ahead))
        /\ (n # -Ahead =>
              /\ newMatch' = FindMatch(old, new, newMatch[1] + n, newMatch[2] + n)
              /\ UNCHANGED <<old, other, new, pc, i, j, k, otherMatch, result>>)
    BY <1>3, <2>0 DEF OtherIsAhead, Again, input
  <2>2. n \in Nat /\ n >= 1 /\ newMatch[1] + n \in 0..Len(old) /\ newMatch[2] + n \in 0..Len(new)
    BY <2>0, <2>1, SearchTypes, SearchMoves
  <2>3. n # -Ahead
    BY <2>1 DEF EndConflict, Goto
  <2>4. /\ newMatch' \in ((newMatch[1] + n)..Len(old)) \X ((newMatch[2] + n)..Len(new))
        /\ Meets(old, new, newMatch')
    <3>1. /\ FindMatch(old, new, newMatch[1] + n, newMatch[2] + n)
               \in ((newMatch[1] + n)..Len(old)) \X ((newMatch[2] + n)..Len(new))
          /\ Meets(old, new, FindMatch(old, new, newMatch[1] + n, newMatch[2] + n))
      BY <2>2, FindMatchMeets DEF Texts
    <3> QED BY <2>1, <2>3, <3>1
  <2>5. /\ i <= otherMatch[1] /\ j <= otherMatch[2] /\ i <= newMatch[1] /\ k <= newMatch[2]
        /\ Meets(old, other, otherMatch)
    BY <2>1 DEF SearchInv
  <2>6. newMatch'[1] \in (newMatch[1] + n)..Len(old) /\ newMatch'[2] \in (newMatch[2] + n)..Len(new)
    BY <2>4
  <2>7. i <= newMatch'[1] /\ k <= newMatch'[2] /\ newMatch'[1] # i
    <3>1. /\ newMatch[1] + n <= newMatch'[1] /\ newMatch[2] + n <= newMatch'[2]
          /\ newMatch'[1] \in Int /\ newMatch'[2] \in Int
      BY <1>0, <2>2, <2>6
    <3>2. i <= newMatch[1] /\ k <= newMatch[2] /\ n \in Nat /\ n >= 1
      BY <2>2, <2>5
    <3>3. i < newMatch'[1] /\ k <= newMatch'[2]
      BY <1>0, <3>1, <3>2
    <3> QED BY <1>0, <3>1, <3>3
  <2> QED BY <2>1, <2>3, <2>4, <2>5, <2>7 DEF SearchInv, Meets
<1>4. CASE UNCHANGED vars
  BY <1>4 DEF vars, input, SearchInv, Meets
<1>5. ~(Unchanged \/ TakeNew \/ TakeOther \/ Tail3 \/ MatchesMeet)
  BY DEF Unchanged, TakeNew, TakeOther, Tail3, MatchesMeet, More, EndConflict, Goto
<1> QED BY <1>1, <1>2, <1>3, <1>4, <1>5 DEF Next
LEMMA StepAhead == Texts /\ TypeOK /\ SearchInv /\ Next => GetsAhead
<1> SUFFICES ASSUME Texts, TypeOK, SearchInv, Next PROVE GetsAhead
  OBVIOUS
<1>0. /\ Len(old) \in Nat /\ Len(other) \in Nat /\ Len(new) \in Nat
      /\ i \in Nat /\ j \in Nat /\ k \in Nat
      /\ otherMatch[1] \in Nat /\ otherMatch[2] \in Nat
      /\ newMatch[1] \in Nat /\ newMatch[2] \in Nat
  BY Lengths
<1>s. ASSUME pc = "triple"
      PROVE  /\ i <= otherMatch[1] /\ j <= otherMatch[2] /\ i <= newMatch[1] /\ k <= newMatch[2]
             /\ otherMatch # <<i, j>> \/ newMatch # <<i, k>>
             /\ otherMatch = <<otherMatch[1], otherMatch[2]>> /\ newMatch = <<newMatch[1], newMatch[2]>>
  BY <1>s DEF SearchInv, TypeOK
<1>1. CASE Unchanged
  <2>1. i' = i + 1 /\ j' = j + 1 /\ pc = "loop"
    BY <1>1 DEF Unchanged, MoveTo, More
  <2> QED BY <1>0, <2>1 DEF GetsAhead
<1>2. CASE TakeNew
  <2>1. /\ i' = NextNew[1] /\ j' = j + NewChanged /\ k' = NextNew[2] /\ pc = "loop"
        /\ More /\ NewIsChanged
    BY <1>2 DEF TakeNew, MoveTo, More
  <2>2. /\ NextNew[1] \in Nat /\ NextNew[2] \in Nat /\ i <= NextNew[1] /\ k <= NextNew[2]
        /\ NewChanged = NextNew[1] - i
    BY <2>1, FoundTypes DEF NewChanged
  <2>3. NextNew[1] # i \/ NextNew[2] # k
    <3>1. NextNew = <<NextNew[1], NextNew[2]>>
      BY <2>1, FoundTypes
    <3> QED BY <2>1, <3>1 DEF NewIsChanged
  <2>4. i' >= i /\ j' >= j /\ (i' > i \/ (k' >= k /\ j' + k' > j + k))
    <3>1. i' = NextNew[1] /\ j' = j + (NextNew[1] - i) /\ k' = NextNew[2]
      BY <2>1, <2>2
    <3>2. CASE NextNew[1] = i
      <4>1. i' = i /\ j' = j /\ k' > k
        BY <1>0, <2>2, <2>3, <3>1, <3>2
      <4> QED BY <1>0, <2>2, <3>1, <4>1
    <3>3. CASE NextNew[1] > i
      BY <1>0, <2>2, <3>1, <3>3
    <3> QED BY <1>0, <2>2, <3>2, <3>3
  <2> QED BY <2>1, <2>4 DEF GetsAhead
<1>3. CASE TakeOther
  <2>1. /\ i' = NextOther[1] /\ j' = NextOther[2] /\ k' = k + OtherChanged /\ pc = "loop"
        /\ More /\ ~NewIsChanged /\ OneChanged
    BY <1>3 DEF TakeOther, MoveTo, More
  <2>2. /\ NextOther[1] \in Nat /\ NextOther[2] \in Nat /\ i <= NextOther[1] /\ j <= NextOther[2]
        /\ OtherChanged \in Int /\ OtherChanged > 0
    BY <2>1, FoundTypes, OnlyOtherIsChanged
  <2>3. i' >= i /\ j' >= j /\ k' >= k /\ j' + k' > j + k
    BY <1>0, <2>1, <2>2
  <2> QED BY <2>1, <2>3 DEF GetsAhead
<1>4. CASE Conflict
  <2>1. i' = i /\ j' = j /\ pc = "loop" /\ pc' = "triple"
    BY <1>4 DEF Conflict, Goto, More
  <2> QED BY <1>0, <2>1 DEF GetsAhead
<1>5. CASE MatchesMeet
  <2>1. /\ pc = "triple" /\ pc' = "loop" /\ newMatch[1] - otherMatch[1] = 0
        /\ i' = newMatch[1] /\ j' = otherMatch[2] /\ k' = newMatch[2]
    BY <1>5 DEF MatchesMeet, EndConflict, MoveTo, Goto, Ahead
  <2>2. i' # i \/ j' # j \/ k' # k
    BY <1>0, <1>s, <2>1
  <2>3. i' >= i /\ j' >= j /\ (i' > i \/ (k' >= k /\ j' + k' > j + k))
    <3>1. i <= newMatch[1] /\ j <= otherMatch[2] /\ k <= newMatch[2]
      BY <1>s, <2>1
    <3> QED BY <1>0, <2>1, <2>2, <3>1
  <2> QED BY <2>1, <2>3 DEF GetsAhead
<1>6. CASE NewIsAhead
  <2>0. PICK n : n = Match(old, other, otherMatch[1], otherMatch[2], Ahead)
    OBVIOUS
  <2>1. pc = "triple" /\ Ahead > 0 /\ Ahead = newMatch[1] - otherMatch[1]
        /\ (n = Ahead => EndConflict(newMatch[1], otherMatch[2] + Ahead, newMatch[2]))
        /\ (n # Ahead =>
              /\ otherMatch' = FindMatch(old, other, otherMatch[1] + n, otherMatch[2] + n)
              /\ UNCHANGED <<old, other, new, pc, i, j, k, newMatch, result>>)
    BY <1>6, <2>0 DEF NewIsAhead, Again, input, Ahead
  <2>2. n \in Nat /\ n >= 1 /\ otherMatch[1] + n \in 0..Len(old) /\ otherMatch[2] + n \in 0..Len(other)
    BY <2>0, <2>1, SearchTypes, SearchMoves
  <2>3. CASE n = Ahead
    <3>1. i' = newMatch[1] /\ j' = otherMatch[2] + Ahead /\ pc' = "loop"
      BY <2>1, <2>3 DEF EndConflict, MoveTo, Goto
    <3>2. i <= otherMatch[1] /\ j <= otherMatch[2]
      BY <1>s, <2>1
    <3>3. i' > i /\ j' >= j
      BY <1>0, <2>1, <3>1, <3>2
    <3>4. i' >= i
      BY <1>0, <3>1, <3>3
    <3> QED BY <2>1, <3>1, <3>3, <3>4 DEF GetsAhead
  <2>4. CASE n # Ahead
    <3>1. FindMatch(old, other, otherMatch[1] + n, otherMatch[2] + n)
             \in ((otherMatch[1] + n)..Len(old)) \X ((otherMatch[2] + n)..Len(other))
      BY <2>2, FindMatchMeets DEF Texts
    <3>2. otherMatch'[1] \in (otherMatch[1] + n)..Len(old)
      BY <2>1, <2>4, <3>1
    <3>3. otherMatch'[1] > otherMatch[1]
      <4>1. n \in Nat /\ n >= 1
        BY <2>2
      <4> QED BY <1>0, <3>2, <4>1
    <3>4. UNCHANGED <<i, j, pc, newMatch>>
      BY <2>1, <2>4
    <3> QED BY <1>0, <2>1, <3>3, <3>4 DEF GetsAhead
  <2> QED BY <2>3, <2>4
<1>7. CASE OtherIsAhead
  <2>0. PICK n : n = Match(old, new, newMatch[1], newMatch[2], -Ahead)
    OBVIOUS
  <2>1. pc = "triple" /\ Ahead < 0 /\ Ahead = newMatch[1] - otherMatch[1]
        /\ (n = -Ahead => EndConflict(otherMatch[1], otherMatch[2], newMatch[1] - Ahead))
        /\ (n # -Ahead =>
              /\ newMatch' = FindMatch(old, new, newMatch[1] + n, newMatch[2] + n)
              /\ UNCHANGED <<old, other, new, pc, i, j, k, otherMatch, result>>)
    BY <1>7, <2>0 DEF OtherIsAhead, Again, input, Ahead
  <2>2. n \in Nat /\ n >= 1 /\ newMatch[1] + n \in 0..Len(old) /\ newMatch[2] + n \in 0..Len(new)
    BY <2>0, <2>1, SearchTypes, SearchMoves
  <2>3. CASE n = -Ahead
    <3>1. i' = otherMatch[1] /\ j' = otherMatch[2] /\ pc' = "loop"
      BY <2>1, <2>3 DEF EndConflict, MoveTo, Goto
    <3>2. i <= newMatch[1] /\ j <= otherMatch[2]
      BY <1>s, <2>1
    <3>3. i' > i /\ j' >= j
      BY <1>0, <2>1, <3>1, <3>2
    <3>4. i' >= i
      BY <1>0, <3>1, <3>3
    <3> QED BY <2>1, <3>1, <3>3, <3>4 DEF GetsAhead
  <2>4. CASE n # -Ahead
    <3>1. FindMatch(old, new, newMatch[1] + n, newMatch[2] + n)
             \in ((newMatch[1] + n)..Len(old)) \X ((newMatch[2] + n)..Len(new))
      BY <2>2, FindMatchMeets DEF Texts
    <3>2. newMatch'[1] \in (newMatch[1] + n)..Len(old)
      BY <2>1, <2>4, <3>1
    <3>3. newMatch'[1] > newMatch[1]
      <4>1. n \in Nat /\ n >= 1
        BY <2>2
      <4> QED BY <1>0, <3>2, <4>1
    <3>4. UNCHANGED <<i, j, pc, otherMatch>>
      BY <2>1, <2>4
    <3> QED BY <1>0, <2>1, <3>3, <3>4 DEF GetsAhead
  <2> QED BY <2>3, <2>4
<1>8. CASE Tail3
  <2>1. i' = i /\ j' = j /\ pc = "loop" /\ pc' = "done"
    BY <1>8 DEF Tail3, Goto
  <2> QED BY <1>0, <2>1 DEF GetsAhead
<1> QED BY <1>1, <1>2, <1>3, <1>4, <1>5, <1>6, <1>7, <1>8 DEF Next

LEMMA InitSearch == Init => SearchInv
BY DEF Init, SearchInv

\* The merge comes to an end for any texts: every turn of the loop gets ahead in old,
\* or stays there and gets ahead in the other texts without going back in either, and
\* every turn of tripple_match that goes on gets ahead in old with one of the matches.
THEOREM MergeAlwaysAhead == Spec => AlwaysAhead
<1>1. Init => Texts /\ TypeOK /\ SearchInv
  BY InitTypes, InitSearch
<1>2. (Texts /\ TypeOK /\ SearchInv) /\ [Next]_vars => (Texts /\ TypeOK /\ SearchInv)'
  BY StepTypes, StepSearch
<1>3. (Texts /\ TypeOK /\ SearchInv) /\ [Next]_vars => [GetsAhead]_vars
  BY StepAhead
<1> QED BY <1>1, <1>2, <1>3, PTL DEF Spec, AlwaysAhead
------------------------------------------------------------------------------
(* Nothing added is lost. *)

\* The first n lines of s are lines of o, or shown by r on this side.
Shows(side, s, o, r, n) ==
  \A x \in 1..Len(s) : x <= n => s[x] \in LinesOf(o) \cup OnSide(side, r)

LEMMA MoreShown ==
  ASSUME NEW side \in Side, NEW s \in Seq(Line), NEW o, NEW r \in Seq(Item), NEW u \in Seq(Item),
         NEW n \in Int, NEW m \in Int, Shows(side, s, o, r, n),
         \A x \in 1..Len(s) : n < x /\ x <= m => s[x] \in LinesOf(o) \cup OnSide(side, u)
  PROVE  Shows(side, s, o, r \o u, m)
<1>1. OnSide(side, r) \subseteq OnSide(side, r \o u) /\ OnSide(side, u) \subseteq OnSide(side, r \o u)
  BY ShownOfBoth
<1>2. ASSUME NEW x \in 1..Len(s), x <= m
      PROVE  s[x] \in LinesOf(o) \cup OnSide(side, r \o u)
  <2>1. CASE x <= n
    BY <1>1, <2>1 DEF Shows
  <2>2. CASE ~(x <= n)
    <3>1. n < x
      BY <2>2
    <3> QED BY <1>1, <1>2, <3>1
  <2> QED BY <2>1, <2>2
<1> QED BY <1>2 DEF Shows

LEMMA AllShown ==
  ASSUME NEW side, NEW s \in Seq(Line), NEW o, NEW r, Shows(side, s, o, r, Len(s))
  PROVE  LinesOf(s) \ LinesOf(o) \subseteq OnSide(side, r)
<1>1. DOMAIN s = 1..Len(s) /\ Len(s) \in Nat
  BY LenProperties
<1>2. \A x \in 1..Len(s) : s[x] \in LinesOf(o) \cup OnSide(side, r)
  BY <1>1 DEF Shows
<1> QED BY <1>1, <1>2 DEF LinesOf

\* Lines that agree with old are old.
LEMMA AgreeIsOld ==
  ASSUME NEW o \in Seq(Line), NEW s \in Seq(Line), NEW p \in Nat, NEW q \in Nat, NEW n \in Int,
         Agree(o, s, p, q, n)
  PROVE  \A x \in 1..Len(s) : q < x /\ x <= q + n => s[x] \in LinesOf(o)
<1>1. SUFFICES ASSUME NEW x \in 1..Len(s), q < x, x <= q + n PROVE s[x] \in LinesOf(o)
  OBVIOUS
<1>2. x - q \in 1..n /\ q + (x - q) = x /\ Len(o) \in Nat /\ DOMAIN o = 1..Len(o)
  BY <1>1, LenProperties
<1>3. s[x] = o[p + (x - q)]
  BY <1>2 DEF Agree
<1>4. p + (x - q) \in 1..Len(o)
  BY <1>2 DEF Agree
<1> QED BY <1>2, <1>3, <1>4 DEF LinesOf

\* A rest that is still that of old is old.
LEMMA RestIsOld ==
  ASSUME NEW o \in Seq(Line), NEW s \in Seq(Line), NEW p \in Nat, NEW q \in Nat,
         Cut(s, q, Len(s)) = Cut(o, p, Len(o))
  PROVE  \A x \in 1..Len(s) : q < x => s[x] \in LinesOf(o)
<1>1. Len(o) \in Nat /\ Len(s) \in Nat /\ DOMAIN o = 1..Len(o)
  BY LenProperties
<1>2. Cut(o, p, Len(o)) = SubSeq(o, p + 1, Len(o))
  <2>1. Len(o) <= Len(o)
    BY <1>1
  <2> QED BY <1>1, <2>1, CutOf
<1>3. \A n \in (p + 1)..Len(o) : o[n] \in LinesOf(o)
  BY <1>1 DEF LinesOf
<1>4. Cut(o, p, Len(o)) \in Seq(LinesOf(o))
  BY <1>1, <1>2, <1>3, SubSeqProperties
<1>5. ASSUME NEW x \in 1..Len(s), q < x PROVE s[x] \in LinesOf(o)
  <2>1. x <= Len(s)
    BY <1>1
  <2>2. x - q \in 1..Len(Cut(s, q, Len(s))) /\ Cut(s, q, Len(s))[x - q] = s[x]
    <3>1. \A y \in 1..Len(s) : q < y /\ y <= Len(s) =>
            y - q \in 1..Len(Cut(s, q, Len(s))) /\ Cut(s, q, Len(s))[y - q] = s[y]
      BY <1>1, CutOf
    <3> QED BY <1>5, <2>1, <3>1
  <2> QED BY <1>4, <2>2, ElementOfSeq
<1> QED BY <1>5

\* The end of a search shows what it leaves behind of both texts.
LEMMA EndShows ==
  ASSUME NEW s \in Seq(Line), NEW t \in Seq(Line), NEW p \in Nat, NEW q \in Nat,
         NEW a \in Nat, NEW b \in Nat
  PROVE  LET u == Tagged("other", Cut(s, p, a)) \o Tagged("new", Cut(t, q, b))
         IN  /\ u \in Seq(Item)
             /\ \A x \in 1..Len(s) : p < x /\ x <= a => s[x] \in OnSide("other", u)
             /\ \A x \in 1..Len(t) : q < x /\ x <= b => t[x] \in OnSide("new", u)
<1>1. "other" \in Side /\ "new" \in Side
  BY DEF Side
<1>2. Cut(s, p, a) \in Seq(Line) /\ Cut(t, q, b) \in Seq(Line)
  BY CutOf
<1> DEFINE v == Tagged("other", Cut(s, p, a))
           w == Tagged("new", Cut(t, q, b))
<1>3. v \in Seq(Item) /\ w \in Seq(Item)
  BY <1>1, <1>2, TaggedOf
<1>4. /\ \A x \in 1..Len(s) : p < x /\ x <= a => s[x] \in OnSide("other", v)
      /\ \A x \in 1..Len(t) : q < x /\ x <= b => t[x] \in OnSide("new", w)
  BY <1>1, CutShown
<1> HIDE DEF v, w
<1>5. OnSide("other", v) \subseteq OnSide("other", v \o w) /\ OnSide("new", w) \subseteq OnSide("new", v \o w)
  BY <1>1, <1>3, ShownOfBoth
<1>6. v \o w \in Seq(Item)
  BY <1>3, ConcatProperties
<1>7. /\ v \o w \in Seq(Item)
      /\ \A x \in 1..Len(s) : p < x /\ x <= a => s[x] \in OnSide("other", v \o w)
      /\ \A x \in 1..Len(t) : q < x /\ x <= b => t[x] \in OnSide("new", v \o w)
  BY <1>4, <1>5, <1>6
<1> QED BY <1>7 DEF v, w
LEMMA CoverIsShown ==
  CoverInv <=> Shows("new", new, old, result, k) /\ Shows("other", other, old, result, j)
BY DEF CoverInv, Covered, Shows

\* The rests that the tail leaves out are old ones, or written by the other author too.
LEMMA TailShows ==
  ASSUME Texts, TypeOK
  PROVE  /\ \A x \in 1..Len(new) : k < x => new[x] \in LinesOf(old) \cup OnSide("new", TailLines)
         /\ other # new =>
              \A x \in 1..Len(other) :
                j < x => other[x] \in LinesOf(old) \cup OnSide("other", TailLines)
<1>0. /\ Len(old) \in Nat /\ Len(other) \in Nat /\ Len(new) \in Nat
      /\ i \in Nat /\ j \in Nat /\ k \in Nat
      /\ \A x \in 1..Len(new) : x <= Len(new)
      /\ \A x \in 1..Len(other) : x <= Len(other)
  BY Lengths
<1>s. "both" \in Side /\ "other" \in Side /\ "new" \in Side
  BY DEF Side
<1>1. /\ \A x \in 1..Len(new) : k < x => new[x] \in OnSide("new", Tagged("both", RestOfNew))
      /\ \A x \in 1..Len(other) : j < x => other[x] \in OnSide("other", Tagged("both", RestOfOther))
  <2>1. /\ \A x \in 1..Len(new) : k < x /\ x <= Len(new) =>
             new[x] \in OnSide("new", Tagged("both", RestOfNew))
        /\ \A x \in 1..Len(other) : j < x /\ x <= Len(other) =>
             other[x] \in OnSide("other", Tagged("both", RestOfOther))
    BY <1>0, <1>s, CutShown DEF Texts, RestOfNew, RestOfOther
  <2> QED BY <1>0, <2>1
<1>2. CASE i = Len(old) /\ j = Len(other)
  <2>1. TailLines = Tagged("both", RestOfNew)
    BY <1>2 DEF TailLines
  <2> QED BY <1>0, <1>1, <1>2, <2>1
<1>3. CASE ~(i = Len(old) /\ j = Len(other)) /\ i = Len(old) /\ k = Len(new)
  <2>1. TailLines = Tagged("both", RestOfOther)
    BY <1>3 DEF TailLines
  <2> QED BY <1>0, <1>1, <1>3, <2>1
<1>4. CASE ~(i = Len(old) /\ j = Len(other)) /\ k = Len(new) /\ Untouched(RestOfOther)
  <2>1. \A x \in 1..Len(other) : j < x => other[x] \in LinesOf(old)
    BY <1>0, <1>4, RestIsOld DEF Untouched, RestOfOther, RestOfOld, Texts
  <2> QED BY <1>0, <1>4, <2>1
<1>5. CASE ~(i = Len(old) /\ j = Len(other)) /\ j = Len(other) /\ Untouched(RestOfNew)
  <2>1. \A x \in 1..Len(new) : k < x => new[x] \in LinesOf(old)
    BY <1>0, <1>5, RestIsOld DEF Untouched, RestOfNew, RestOfOld, Texts
  <2> QED BY <1>0, <1>5, <2>1
<1> DEFINE Other == /\ ~(i = Len(old) /\ j = Len(other)) /\ ~(i = Len(old) /\ k = Len(new))
                    /\ ~(k = Len(new) /\ Untouched(RestOfOther))
                    /\ ~(j = Len(other) /\ Untouched(RestOfNew))
<1>6. CASE Other /\ new = other
  <2>1. TailLines = Tagged("both", RestOfNew)
    BY <1>6 DEF TailLines
  <2> QED BY <1>1, <1>6, <2>1
<1>7. CASE Other /\ new # other
  <2>1. TailLines = Tagged("other", RestOfOther) \o Tagged("new", RestOfNew)
    BY <1>7 DEF TailLines
  <2>2. /\ \A x \in 1..Len(other) : j < x /\ x <= Len(other) => other[x] \in OnSide("other", TailLines)
        /\ \A x \in 1..Len(new) : k < x /\ x <= Len(new) => new[x] \in OnSide("new", TailLines)
    BY <1>0, <2>1, EndShows DEF Texts, RestOfOther, RestOfNew
  <2> QED BY <1>0, <2>2
<1> QED BY <1>2, <1>3, <1>4, <1>5, <1>6, <1>7

\* Each step shows what it leaves behind, unless it is old.
LEMMA StepCover == Texts /\ TypeOK /\ CoverInv /\ [Next]_vars => CoverInv'
<1> SUFFICES ASSUME Texts, TypeOK, CoverInv, [Next]_vars PROVE CoverInv'
  OBVIOUS
<1>0. /\ Len(old) \in Nat /\ Len(other) \in Nat /\ Len(new) \in Nat
      /\ i \in Nat /\ j \in Nat /\ k \in Nat /\ i \in Int /\ j \in Int /\ k \in Int
      /\ result \in Seq(Item)
      /\ "both" \in Side /\ "other" \in Side /\ "new" \in Side
  BY Lengths DEF Side
<1>c. Shows("new", new, old, result, k) /\ Shows("other", other, old, result, j)
  BY CoverIsShown
\* It is enough to look at what a step writes.
<1>w. ASSUME NEW u \in Seq(Item), NEW b \in Int, NEW c \in Int,
             UNCHANGED <<old, other, new>>, result' = result \o u, j' = b, k' = c,
             \A x \in 1..Len(new) : k < x /\ x <= c => new[x] \in LinesOf(old) \cup OnSide("new", u),
             \A x \in 1..Len(other) : j < x /\ x <= b => other[x] \in LinesOf(old) \cup OnSide("other", u)
      PROVE  CoverInv'
  <2>1. Shows("new", new, old, result \o u, c) /\ Shows("other", other, old, result \o u, b)
    BY <1>0, <1>c, <1>w, MoreShown DEF Texts
  <2>2. /\ \A x \in 1..Len(new) : x <= k' => new[x] \in LinesOf(old) \cup OnSide("new", result')
        /\ \A x \in 1..Len(other) : x <= j' => other[x] \in LinesOf(old) \cup OnSide("other", result')
    BY <1>w, <2>1 DEF Shows
  <2> QED BY <1>w, <2>2 DEF CoverInv, Covered
<1>e. ASSUME NEW a, NEW b \in Nat, NEW c \in Nat, EndConflict(a, b, c)
      PROVE  CoverInv'
  <2> DEFINE u == Tagged("other", Cut(other, j, b)) \o Tagged("new", Cut(new, k, c))
  <2>1. UNCHANGED <<old, other, new>> /\ result' = result \o u /\ j' = b /\ k' = c
    BY <1>e DEF EndConflict, Emit, MoveTo, input
  <2>2. /\ u \in Seq(Item)
        /\ \A x \in 1..Len(other) : j < x /\ x <= b => other[x] \in OnSide("other", u)
        /\ \A x \in 1..Len(new) : k < x /\ x <= c => new[x] \in OnSide("new", u)
    BY <1>0, EndShows DEF Texts
  <2> HIDE DEF u
  <2>3. b \in Int /\ c \in Int
    OBVIOUS
  <2> QED BY <1>w, <2>1, <2>2, <2>3
<1>u. ASSUME UNCHANGED <<old, other, new, j, k, result>> PROVE CoverInv'
  BY <1>u DEF CoverInv, Covered
<1>1. CASE Unchanged
  <2> DEFINE u == Tagged("both", <<old[i + 1]>>)
  <2>1. UNCHANGED <<old, other, new>> /\ result' = result \o u /\ j' = j + 1 /\ k' = k + 1 /\ More
        /\ AllEqual
    BY <1>1 DEF Unchanged, Emit, MoveTo, input
  <2>2. i + 1 \in DOMAIN old
    BY <1>0, <2>1, LenProperties DEF More, Texts
  <2>3. new[k + 1] \in LinesOf(old) /\ other[j + 1] \in LinesOf(old)
    BY <2>1, <2>2 DEF AllEqual, LinesOf
  <2>4. u \in Seq(Item)
    BY <2>1, Writable
  <2>5. /\ \A x \in 1..Len(new) : k < x /\ x <= k + 1 => x = k + 1
        /\ \A x \in 1..Len(other) : j < x /\ x <= j + 1 => x = j + 1
        /\ j + 1 \in Int /\ k + 1 \in Int
    BY <1>0
  <2> HIDE DEF u
  <2> QED BY <1>w, <2>1, <2>3, <2>4, <2>5
<1>2. CASE TakeNew
  <2> DEFINE u == Tagged("both", Cut(new, k, NextNew[2]))
  <2>1. UNCHANGED <<old, other, new>> /\ result' = result \o u
        /\ j' = j + NewChanged /\ k' = NextNew[2] /\ More /\ NewIsChanged /\ OneChanged
    BY <1>2 DEF TakeNew, Emit, MoveTo, input
  <2>2. NextNew[2] \in Nat /\ NewChanged \in Nat /\ Agree(old, other, i, j, NewChanged)
    BY <2>1, FoundTypes, OnlyNewIsChanged
  <2>3. \A x \in 1..Len(other) : j < x /\ x <= j + NewChanged => other[x] \in LinesOf(old)
    BY <1>0, <2>2, AgreeIsOld DEF Texts
  <2>4. \A x \in 1..Len(new) : k < x /\ x <= NextNew[2] => new[x] \in OnSide("new", u)
    BY <1>0, <2>2, CutShown DEF Texts
  <2>5. u \in Seq(Item)
    BY <1>0, <2>2, Writable
  <2>6. j + NewChanged \in Int /\ NextNew[2] \in Int
    BY <1>0, <2>2
  <2> HIDE DEF u
  <2> QED BY <1>w, <2>1, <2>3, <2>4, <2>5, <2>6
<1>3. CASE TakeOther
  <2> DEFINE u == Tagged("both", Cut(other, j, NextOther[2]))
  <2>1. UNCHANGED <<old, other, new>> /\ result' = result \o u
        /\ j' = NextOther[2] /\ k' = k + OtherChanged /\ More /\ ~NewIsChanged /\ OneChanged
    BY <1>3 DEF TakeOther, Emit, MoveTo, input
  <2>2. NextOther[2] \in Nat /\ OtherChanged \in Int /\ Agree(old, new, i, k, OtherChanged)
    BY <2>1, FoundTypes, OnlyOtherIsChanged
  <2>3. \A x \in 1..Len(new) : k < x /\ x <= k + OtherChanged => new[x] \in LinesOf(old)
    BY <1>0, <2>2, AgreeIsOld DEF Texts
  <2>4. \A x \in 1..Len(other) : j < x /\ x <= NextOther[2] => other[x] \in OnSide("other", u)
    BY <1>0, <2>2, CutShown DEF Texts
  <2>5. u \in Seq(Item)
    BY <1>0, <2>2, Writable
  <2>6. k + OtherChanged \in Int /\ NextOther[2] \in Int
    BY <1>0, <2>2
  <2> HIDE DEF u
  <2> QED BY <1>w, <2>1, <2>3, <2>4, <2>5, <2>6
<1>4. CASE Conflict
  BY <1>4, <1>u DEF Conflict, input
<1>5. CASE MatchesMeet
  <2>1. EndConflict(newMatch[1], otherMatch[2], newMatch[2])
    BY <1>5 DEF MatchesMeet
  <2>2. otherMatch[2] \in Nat /\ newMatch[2] \in Nat
    BY Lengths
  <2> QED BY <1>e, <2>1, <2>2
<1>6. CASE NewIsAhead
  <2>1. PICK n \in Nat :
          /\ n = Match(old, other, otherMatch[1], otherMatch[2], Ahead)
          /\ otherMatch[2] + n \in 0..Len(other)
    BY <1>6, SearchTypes DEF NewIsAhead
  <2>2. CASE n = Ahead
    <3>1. EndConflict(newMatch[1], otherMatch[2] + Ahead, newMatch[2])
      BY <1>6, <2>1, <2>2 DEF NewIsAhead
    <3>2. otherMatch[2] + Ahead \in Nat /\ newMatch[2] \in Nat
      BY <2>1, <2>2, Lengths
    <3> QED BY <1>e, <3>1, <3>2
  <2>3. CASE n # Ahead
    BY <1>6, <1>u, <2>1, <2>3 DEF NewIsAhead, input
  <2> QED BY <2>2, <2>3
<1>7. CASE OtherIsAhead
  <2>1. PICK n \in Nat : n = Match(old, new, newMatch[1], newMatch[2], -Ahead)
    BY <1>7, SearchTypes DEF OtherIsAhead
  <2>2. CASE n = -Ahead
    <3>1. EndConflict(otherMatch[1], otherMatch[2], newMatch[1] - Ahead)
      BY <1>7, <2>1, <2>2 DEF OtherIsAhead
    <3>2. otherMatch[2] \in Nat /\ newMatch[1] - Ahead \in Nat
      BY Lengths DEF Ahead
    <3> QED BY <1>e, <3>1, <3>2
  <2>3. CASE n # -Ahead
    BY <1>7, <1>u, <2>1, <2>3 DEF OtherIsAhead, input
  <2> QED BY <2>2, <2>3
<1>8. CASE Tail3
  <2>1. UNCHANGED <<old, other, new, j, k>> /\ result' = result \o TailLines
    BY <1>8 DEF Tail3, Emit, input
  <2>2. TailLines \in Seq(Item)
    BY TailTypes
  <2>3. /\ \A x \in 1..Len(new) : ~(k < x /\ x <= k)
        /\ \A x \in 1..Len(other) : ~(j < x /\ x <= j)
    BY <1>0
  <2> QED BY <1>0, <1>w, <2>1, <2>2, <2>3
<1>9. CASE UNCHANGED vars
  BY <1>9, <1>u DEF vars, input
<1> QED BY <1>1, <1>2, <1>3, <1>4, <1>5, <1>6, <1>7, <1>8, <1>9 DEF Next
\* Where the merge is done only its tail came last.
LEMMA OnlyTailEnds ==
  ASSUME Next, pc' = "done"
  PROVE  Tail3
BY DEF Next, Unchanged, TakeNew, TakeOther, Conflict, MatchesMeet, NewIsAhead, OtherIsAhead,
       EndConflict, Goto, More

LEMMA StepLost ==
  Texts /\ TypeOK /\ CoverInv /\ NothingAddedIsLost /\ [Next]_vars => NothingAddedIsLost'
<1> SUFFICES ASSUME Texts, TypeOK, CoverInv, NothingAddedIsLost, [Next]_vars, pc' = "done"
             PROVE  NothingAddedIsLost'
  BY DEF NothingAddedIsLost
<1>1. CASE UNCHANGED vars
  BY <1>1 DEF vars, input, NothingAddedIsLost
<1>2. CASE Tail3
  <2>1. UNCHANGED <<old, other, new, j, k>> /\ result' = result \o TailLines
    BY <1>2 DEF Tail3, Emit, input
  <2>2. /\ TailLines \in Seq(Item) /\ result \in Seq(Item)
        /\ j \in Int /\ k \in Int /\ Len(new) \in Int /\ Len(other) \in Int
        /\ "other" \in Side /\ "new" \in Side
    BY TailTypes, Lengths DEF Side
  <2>3. LinesOf(new) \ LinesOf(old) \subseteq OnSide("new", result \o TailLines)
    <3>1. Shows("new", new, old, result, k)
      BY CoverIsShown
    <3>2. \A x \in 1..Len(new) : k < x /\ x <= Len(new) =>
            new[x] \in LinesOf(old) \cup OnSide("new", TailLines)
      BY TailShows
    <3>3. Shows("new", new, old, result \o TailLines, Len(new))
      BY <2>2, <3>1, <3>2, MoreShown DEF Texts
    <3> QED BY <3>3, AllShown DEF Texts
  <2>4. ASSUME other # new
        PROVE  LinesOf(other) \ LinesOf(old) \subseteq OnSide("other", result \o TailLines)
    <3>1. Shows("other", other, old, result, j)
      BY CoverIsShown
    <3>2. \A x \in 1..Len(other) : j < x /\ x <= Len(other) =>
            other[x] \in LinesOf(old) \cup OnSide("other", TailLines)
      BY <2>4, TailShows
    <3>3. Shows("other", other, old, result \o TailLines, Len(other))
      BY <2>2, <3>1, <3>2, MoreShown DEF Texts
    <3> QED BY <3>3, AllShown DEF Texts
  <2> QED BY <2>1, <2>3, <2>4 DEF NothingAddedIsLost
<1> QED BY <1>1, <1>2, OnlyTailEnds

LEMMA InitCover == Init => CoverInv /\ NothingAddedIsLost
<1> SUFFICES ASSUME Init PROVE CoverInv /\ NothingAddedIsLost
  OBVIOUS
<1>1. Texts
  BY InitTypes
<1>2. Len(other) \in Nat /\ Len(new) \in Nat /\ j = 0 /\ k = 0 /\ pc = "loop"
  BY <1>1, LenProperties DEF Texts, Init
<1>3. (\A x \in 1..Len(new) : ~(x <= k)) /\ (\A x \in 1..Len(other) : ~(x <= j))
  BY <1>2
<1> QED BY <1>2, <1>3 DEF CoverInv, Covered, NothingAddedIsLost

\* For any texts, a line that one of the authors added is in the result, on that
\* author's side of a conflict if it is in one.
THEOREM MergeLosesNothing == Spec => []NothingAddedIsLost
<1> DEFINE Inv == Texts /\ TypeOK /\ CoverInv /\ NothingAddedIsLost
<1>1. Init => Inv
  BY InitTypes, InitCover
<1>2. Inv /\ [Next]_vars => Inv'
  BY StepTypes, StepCover, StepLost
<1> QED BY <1>1, <1>2, PTL DEF Spec
------------------------------------------------------------------------------
(* Where the other author changed nothing, the result is the new text. *)

\* No item is on the side of the other author.
NoOthers(r) == \A n \in DOMAIN r : r[n].side # "other"

LEMMA MoreWritten ==
  ASSUME NEW r \in Seq(Item), NEW u \in Seq(Item), NoOthers(r), NoOthers(u)
  PROVE  NoOthers(r \o u) /\ Written(r \o u) = Written(r) \o Written(u)
<1>1. ASSUME NEW n \in DOMAIN (r \o u) PROVE (r \o u)[n].side # "other"
  <2>1. \/ n \in DOMAIN r /\ (r \o u)[n] = r[n]
        \/ \E m \in DOMAIN u : (r \o u)[n] = u[m]
    BY ItemsOfBoth
  <2> QED BY <2>1 DEF NoOthers
<1> QED BY <1>1, WrittenOfBoth DEF NoOthers

LEMMA TaggedWritten ==
  ASSUME NEW tag \in {"both", "new"}, NEW s \in Seq(Line)
  PROVE  NoOthers(Tagged(tag, s)) /\ Written(Tagged(tag, s)) = s /\ Tagged(tag, s) \in Seq(Item)
<1>1. tag \in Side /\ tag # "other"
  BY DEF Side
<1> QED BY <1>1, TaggedOf DEF NoOthers

\* The next part of new is written behind what has been written of it.
LEMMA CutWritten ==
  ASSUME NEW s \in Seq(Line), NEW n \in Nat, NEW m \in Nat, n <= m, m <= Len(s)
  PROVE  SubSeq(s, 1, n) \o Cut(s, n, m) = SubSeq(s, 1, m)
<1>1. Len(s) \in Nat
  BY LenProperties
<1>2. Cut(s, n, m) = SubSeq(s, n + 1, m)
  BY CutOf
<1>3. 1 \in 1..Len(s) + 1 /\ n \in (1 - 1)..Len(s) /\ m \in n..Len(s)
  BY <1>1
<1> QED BY <1>2, <1>3, ConcatAdjacentSubSeq

\* Nothing is on the other side of a conflict if other does not move.
LEMMA EmptyOther ==
  ASSUME NEW s \in Seq(Line), NEW n \in Nat, NEW v \in Seq(Item)
  PROVE  Tagged("other", Cut(s, n, n)) \o v = v
<1>1. Cut(s, n, n) = <<>> /\ <<>> \in Seq(Line)
  BY CutOf, EmptySeq
<1>2. "other" \in Side
  BY DEF Side
<1>3. Tagged("other", <<>>) \in Seq(Item) /\ Len(Tagged("other", <<>>)) = 0
  BY <1>1, <1>2, TaggedOf, EmptySeq
<1>4. Tagged("other", <<>>) = <<>>
  BY <1>3, EmptySeq
<1> QED BY <1>1, <1>4, ConcatEmptySeq
\* Where other is old and the texts do not agree, it is new that has changed.
LEMMA NewHasChanged ==
  ASSUME Texts, TypeOK, other = old, i = j, More, ~AllEqual
  PROVE  NewIsChanged
BY OnlyOtherIsChanged DEF AllEqual

\* A conflict of an unchanged text is an insertion: new meets old again right here.
LEMMA ConflictIsInsertion ==
  ASSUME Texts, TypeOK, other = old, i = j, More, ~AllEqual, ~OneChanged
  PROVE  NextNew[1] = i /\ NextOther = <<i, i>>
<1>1. NewIsChanged /\ Match(old, old, i, i, NewChanged) # NewChanged
  BY NewHasChanged DEF OneChanged
<1>2. /\ i \in Nat /\ k \in Nat /\ Len(old) \in Nat /\ Len(new) \in Nat
      /\ i \in 0..Len(old) /\ i < Len(old)
      /\ NewChanged \in Nat /\ NewChanged = NextNew[1] - i
      /\ NextNew[1] \in Nat /\ i <= NextNew[1] /\ NextNew[1] <= Len(old)
      /\ NextNew \in (0..Len(old)) \X (0..Len(new))
  BY Lengths, Found, FoundTypes DEF NewChanged
<1>3. ASSUME NEW n \in Nat, n <= Len(old) - i PROVE Agree(old, old, i, i, n)
  BY <1>3 DEF Agree
<1>4. NextNew[1] = i
  <2> SUFFICES ASSUME NextNew[1] # i PROVE FALSE
    OBVIOUS
  <2>1. NewChanged > 0 /\ NewChanged <= Len(old) - i /\ NewChanged \in Int
    BY <1>2
  <2>2. Agree(old, old, i, i, NewChanged)
    BY <1>2, <1>3, <2>1
  <2>3. PICK n : n = Match(old, old, i, i, NewChanged)
    OBVIOUS
  <2>4. n \in Nat /\ n <= NewChanged /\ NewChanged <= n
    <3>1. NewChanged > 0 => NewChanged <= NewChanged
      BY <1>2
    <3> QED BY <1>2, <2>1, <2>2, <2>3, <3>1, MatchCounts DEF Texts
  <2>5. n = NewChanged
    BY <1>2, <2>4
  <2> QED BY <1>1, <2>3, <2>5
<1>5. Agree(old, new, i, NextNew[2], MinCount)
  <2>1. Meets(old, new, NextNew)
    BY Found
  <2>2. NextNew[1] # Len(old)
    BY <1>2, <1>4
  <2> QED BY <1>2, <1>4, <2>1, <2>2, MeetsIsAgree DEF Texts
<1>6. Agree(old, old, i, i, MinCount)
  <2>1. MinCount \in Nat /\ MinCount <= Len(old) - i
    BY <1>5 DEF Agree, MinCount
  <2> QED BY <1>3, <2>1
<1> QED BY <1>4, <1>6, Found

LEMMA StepSame == Texts /\ TypeOK /\ SearchInv /\ SameInv /\ [Next]_vars => SameInv'
<1> SUFFICES ASSUME Texts, TypeOK, SearchInv, SameInv, [Next]_vars, other' = old', pc' # "done"
             PROVE  SameInv'
  BY DEF SameInv
<1>0. /\ Len(old) \in Nat /\ Len(other) \in Nat /\ Len(new) \in Nat
      /\ i \in Nat /\ j \in Nat /\ k \in Nat
      /\ result \in Seq(Item)
  BY Lengths
<1>1. CASE UNCHANGED vars
  BY <1>1 DEF vars, input, SameInv
<1>2. CASE Next
  <2>1. UNCHANGED <<old, other, new>> /\ pc # "done" /\ ~Tail3
    BY <1>2 DEF Next, Unchanged, TakeNew, TakeOther, Conflict, MatchesMeet, NewIsAhead,
                OtherIsAhead, Tail3, EndConflict, Goto, More, input
  <2>2. /\ other = old /\ i = j /\ k <= Len(new)
        /\ Written(result) = SubSeq(new, 1, k) /\ NoOthers(result)
        /\ pc = "triple" => otherMatch = <<i, i>> /\ newMatch[1] = i
    BY <2>1 DEF SameInv, NoOthers
  \* It is enough to look at what a step writes.
  <2>w. ASSUME NEW u \in Seq(Item), NEW c \in Nat, k <= c, c <= Len(new), i' = j', k' = c,
               pc' = "loop", result' = result \o u, NoOthers(u), Written(u) = Cut(new, k, c)
        PROVE  SameInv'
    <3>1. NoOthers(result \o u) /\ Written(result \o u) = SubSeq(new, 1, k) \o Cut(new, k, c)
      BY <1>0, <2>2, <2>w, MoreWritten
    <3>2. SubSeq(new, 1, k) \o Cut(new, k, c) = SubSeq(new, 1, c)
      BY <1>0, <2>w, CutWritten DEF Texts
    <3> QED BY <2>1, <2>w, <3>1, <3>2 DEF SameInv, NoOthers, Written
  <2>3. CASE Unchanged
    <3> DEFINE u == Tagged("both", <<old[i + 1]>>)
    <3>1. i' = i + 1 /\ j' = j + 1 /\ k' = k + 1 /\ pc' = "loop" /\ result' = result \o u
          /\ i < Len(old) /\ k < Len(new) /\ old[i + 1] = new[k + 1]
      BY <2>3 DEF Unchanged, MoveTo, Emit, More, AllEqual
    <3>2. <<old[i + 1]>> \in Seq(Line)
      <4>1. i + 1 \in 1..Len(old)
        BY <1>0, <3>1
      <4>2. old[i + 1] \in Line
        BY <4>1, ElementOfSeq DEF Texts
      <4> QED BY <4>2
    <3>3. u \in Seq(Item) /\ NoOthers(u) /\ Written(u) = <<old[i + 1]>>
      BY <3>2, TaggedWritten
    <3>4. Cut(new, k, k + 1) = <<new[k + 1]>>
      <4>1. Cut(new, k, k + 1) = SubSeq(new, k + 1, k + 1)
        <5>1. k \in Nat /\ k + 1 \in Nat /\ k + 1 <= Len(new)
          BY <1>0, <3>1
        <5> QED BY <5>1, CutOf DEF Texts
      <4>2. k + 1 \in 1..Len(new) /\ k + 1 \in (k + 1)..Len(new) /\ k + 1 \in Int /\ k + 1 + 1 \in Int
        BY <1>0, <3>1
      <4>3. SubSeq(new, k + 1, k + 1) = <<new[k + 1]>> \o SubSeq(new, k + 1 + 1, k + 1)
        BY <4>2, SubSeqRecursiveFirst DEF Texts
      <4>4. SubSeq(new, k + 1 + 1, k + 1) = <<>>
        BY <1>0, <4>2, SubSeqEmpty
      <4>5. <<new[k + 1]>> \in Seq(Line)
        BY <3>1, <3>2
      <4> QED BY <4>1, <4>3, <4>4, <4>5, ConcatEmptySeq
    <3> HIDE DEF u
    <3>5. k + 1 \in Nat /\ k <= k + 1 /\ k + 1 <= Len(new) /\ i' = j'
      BY <1>0, <2>2, <3>1
    <3> QED BY <2>w, <3>1, <3>3, <3>4, <3>5
  <2>4. CASE TakeNew
    <3> DEFINE u == Tagged("both", Cut(new, k, NextNew[2]))
    <3>1. i' = NextNew[1] /\ j' = j + NewChanged /\ k' = NextNew[2] /\ pc' = "loop"
          /\ result' = result \o u /\ More
      BY <2>4 DEF TakeNew, MoveTo, Emit, More
    <3>2. /\ NextNew[1] \in Nat /\ NextNew[2] \in Nat /\ k <= NextNew[2] /\ NextNew[2] <= Len(new)
          /\ NewChanged = NextNew[1] - i
      BY <3>1, FoundTypes DEF NewChanged
    <3>3. i' = j'
      BY <1>0, <2>2, <3>1, <3>2
    <3>4. Cut(new, k, NextNew[2]) \in Seq(Line)
      BY <1>0, <3>2, CutOf DEF Texts
    <3>5. u \in Seq(Item) /\ NoOthers(u) /\ Written(u) = Cut(new, k, NextNew[2])
      BY <3>4, TaggedWritten
    <3> HIDE DEF u
    <3> QED BY <2>w, <3>1, <3>2, <3>3, <3>5
  <2>5. CASE TakeOther
    BY <2>2, <2>5, NewHasChanged DEF TakeOther
  <2>6. CASE Conflict
    <3>1. /\ UNCHANGED <<i, j, k, result>> /\ otherMatch' = NextOther /\ newMatch' = NextNew
          /\ More /\ ~AllEqual /\ ~OneChanged
      BY <2>6 DEF Conflict
    <3>2. NextNew[1] = i /\ NextOther = <<i, i>>
      BY <2>2, <3>1, ConflictIsInsertion
    <3> QED BY <2>1, <2>2, <3>1, <3>2 DEF SameInv, NoOthers, Written
  <2>7. CASE MatchesMeet
    <3> DEFINE v == Tagged("new", Cut(new, k, newMatch[2]))
    <3>1. /\ pc = "triple" /\ pc' = "loop"
          /\ i' = newMatch[1] /\ j' = otherMatch[2] /\ k' = newMatch[2]
          /\ result' = result \o (Tagged("other", Cut(other, j, otherMatch[2])) \o v)
      BY <2>7 DEF MatchesMeet, EndConflict, MoveTo, Emit, Goto
    <3>2. newMatch[1] = i /\ otherMatch[2] = j /\ i' = j'
      BY <2>2, <3>1
    <3>3. newMatch[2] \in Nat /\ newMatch[2] <= Len(new) /\ k <= newMatch[2]
      BY <3>1, Lengths DEF SearchInv
    <3>4. Cut(new, k, newMatch[2]) \in Seq(Line)
      BY <1>0, <3>3, CutOf DEF Texts
    <3>5. v \in Seq(Item) /\ NoOthers(v) /\ Written(v) = Cut(new, k, newMatch[2])
      BY <3>4, TaggedWritten
    <3> HIDE DEF v
    <3>6. result' = result \o v
      BY <1>0, <3>1, <3>2, <3>5, EmptyOther DEF Texts
    <3> QED BY <2>w, <3>1, <3>2, <3>3, <3>5, <3>6
  <2>8. ~NewIsAhead /\ ~OtherIsAhead
    <3>1. pc = "triple" => Ahead = 0
      BY <1>0, <2>2 DEF Ahead
    <3> QED BY <3>1 DEF NewIsAhead, OtherIsAhead
  <2> QED BY <1>2, <2>1, <2>3, <2>4, <2>5, <2>6, <2>7, <2>8 DEF Next
<1> QED BY <1>1, <1>2
\* The tail writes the rest of new if other is old.
LEMMA TailOfSame ==
  ASSUME Texts, TypeOK, other = old, i = j, k <= Len(new), pc = "loop", ~More
  PROVE  NoOthers(TailLines) /\ Written(TailLines) = Cut(new, k, Len(new))
<1>0. /\ Len(old) \in Nat /\ Len(new) \in Nat /\ i \in Nat /\ k \in Nat /\ i <= Len(old)
  BY Lengths
<1>1. RestOfNew = Cut(new, k, Len(new)) /\ RestOfNew \in Seq(Line)
  BY <1>0, CutOf DEF RestOfNew, Texts
<1>2. NoOthers(Tagged("both", RestOfNew)) /\ Written(Tagged("both", RestOfNew)) = RestOfNew
  BY <1>1, TaggedWritten
<1>3. Untouched(RestOfOther)
  BY DEF Untouched, RestOfOther, RestOfOld
<1>4. CASE i = Len(old)
  BY <1>1, <1>2, <1>4 DEF TailLines
<1>5. CASE i # Len(old)
  <2>1. k = Len(new)
    BY <1>0, <1>5 DEF More
  <2>2. TailLines = <<>>
    BY <1>3, <1>5, <2>1 DEF TailLines
  <2>3. Cut(new, k, Len(new)) = <<>>
    BY <1>0, <2>1, CutOf DEF Texts
  <2>4. <<>> \in Seq(Line) /\ <<>> \in Seq(Item) /\ Len(<<>>) = 0 /\ DOMAIN <<>> = {}
    BY EmptySeq
  <2>5. NoOthers(<<>>) /\ Written(<<>>) = <<>>
    BY <2>4 DEF NoOthers, Written
  <2> QED BY <2>2, <2>3, <2>5
<1> QED BY <1>4, <1>5

LEMMA StepOnlyNew ==
  Texts /\ TypeOK /\ SameInv /\ OnlyNewChanged /\ [Next]_vars => OnlyNewChanged'
<1> SUFFICES ASSUME Texts, TypeOK, SameInv, OnlyNewChanged, [Next]_vars,
                    pc' = "done", other' = old'
             PROVE  OnlyNewChanged'
  BY DEF OnlyNewChanged
<1>1. CASE UNCHANGED vars
  BY <1>1 DEF vars, input, OnlyNewChanged
<1>2. CASE Tail3
  <2>1. UNCHANGED <<old, other, new>> /\ result' = result \o TailLines /\ pc = "loop" /\ ~More
    BY <1>2 DEF Tail3, Emit, input
  <2>2. /\ other = old /\ i = j /\ k <= Len(new)
        /\ Written(result) = SubSeq(new, 1, k) /\ NoOthers(result)
    BY <2>1 DEF SameInv, NoOthers
  <2>3. /\ TailLines \in Seq(Item) /\ result \in Seq(Item)
        /\ k \in Nat /\ Len(new) \in Nat /\ Len(new) <= Len(new)
    BY TailTypes, Lengths
  <2>4. NoOthers(TailLines) /\ Written(TailLines) = Cut(new, k, Len(new))
    BY <2>1, <2>2, TailOfSame
  <2>5. NoOthers(result \o TailLines)
        /\ Written(result \o TailLines) = SubSeq(new, 1, k) \o Cut(new, k, Len(new))
    BY <2>2, <2>3, <2>4, MoreWritten
  <2>6. SubSeq(new, 1, k) \o Cut(new, k, Len(new)) = new
    BY <2>2, <2>3, CutWritten, SubSeqFull DEF Texts
  <2> QED BY <2>1, <2>5, <2>6 DEF OnlyNewChanged, NoOthers, Written
<1> QED BY <1>1, <1>2, OnlyTailEnds

LEMMA InitSame == Init => SameInv /\ OnlyNewChanged
<1> SUFFICES ASSUME Init PROVE SameInv /\ OnlyNewChanged
  OBVIOUS
<1>1. i = 0 /\ j = 0 /\ k = 0 /\ pc = "loop" /\ result = <<>> /\ Texts
  BY InitTypes DEF Init
<1>2. Len(new) \in Nat
  BY <1>1, LenProperties DEF Texts
<1>3. Written(<<>>) = <<>> /\ SubSeq(new, 1, 0) = <<>> /\ DOMAIN <<>> = {}
  BY SubSeqEmpty DEF Written
<1>4. Written(result) = SubSeq(new, 1, k) /\ \A n \in DOMAIN result : result[n].side # "other"
  BY <1>1, <1>3
<1>5. i = j /\ k <= Len(new)
  BY <1>1, <1>2
<1> QED BY <1>1, <1>4, <1>5 DEF SameInv, OnlyNewChanged

\* If the other author changed nothing, the result is the new text for any texts, and
\* nothing is on the other side of a conflict.
THEOREM MergeKeepsNew == Spec => []OnlyNewChanged
<1> DEFINE Inv == Texts /\ TypeOK /\ SearchInv /\ SameInv /\ OnlyNewChanged
<1>1. Init => Inv
  BY InitTypes, InitSearch, InitSame
<1>2. Inv /\ [Next]_vars => Inv'
  BY StepTypes, StepSearch, StepSame, StepOnlyNew
<1> QED BY <1>1, <1>2, PTL DEF Spec
\* What the three proofs rest on, as one inductive invariant.
THEOREM MergeInvariant == Spec => []MergeInv
<1>1. Init => Texts /\ TypeOK /\ MergeInv
  BY InitTypes, InitSearch, InitCover, InitSame DEF MergeInv
<1>2. (Texts /\ TypeOK /\ MergeInv) /\ [Next]_vars => (Texts /\ TypeOK /\ MergeInv)'
  BY StepTypes, StepSearch, StepCover, StepSame DEF MergeInv
<1> QED BY <1>1, <1>2, PTL DEF Spec
=============================================================================
