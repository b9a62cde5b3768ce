--------------------------- MODULE PageSyncProofs ---------------------------
(***************************************************************************)
(* Theorems about the synchronisation of a page, for any number of         *)
(* overlapping synchronisations and any bounds.                            *)
(***************************************************************************)
EXTENDS PageSync, FiniteSetTheorems, TLAPS

------------------------------------------------------------------------------
(* Facts about numbers, wikis and tags. *)

\* A bounded set of numbers has a greatest one: the one with the fewest numbers from
\* it to the bound, as finite sets are well-founded.
LEMMA GreatestNumber ==
  ASSUME NEW n \in Nat, NEW S \in SUBSET (0..n), S # {}
  PROVE  \E m \in S : \A k \in S : k <= m
<1> DEFINE T == {k..n : k \in S}
<1>1. T \subseteq FiniteSubsetsOf(Nat) /\ T # {}
  <2>1. ASSUME NEW k \in S PROVE k..n \in FiniteSubsetsOf(Nat)
    BY FS_Interval DEF FiniteSubsetsOf
  <2> QED BY <2>1
<1>2. PICK x \in T : \A y \in T : <<y, x>> \notin StrictSubsetOrdering(Nat)
  <2> HIDE DEF T
  <2> QED BY <1>1, WFMin, FS_StrictSubsetOrderingWellFounded
<1>3. PICK m \in S : x = m..n
  OBVIOUS
<1>4. ASSUME NEW k \in S, ~(k <= m) PROVE FALSE
  <2>1. k..n \subseteq m..n /\ m \in m..n /\ m \notin k..n /\ k..n \in T
    BY <1>4
  <2>2. k..n \in SUBSET Nat /\ m..n \in SUBSET Nat /\ k..n # m..n
    BY <2>1
  <2>3. <<k..n, m..n>> \in StrictSubsetOrdering(Nat)
    BY <2>1, <2>2 DEF StrictSubsetOrdering
  <2> QED BY <1>2, <1>3, <2>1, <2>3
<1> QED BY <1>4

\* There are two wikis, each the other's other.
LEMMA TwoWikis ==
  ASSUME NEW w \in Wiki
  PROVE  /\ Other(w) \in Wiki /\ Other(w) # w /\ Other(Other(w)) = w
         /\ \A v \in Wiki : v = w \/ v = Other(w)
<1>1. PICK a \in Wiki, b \in Wiki : a # b /\ Wiki = {a, b}
  BY SyncAssumption
<1>2. \A v \in Wiki : Other(v) \in Wiki /\ Other(v) # v
  BY <1>1 DEF Other
<1> QED BY <1>1, <1>2

\* A job's fields.
LEMMA JobFields ==
  ASSUME TypeOK, NEW s \in Sync
  PROVE  /\ job[s] \in Jobs /\ stage[s] \in Stages
         /\ L(s) \in Wiki /\ R(s) \in Wiki /\ L(s) # R(s)
         /\ R(s) = Other(L(s)) /\ L(s) = Other(R(s))
<1>1. job[s] \in Jobs /\ stage[s] \in Stages
  BY DEF TypeOK, PagesType, JobsType
<1>2. job[s].wiki \in Wiki
  BY <1>1 DEF Jobs
<1> QED BY <1>1, <1>2, TwoWikis DEF L, R

\* The revisions of a page.
LEMMA Revisions ==
  ASSUME TypeOK, NEW w \in Wiki
  PROVE  /\ Current(w) \in Nat /\ DOMAIN revs[w] = 1..Current(w)
         /\ \A n \in 1..Current(w) : revs[w][n] \in Text \cup {NoText}
         /\ revs[w] = <<>> <=> Current(w) = 0
         /\ NoText \notin Text /\ {} \in Text /\ \A t \in Text : t \subseteq Nat \cup {Mark}
<1>1. revs[w] \in Seq(Text \cup {NoText})
  BY DEF TypeOK, PagesType, JobsType
<1>2. NoText \notin Text
  <2>1. Gone \in NoText /\ Gone \notin 1..changes \cup {Mark}
    BY SyncAssumption DEF NoText
  <2> QED BY <2>1 DEF Text
<1>3. {} \in Text /\ \A t \in Text : t \subseteq Nat \cup {Mark}
  BY DEF Text
<1> QED BY <1>1, <1>2, <1>3 DEF Current

\* Their texts.
LEMMA Texts ==
  ASSUME TypeOK, NEW w \in Wiki
  PROVE  /\ Body(w) \in Text
         /\ \A n \in 0..Current(w) : BodyOf(w, n) \in Text
         /\ BodyOf(w, Current(w)) = Body(w)
         /\ Current(w) = 0 => Body(w) = {} /\ ~Exists(w) /\ ~Deleted(w)
         /\ Exists(w) => Body(w) = revs[w][Current(w)]
         /\ Deleted(w) => Body(w) = {} /\ Current(w) # 0 /\ revs[w][Current(w)] = NoText
         /\ \A n \in 1..Current(w) : BodyOf(w, n) # {} => BodyOf(w, n) = revs[w][n]
BY Revisions DEF Body, BodyOf, Exists, Deleted

\* The newest tag is one of the tags of its direction.
LEMMA NewestFetched ==
  ASSUME TypeOK, NEW w \in Wiki, NEW dir, Fetched(w, dir) # {}
  PROVE  Newest(w, dir) \in Fetched(w, dir)
<1> DEFINE F == Fetched(w, dir)
           C == {tags[w][i].cur : i \in F}
<1>1. /\ Len(tags[w]) \in Nat /\ DOMAIN tags[w] = 1..Len(tags[w]) /\ Current(w) \in Nat
      /\ \A i \in DOMAIN tags[w] : tags[w][i].cur \in 1..Current(w)
  <2>1. tags[w] \in Seq([rem : Nat, cur : Nat, dir : Dirs])
    BY DEF TypeOK, PagesType, JobsType
  <2>2. \A i \in DOMAIN tags[w] : tags[w][i].cur \in 1..Current(w)
    BY DEF TypeOK, PagesType, JobsType
  <2> QED BY <2>1, <2>2, Revisions
<1>2. F \subseteq 1..Len(tags[w]) /\ F # {} /\ \A i \in F : tags[w][i].cur \in 1..Current(w)
  BY <1>1 DEF Fetched
<1> HIDE DEF F
<1>8. C \in SUBSET (0..Current(w)) /\ C # {}
  <2>1. \A i \in F : tags[w][i].cur \in 0..Current(w)
    BY <1>1, <1>2
  <2> QED BY <1>2, <2>1
<1>3. PICK c \in C : \A d \in C : d <= c
  <2> HIDE DEF C
  <2> QED BY <1>1, <1>8, GreatestNumber
<1> DEFINE G == {i \in F : tags[w][i].cur = c}
<1>4. G \in SUBSET (0..Len(tags[w])) /\ G # {}
  <2>1. \A i \in F : i \in 0..Len(tags[w])
    BY <1>1, <1>2
  <2>2. \E i \in F : tags[w][i].cur = c
    BY <1>3
  <2> QED BY <2>1, <2>2
<1>5. PICK m \in G : \A k \in G : k <= m
  <2> HIDE DEF G
  <2> QED BY <1>1, <1>4, GreatestNumber
<1>6. ASSUME NEW j \in F
      PROVE  \/ tags[w][j].cur < tags[w][m].cur
             \/ tags[w][j].cur = tags[w][m].cur /\ j <= m
  <2>1. tags[w][j].cur <= c /\ tags[w][m].cur = c
    BY <1>3, <1>5, <1>6
  <2>2. tags[w][j].cur \in Nat /\ c \in Nat
    BY <1>1, <1>2, <1>3
  <2>3. tags[w][j].cur = c => j <= m
    BY <1>5, <1>6
  <2> QED BY <2>1, <2>2, <2>3
<1> QED BY <1>5, <1>6 DEF Newest, F

\* Its numbers are those of revisions.
LEMMA NewestNumbers ==
  ASSUME TypeOK, NEW s \in Sync, Tagged(s)
  PROVE  /\ NewestTag(s).cur \in 1..Current(L(s)) /\ NewestTag(s).rem \in 1..Current(R(s))
         /\ job[s].dir = "both" => NewestTag(s).dir = "both"
         /\ \E i \in DOMAIN tags[L(s)] : NewestTag(s) = tags[L(s)][i]
<1>1. job[s].dir \in Dirs
  BY JobFields DEF Jobs
<1>2. Newest(L(s), job[s].dir) \in Fetched(L(s), job[s].dir)
  BY JobFields, NewestFetched DEF Tagged
<1> QED BY <1>1, <1>2, JobFields DEF Fetched, NewestTag, TypeOK, PagesType

------------------------------------------------------------------------------
(* What steps do to the pages. *)

\* Pages only grow.
Extends ==
  \A w \in Wiki :
    /\ Current(w) <= Current(w)' /\ Current(w)' \in Nat
    /\ \A n \in 1..Current(w) : revs'[w][n] = revs[w][n]

LEMMA SameExtends ==
  ASSUME TypeOK, revs' = revs PROVE Extends
BY Revisions DEF Extends, Current

\* A save appends a revision to one of them.
LEMMA WriteFrame ==
  ASSUME TypeOK, NEW w \in Wiki, NEW text, text \in Text' \cup {NoText},
         changes' \in Nat, changes <= changes', Write(w, text)
  PROVE  /\ revs' \in [Wiki -> Seq(Text' \cup {NoText})]
         /\ Current(w)' = Current(w) + 1 /\ revs'[w][Current(w) + 1] = text
         /\ revs'[Other(w)] = revs[Other(w)] /\ Current(Other(w))' = Current(Other(w))
         /\ Extends
<1>1. Text \subseteq Text'
  BY DEF Text, TypeOK, ObservedType
<1>2. /\ revs \in [Wiki -> Seq(Text \cup {NoText})]
      /\ revs' = [revs EXCEPT ![w] = Append(revs[w], text)]
  BY DEF TypeOK, PagesType, Write
<1>3. \A v \in Wiki : revs[v] \in Seq(Text' \cup {NoText})
  <2>1. ASSUME NEW v \in Wiki PROVE revs[v] \in Seq(Text' \cup {NoText})
    <3>1. revs[v] \in Seq(Text \cup {NoText})
      BY <1>2
    <3> QED BY <1>1, <3>1
  <2> QED BY <2>1
<1>4. /\ revs'[w] = Append(revs[w], text)
      /\ \A v \in Wiki : v # w => revs'[v] = revs[v]
  BY <1>2
<1>5. revs' \in [Wiki -> Seq(Text' \cup {NoText})]
  <2>1. Append(revs[w], text) \in Seq(Text' \cup {NoText})
    BY <1>3
  <2> QED BY <1>2, <1>3, <2>1
<1>6. /\ Current(w) \in Nat /\ Current(w)' = Current(w) + 1
      /\ revs'[w][Current(w) + 1] = text
      /\ \A n \in 1..Current(w) : revs'[w][n] = revs[w][n]
  BY <1>3, <1>4 DEF Current
<1>7. \A v \in Wiki : v # w => Current(v)' = Current(v) /\ Current(v) \in Nat
  BY <1>4, Revisions DEF Current
<1>8. Extends
  <2>1. ASSUME NEW v \in Wiki
        PROVE  /\ Current(v) <= Current(v)' /\ Current(v)' \in Nat
               /\ \A n \in 1..Current(v) : revs'[v][n] = revs[v][n]
    <3>1. CASE v = w
      BY <1>6, <3>1
    <3>2. CASE v # w
      BY <1>4, <1>7, <3>2
    <3> QED BY <3>1, <3>2
  <2> QED BY <2>1 DEF Extends
<1> QED BY <1>4, <1>5, <1>6, <1>7, <1>8, TwoWikis

\* A revision that exists keeps its text.
LEMMA TextsStay ==
  ASSUME TypeOK, Extends, NEW w \in Wiki, NEW n \in 1..Current(w)
  PROVE  n \in 1..Current(w)' /\ BodyOf(w, n)' = BodyOf(w, n)
BY Revisions DEF Extends, BodyOf

\* What was typed right stays so while the pages grow.
LEMMA TagsStayTyped ==
  ASSUME TypeOK, Extends, revs' \in [Wiki -> Seq(Text' \cup {NoText})], tags' = tags
  PROVE  PagesType'
<1>1. ASSUME NEW w \in Wiki, NEW n \in DOMAIN tags[w]
      PROVE  tags[w][n].cur \in 1..Current(w)' /\ tags[w][n].rem \in 1..Current(Other(w))'
  <2>1. tags[w][n].cur \in 1..Current(w) /\ tags[w][n].rem \in 1..Current(Other(w))
    BY DEF TypeOK, PagesType
  <2> QED BY <2>1, TwoWikis, Revisions DEF Extends
<1> QED BY <1>1 DEF TypeOK, PagesType

\* A tag that is added must name revisions.
LEMMA TagTyped ==
  ASSUME TypeOK, revs' = revs, changes' = changes, NEW w \in Wiki,
         NEW rem \in 1..Current(Other(w)), NEW cur \in 1..Current(w), NEW dir \in Dirs,
         tags' = [tags EXCEPT ![w] = Append(@, Tag(rem, cur, dir))]
  PROVE  /\ PagesType'
         /\ DOMAIN tags'[w] = 1..(Len(tags[w]) + 1) /\ Len(tags[w]) \in Nat
         /\ DOMAIN tags[w] = 1..Len(tags[w])
         /\ tags'[w][Len(tags[w]) + 1] = Tag(rem, cur, dir)
         /\ \A n \in DOMAIN tags[w] : tags'[w][n] = tags[w][n]
         /\ \A v \in Wiki : v # w => tags'[v] = tags[v]
<1> DEFINE Tags == [rem : Nat, cur : Nat, dir : Dirs]
<1>1. Tag(rem, cur, dir) \in Tags
  BY Revisions, TwoWikis DEF Tag
<1>2. tags \in [Wiki -> Seq(Tags)] /\ tags' = [tags EXCEPT ![w] = Append(tags[w], Tag(rem, cur, dir))]
  BY DEF TypeOK, PagesType
<1>3. /\ tags' \in [Wiki -> Seq(Tags)] /\ tags'[w] = Append(tags[w], Tag(rem, cur, dir))
      /\ \A v \in Wiki : v # w => tags'[v] = tags[v]
  <2> HIDE DEF Tags
  <2>1. Append(tags[w], Tag(rem, cur, dir)) \in Seq(Tags)
    BY <1>1, <1>2
  <2> QED BY <1>2, <2>1
<1>4. /\ DOMAIN tags'[w] = 1..(Len(tags[w]) + 1) /\ Len(tags[w]) \in Nat
      /\ DOMAIN tags[w] = 1..Len(tags[w])
      /\ tags'[w][Len(tags[w]) + 1] = Tag(rem, cur, dir)
      /\ \A n \in DOMAIN tags[w] : tags'[w][n] = tags[w][n]
  <2> HIDE DEF Tags
  <2> QED BY <1>1, <1>2, <1>3
<1>5. ASSUME NEW v \in Wiki, NEW n \in DOMAIN tags'[v]
      PROVE  tags'[v][n].cur \in 1..Current(v) /\ tags'[v][n].rem \in 1..Current(Other(v))
  <2>1. CASE n \in DOMAIN tags[v] /\ tags'[v][n] = tags[v][n]
    BY <2>1 DEF TypeOK, PagesType
  <2>2. CASE v = w /\ n = Len(tags[w]) + 1
    BY <1>4, <2>2 DEF Tag
  <2>3. v = w => n \in DOMAIN tags[w] \/ n = Len(tags[w]) + 1
    BY <1>4, <1>5
  <2> QED BY <1>3, <1>4, <1>5, <2>1, <2>2, <2>3
<1> QED BY <1>3, <1>4, <1>5 DEF PagesType, TypeOK, Current, Text

\* A step of one synchronisation that sets its job right.
LEMMA JobTyped ==
  ASSUME TypeOK, Extends, changes' = changes, NEW s \in Sync, NEW to \in Stages,
         stage' = [stage EXCEPT ![s] = to], NEW j \in Jobs, job' = [job EXCEPT ![s] = j],
         {j.lrev, j.base, j.newrev} \subseteq 0..Current(j.wiki)',
         {j.rrev, j.from, j.last} \subseteq 0..Current(Other(j.wiki))'
  PROVE  JobsType'
<1>1. stage' \in [Sync -> Stages] /\ job' \in [Sync -> Jobs] /\ Jobs' = Jobs
  BY DEF TypeOK, JobsType, Jobs, Text
<1>2. ASSUME NEW t \in Sync
      PROVE  /\ {job'[t].lrev, job'[t].base, job'[t].newrev} \subseteq 0..Current(L(t))'
             /\ {job'[t].rrev, job'[t].from, job'[t].last} \subseteq 0..Current(R(t))'
  <2>1. CASE t = s
    <3>1. job'[t] = j
      BY <2>1 DEF TypeOK, JobsType
    <3> QED BY <3>1 DEF L, R, Current
  <2>2. CASE t # s
    <3>1. job'[t] = job[t]
      BY <2>2 DEF TypeOK, JobsType
    <3>2. /\ {job[t].lrev, job[t].base, job[t].newrev} \subseteq 0..Current(L(t))
          /\ {job[t].rrev, job[t].from, job[t].last} \subseteq 0..Current(R(t))
      BY DEF TypeOK, JobsType
    <3>3. /\ Current(L(t)) <= Current(L(t))' /\ Current(R(t)) <= Current(R(t))'
          /\ Current(L(t))' \in Nat /\ Current(R(t))' \in Nat
          /\ Current(L(t)) \in Nat /\ Current(R(t)) \in Nat
      <4>1. L(t)' = L(t) /\ R(t)' = R(t)
        BY <3>1 DEF L, R
      <4> QED BY <4>1, JobFields, Revisions DEF Extends, Current
    <3> QED BY <3>1, <3>2, <3>3
  <2> QED BY <2>1, <2>2
<1> QED BY <1>1, <1>2 DEF JobsType

------------------------------------------------------------------------------
(* Type correctness: one lemma per kind of step. *)

\* What holds of a synchronisation's numbers does not depend on the others.
LEMMA NumbersStay ==
  ASSUME TypeInv, Extends, NEW t \in Sync, stage'[t] = stage[t], job'[t] = job[t]
  PROVE  NumberInv(t)'
<1>1. TypeOK /\ NumberInv(t)
  BY DEF TypeInv
<1>2. L(t)' = L(t) /\ R(t)' = R(t)
  BY DEF L, R
<1>3. /\ Current(L(t)) # 0 => Current(L(t))' # 0
      /\ Current(R(t)) # 0 => Current(R(t))' # 0
  BY <1>1, <1>2, JobFields, Revisions DEF Extends, Current
<1> QED BY <1>1, <1>2, <1>3 DEF NumberInv

\* A step that sets its own job right, and the pages and tags, sets all right.
LEMMA StepTyped ==
  ASSUME TypeInv, Extends, changes' = changes, NEW s \in Sync, NEW to \in Stages,
         stage' = [stage EXCEPT ![s] = to], NEW j \in Jobs, job' = [job EXCEPT ![s] = j],
         {j.lrev, j.base, j.newrev} \subseteq 0..Current(j.wiki)',
         {j.rrev, j.from, j.last} \subseteq 0..Current(Other(j.wiki))',
         PagesType', made' = made, quiet' \in [Sync -> BOOLEAN], raced' \in BOOLEAN,
         synced' \in BOOLEAN, NumberInv(s)'
  PROVE  TypeInv'
<1>1. TypeOK
  BY DEF TypeInv
<1>2. JobsType'
  BY <1>1, JobTyped
<1>3. ObservedType'
  BY <1>1 DEF TypeOK, ObservedType
<1>4. ASSUME NEW t \in Sync, t # s PROVE NumberInv(t)'
  <2>1. stage'[t] = stage[t] /\ job'[t] = job[t]
    BY <1>1, <1>4 DEF TypeOK, JobsType
  <2> QED BY <2>1, NumbersStay
<1> QED BY <1>2, <1>3, <1>4 DEF TypeInv, TypeOK

\* A step that reads.
LEMMA ReadTyped ==
  ASSUME TypeInv, UNCHANGED <<revs, tags, changes, made, quiet, synced>>, raced' \in BOOLEAN,
         NEW s \in Sync, NEW to \in Stages,
         stage' = [stage EXCEPT ![s] = to], NEW j \in Jobs, job' = [job EXCEPT ![s] = j],
         {j.lrev, j.base, j.newrev} \subseteq 0..Current(j.wiki),
         {j.rrev, j.from, j.last} \subseteq 0..Current(Other(j.wiki)), NumberInv(s)'
  PROVE  TypeInv'
<1>1. TypeOK /\ Extends
  BY SameExtends DEF TypeInv
<1>2. PagesType'
  BY <1>1 DEF TypeOK, PagesType, Current, Text
<1>3. \A w : Current(w)' = Current(w)
  BY DEF Current
<1> QED BY <1>1, <1>2, <1>3, StepTyped DEF TypeOK, ObservedType

\* Where no number is promised yet, or any more, it is enough that none is lost.
LEMMA NothingPromised ==
  ASSUME TypeInv, NEW s \in Sync, stage[s] # "number", NEW to, stage' = [stage EXCEPT ![s] = to],
         to \notin {"save", "number", "check", "merge", "merge tag", "answer", "tag"},
         NEW j \in Jobs, job' = [job EXCEPT ![s] = j],
         j.newrev = job[s].newrev, j.done = job[s].done
  PROVE  NumberInv(s)'
<1>1. stage'[s] = to /\ job'[s] = j
  BY DEF TypeInv, TypeOK, JobsType
<1>2. NumberInv(s)
  BY DEF TypeInv
<1> QED BY <1>1, <1>2 DEF NumberInv

\* What the reading steps find.
LEMMA ListRemoteTyped ==
  ASSUME TypeInv, NEW s \in Sync, ListRemote(s) PROVE TypeInv'
<1> DEFINE j == [job[s] EXCEPT !.rrev = Current(R(s)), !.rdel = Deleted(R(s))]
<1>1. TypeOK /\ NumberInv(s)
  BY DEF TypeInv
<1>2. /\ job' = [job EXCEPT ![s] = j] /\ stage' = [stage EXCEPT ![s] = "page"]
      /\ stage[s] = "list" /\ UNCHANGED <<revs, tags, changes, made, raced, quiet, synced>>
  BY DEF ListRemote, Goto, Reads, bounds, observed
<1>3. j \in Jobs
  <2>1. job[s] \in Jobs /\ Current(R(s)) \in Nat /\ Deleted(R(s)) \in BOOLEAN
    BY <1>1, JobFields, Revisions DEF Deleted
  <2> QED BY <2>1 DEF Jobs
<1>4. /\ {j.lrev, j.base, j.newrev} \subseteq 0..Current(j.wiki)
      /\ {j.rrev, j.from, j.last} \subseteq 0..Current(Other(j.wiki))
  BY <1>1, JobFields, Revisions DEF TypeOK, JobsType, L, R
<1>5. NumberInv(s)'
  BY <1>1, <1>2 DEF NumberInv, TypeOK, JobsType
<1> QED BY <1>1, <1>2, <1>3, <1>4, <1>5, ReadTyped DEF TypeOK, ObservedType, Stages

\* A step to the end, or to the roll back, that changes nothing.
LEMMA EndTyped ==
  ASSUME TypeInv, UNCHANGED <<revs, tags, changes, made, quiet, synced, raced>>,
         NEW s \in Sync, NEW to \in {"finished", "skipped", "failed"}, stage[s] # "number",
         stage' = [stage EXCEPT ![s] = to], job' = job
  PROVE  TypeInv'
<1>1. TypeOK /\ NumberInv(s) /\ to \in Stages /\ raced' \in BOOLEAN
  BY DEF TypeInv, Stages, TypeOK, ObservedType
<1>2. job' = [job EXCEPT ![s] = job[s]] /\ job[s] \in Jobs
  BY <1>1 DEF TypeOK, JobsType
<1>3. /\ {job[s].lrev, job[s].base, job[s].newrev} \subseteq 0..Current(job[s].wiki)
      /\ {job[s].rrev, job[s].from, job[s].last} \subseteq 0..Current(Other(job[s].wiki))
  BY <1>1 DEF TypeOK, JobsType, L, R
<1>4. NumberInv(s)'
  BY <1>1, <1>2 DEF NumberInv, TypeOK, JobsType
<1> QED BY <1>1, <1>2, <1>3, <1>4, ReadTyped

\* A patch and a merge make texts of texts.
LEMMA PatchedText ==
  ASSUME NEW text \in Text, NEW from \in Text, NEW to \in Text, NEW p \in Patched(text, from, to)
  PROVE  p \in Text
BY DEF Patched, Text

LEMMA MergedText ==
  ASSUME NEW s \in Sync, TypeOK, NEW body \in Text, NEW t \in MergedTexts(s, body)
  PROVE  t \in Text
<1>1. job[s].old \in Text /\ job[s].remote \in Text
  BY JobFields DEF Jobs
<1> QED BY <1>1 DEF MergedTexts, Merge3, Text

LEMMA BeginTyped ==
  ASSUME TypeInv, NEW s \in Sync, Begin(s) PROVE TypeInv'
<1> DEFINE from == IF Tagged(s) /\ job[s].dir = "both" THEN NewestTag(s).rem ELSE 0
           diff == from # job[s].rrev /\ ~job[s].rdel
           old == IF Tagged(s) THEN BodyOf(L(s), NewestTag(s).cur) ELSE {}
           base == IF Tagged(s) THEN NewestTag(s).cur ELSE job[s].lrev
           conf == from = job[s].rrev /\ Mark \in old
           remote == IF job[s].rdel THEN {} ELSE old
           tagged == Tagged(s)
           j == [job[s] EXCEPT !.tagged = tagged, !.base = base, !.old = old, !.from = from,
                               !.diff = diff, !.remote = remote, !.conf = conf,
                               !.last = job[s].rrev]
<1>1. TypeOK /\ NumberInv(s) /\ job[s] \in Jobs
  BY JobFields DEF TypeInv
<1>2. stage[s] = "page" /\ UNCHANGED <<revs, tags, changes, made, raced, quiet, synced>>
  BY DEF Begin, Goto, Reads, bounds, observed
<1>3. PICK to \in {"diff", "body"} : stage' = [stage EXCEPT ![s] = to]
  BY DEF Begin, Goto
<1>4. job' = [job EXCEPT ![s].tagged = tagged, ![s].base = base, ![s].old = old,
                         ![s].from = from, ![s].diff = diff, ![s].remote = remote,
                         ![s].conf = conf, ![s].last = job[s].rrev]
  BY DEF Begin
<1>5. /\ from \in 0..Current(R(s)) /\ base \in 0..Current(L(s)) /\ from \in Nat /\ base \in Nat
  <2>1. job[s].lrev \in 0..Current(L(s)) /\ Current(L(s)) \in Nat /\ Current(R(s)) \in Nat
    BY <1>1, JobFields, Revisions DEF TypeOK, JobsType
  <2>2. Tagged(s) => NewestTag(s).cur \in 1..Current(L(s)) /\ NewestTag(s).rem \in 1..Current(R(s))
    BY <1>1, NewestNumbers
  <2> QED BY <2>1, <2>2
<1>6. old \in Text /\ remote \in Text
  <2>1. old \in Text /\ {} \in Text
    BY <1>1, JobFields, NewestNumbers, Texts DEF Text
  <2> QED BY <2>1
<1>7. tagged \in BOOLEAN /\ diff \in BOOLEAN /\ conf \in BOOLEAN
  BY DEF Tagged
<1> HIDE DEF old, from, diff, base, conf, remote, tagged
<1>8. j \in Jobs
  BY <1>1, <1>5, <1>6, <1>7 DEF Jobs
<1>9. job' = [job EXCEPT ![s] = j]
  BY <1>4
<1>10. /\ {j.lrev, j.base, j.newrev} \subseteq 0..Current(j.wiki)
       /\ {j.rrev, j.from, j.last} \subseteq 0..Current(Other(j.wiki))
  BY <1>1, <1>5 DEF TypeOK, JobsType, L, R, Jobs
<1>11. NumberInv(s)'
  BY <1>1, <1>2, <1>3, <1>8, <1>9, NothingPromised DEF Jobs
<1> QED BY <1>1, <1>2, <1>3, <1>8, <1>9, <1>10, <1>11, ReadTyped DEF TypeOK, ObservedType, Stages

LEMMA ReadDiffTyped ==
  ASSUME TypeInv, NEW s \in Sync, ReadDiff(s) PROVE TypeInv'
<1>1. TypeOK /\ NumberInv(s) /\ job[s] \in Jobs
  BY JobFields DEF TypeInv
<1>2. stage[s] = "diff" /\ UNCHANGED <<revs, tags, changes, made, raced, quiet, synced>>
  BY DEF ReadDiff, Reads, bounds, observed
<1>3. CASE Fails(s)
  BY <1>2, <1>3, EndTyped DEF Fails
<1>4. CASE ~Fails(s)
  <2> DEFINE expected == IF job[s].from = 0 THEN {} ELSE BodyOf(R(s), job[s].from)
             base == IF job[s].dir = "both" THEN job[s].old ELSE {}
  <2>1. PICK text \in Patched(base, expected, Body(R(s))) :
          /\ job' = [job EXCEPT ![s].remote = text, ![s].conf = Mark \in Body(R(s))]
          /\ stage' = [stage EXCEPT ![s] = "diff number"]
    BY <1>4 DEF ReadDiff, Goto
  <2> DEFINE conf == Mark \in Body(R(s))
             j == [job[s] EXCEPT !.remote = text, !.conf = conf]
  <2>2. base \in Text /\ expected \in Text /\ Body(R(s)) \in Text
    BY <1>1, JobFields, Texts DEF Jobs, TypeOK, JobsType, Text
  <2> HIDE DEF base, expected
  <2>3. text \in Text
    BY <2>1, <2>2, PatchedText
  <2>7. job' = [job EXCEPT ![s] = j]
    BY <2>1
  <2>8. conf \in BOOLEAN
    OBVIOUS
  <2> HIDE DEF conf
  <2>4. j \in Jobs
    BY <1>1, <2>3, <2>8 DEF Jobs
  <2>5. /\ {j.lrev, j.base, j.newrev} \subseteq 0..Current(j.wiki)
        /\ {j.rrev, j.from, j.last} \subseteq 0..Current(Other(j.wiki))
    BY <1>1 DEF TypeOK, JobsType, L, R, Jobs
  <2>6. NumberInv(s)'
    BY <1>1, <1>2, <2>1, <2>4, <2>7, NothingPromised DEF Jobs
  <2> QED BY <1>1, <1>2, <2>1, <2>4, <2>5, <2>6, <2>7, ReadTyped DEF TypeOK, ObservedType, Stages
<1> QED BY <1>3, <1>4

LEMMA ReadDiffNumberTyped ==
  ASSUME TypeInv, NEW s \in Sync, ReadDiffNumber(s) PROVE TypeInv'
<1> DEFINE j == [job[s] EXCEPT !.last = Current(R(s))]
<1>1. TypeOK /\ NumberInv(s) /\ job[s] \in Jobs /\ raced' \in BOOLEAN
  BY JobFields DEF TypeInv, ReadDiffNumber, TypeOK, ObservedType
<1>2. /\ job' = [job EXCEPT ![s] = j] /\ stage' = [stage EXCEPT ![s] = "body"]
      /\ stage[s] = "diff number" /\ UNCHANGED <<revs, tags, changes, made, quiet, synced>>
  BY DEF ReadDiffNumber, Goto, bounds
<1>3. j \in Jobs
  BY <1>1, JobFields, Revisions DEF Jobs
<1>4. /\ {j.lrev, j.base, j.newrev} \subseteq 0..Current(j.wiki)
      /\ {j.rrev, j.from, j.last} \subseteq 0..Current(Other(j.wiki))
  BY <1>1, JobFields, Revisions DEF TypeOK, JobsType, L, R
<1>5. NumberInv(s)'
  BY <1>1, <1>2, <1>3, NothingPromised DEF Jobs
<1> QED BY <1>1, <1>2, <1>3, <1>4, <1>5, ReadTyped DEF Stages

LEMMA ReadBodyTyped ==
  ASSUME TypeInv, NEW s \in Sync, ReadBody(s) PROVE TypeInv'
<1>1. TypeOK /\ NumberInv(s) /\ job[s] \in Jobs
  BY JobFields DEF TypeInv
<1>2. PICK to \in {"skipped", "save"}, text \in MergedTexts(s, Body(L(s))) :
        /\ stage[s] = "body" /\ stage' = [stage EXCEPT ![s] = to]
        /\ job' = [job EXCEPT ![s].body = Body(L(s)), ![s].merged = text]
        /\ UNCHANGED <<revs, tags, changes, made, raced, quiet, synced>>
  BY DEF ReadBody, Goto, Reads, bounds, observed
<1> DEFINE j == [job[s] EXCEPT !.body = Body(L(s)), !.merged = text]
<1>3. Body(L(s)) \in Text /\ (Body(L(s)) # {} => Current(L(s)) # 0)
  BY <1>1, JobFields, Texts
<1>4. text \in Text
  BY <1>1, <1>2, <1>3, MergedText
<1>5. j \in Jobs
  BY <1>1, <1>3, <1>4 DEF Jobs
<1>6. /\ {j.lrev, j.base, j.newrev} \subseteq 0..Current(j.wiki)
      /\ {j.rrev, j.from, j.last} \subseteq 0..Current(Other(j.wiki))
  BY <1>1 DEF TypeOK, JobsType, L, R, Jobs
<1>7. job' = [job EXCEPT ![s] = j]
  BY <1>2
<1>8. NumberInv(s)'
  <2>1. job'[s].body = Body(L(s)) /\ L(s)' = L(s) /\ Current(L(s))' = Current(L(s))
    BY <1>1, <1>2, <1>7 DEF TypeOK, JobsType, Jobs, L, Current
  <2>2. stage'[s] = to /\ job'[s].done = job[s].done /\ job'[s].newrev = job[s].newrev
    BY <1>1, <1>2, <1>7 DEF TypeOK, JobsType, Jobs
  <2> QED BY <1>1, <1>2, <1>3, <2>1, <2>2 DEF NumberInv
<1> QED BY <1>1, <1>2, <1>5, <1>6, <1>7, <1>8, ReadTyped DEF TypeOK, ObservedType, Stages

\* A step that saves a revision.
LEMMA WriteTyped ==
  ASSUME TypeInv, UNCHANGED <<tags, changes, made>>, raced' \in BOOLEAN,
         NEW w \in Wiki, NEW text \in Text \cup {NoText}, Write(w, text),
         NEW s \in Sync, Disturb(s), NEW to \in Stages, stage' = [stage EXCEPT ![s] = to],
         NEW j \in Jobs, job' = [job EXCEPT ![s] = j],
         {j.lrev, j.base, j.newrev} \subseteq 0..Current(j.wiki),
         {j.rrev, j.from, j.last} \subseteq 0..Current(Other(j.wiki)), NumberInv(s)'
  PROVE  TypeInv'
<1>1. TypeOK /\ text \in Text' \cup {NoText} /\ changes' \in Nat /\ changes <= changes'
  BY DEF TypeInv, TypeOK, ObservedType, Text
<1>2. revs' \in [Wiki -> Seq(Text' \cup {NoText})] /\ Extends
  BY <1>1, WriteFrame
<1>3. PagesType'
  BY <1>1, <1>2, TagsStayTyped
<1>4. quiet' \in [Sync -> BOOLEAN] /\ synced' \in BOOLEAN
  BY <1>1 DEF Disturb, TypeOK, ObservedType
<1>5. /\ {j.lrev, j.base, j.newrev} \subseteq 0..Current(j.wiki)'
      /\ {j.rrev, j.from, j.last} \subseteq 0..Current(Other(j.wiki))'
  <2>1. j.wiki \in Wiki /\ Other(j.wiki) \in Wiki
    BY TwoWikis DEF Jobs
  <2>2. \A v \in Wiki : Current(v) \in Nat /\ Current(v)' \in Nat /\ Current(v) <= Current(v)'
    BY <1>1, <1>2, Revisions DEF Extends
  <2> QED BY <2>1, <2>2
<1> QED BY <1>2, <1>3, <1>4, <1>5, StepTyped

\* Every synchronisation begins and ends with this.
LEMMA NoJobTyped == TypeOK => NoJob \in Jobs
<1>1. (CHOOSE w \in Wiki : TRUE) \in Wiki
  BY SyncAssumption
<1> QED BY <1>1 DEF NoJob, Jobs, Dirs, Text

LEMMA SaveLocalTyped ==
  ASSUME TypeInv, NEW s \in Sync, SaveLocal(s) PROVE TypeInv'
<1>1. TypeOK /\ NumberInv(s) /\ job[s] \in Jobs /\ L(s) \in Wiki /\ Current(L(s)) \in Nat
  BY JobFields, Revisions DEF TypeInv
<1>2. stage[s] = "save" /\ UNCHANGED <<tags, changes, made, raced>>
  BY DEF SaveLocal, bounds
<1>3. CASE Fails(s)
  <2>1. UNCHANGED <<revs, quiet, synced>>
    BY <1>2, <1>3 DEF SaveLocal, Fails, Goto, TypeInv, TypeOK, JobsType
  <2> QED BY <1>2, <1>3, <2>1, EndTyped DEF Fails
<1>4. CASE ~Fails(s)
  <2> DEFINE done == job[s].merged # job[s].body
             j == [job[s] EXCEPT !.done = done]
  <2>1. /\ stage' = [stage EXCEPT ![s] = "number"] /\ job' = [job EXCEPT ![s] = j]
        /\ job[s].merged # {}
        /\ IF job[s].merged = job[s].body THEN UNCHANGED <<revs, quiet, synced>>
           ELSE Write(L(s), job[s].merged) /\ Disturb(s)
    BY <1>4 DEF SaveLocal, Goto
  <2>2. j \in Jobs /\ job[s].merged \in Text
    BY <1>1 DEF Jobs
  <2>3. /\ {j.lrev, j.base, j.newrev} \subseteq 0..Current(j.wiki)
        /\ {j.rrev, j.from, j.last} \subseteq 0..Current(Other(j.wiki))
    BY <1>1 DEF TypeOK, JobsType, L, R, Jobs
  <2>4. /\ stage'[s] = "number" /\ L(s)' = L(s)
    BY <1>1, <2>1 DEF TypeOK, JobsType, Jobs, L
  <2>5. CASE job[s].merged = job[s].body
    <3>1. Current(L(s))' # 0
      BY <1>1, <1>2, <2>1, <2>4, <2>5 DEF NumberInv, Current
    <3>2. NumberInv(s)'
      BY <2>4, <3>1 DEF NumberInv
    <3> QED BY <1>1, <1>2, <2>1, <2>2, <2>3, <2>5, <3>2, ReadTyped
            DEF TypeOK, ObservedType, Stages
  <2>6. CASE job[s].merged # job[s].body
    <3>1. Current(L(s))' # 0
      <4>1. Text' = Text /\ changes' = changes /\ changes \in Nat
        BY <1>1, <1>2 DEF Text, TypeOK, ObservedType
      <4>2. PICK w \in Wiki : w = L(s)
        BY <1>1
      <4>3. Write(w, job[s].merged)
        BY <2>1, <2>6, <4>2
      <4>4. Current(w)' = Current(w) + 1
        BY <1>1, <2>2, <4>1, <4>3, WriteFrame
      <4> QED BY <1>1, <2>4, <4>2, <4>4 DEF Current
    <3>2. NumberInv(s)'
      BY <2>4, <3>1 DEF NumberInv
    <3> QED BY <1>1, <1>2, <2>1, <2>2, <2>3, <2>6, <3>2, WriteTyped
            DEF TypeOK, ObservedType, Stages
  <2> QED BY <2>5, <2>6
<1> QED BY <1>3, <1>4

LEMMA ReadNumberTyped ==
  ASSUME TypeInv, NEW s \in Sync, ReadNumber(s) PROVE TypeInv'
<1> DEFINE j == [job[s] EXCEPT !.newrev = Current(L(s))]
<1>1. TypeOK /\ NumberInv(s) /\ job[s] \in Jobs /\ raced' \in BOOLEAN
  BY JobFields DEF TypeInv, ReadNumber, TypeOK, ObservedType
<1>2. PICK to \in {"check", "tag"} :
        /\ job' = [job EXCEPT ![s] = j] /\ stage' = [stage EXCEPT ![s] = to]
        /\ stage[s] = "number" /\ UNCHANGED <<revs, tags, changes, made, quiet, synced>>
  BY DEF ReadNumber, Goto, bounds
<1>3. j \in Jobs
  BY <1>1, JobFields, Revisions DEF Jobs
<1>4. /\ {j.lrev, j.base, j.newrev} \subseteq 0..Current(j.wiki)
      /\ {j.rrev, j.from, j.last} \subseteq 0..Current(Other(j.wiki))
  BY <1>1, JobFields, Revisions DEF TypeOK, JobsType, L, R
<1>5. NumberInv(s)'
  <2>1. stage'[s] = to /\ job'[s].newrev = Current(L(s))
    BY <1>1, <1>2 DEF TypeOK, JobsType, Jobs
  <2>2. Current(L(s)) # 0
    BY <1>1, <1>2 DEF NumberInv
  <2> QED BY <1>2, <2>1, <2>2 DEF NumberInv
<1> QED BY <1>1, <1>2, <1>3, <1>4, <1>5, ReadTyped DEF Stages

LEMMA CheckTyped ==
  ASSUME TypeInv, NEW s \in Sync, Check(s) PROVE TypeInv'
<1>1. TypeOK /\ NumberInv(s) /\ job[s] \in Jobs
  BY JobFields DEF TypeInv
<1>2. /\ stage[s] \in {"check", "check delete"}
      /\ UNCHANGED <<revs, tags, changes, made, raced, quiet, synced>>
  BY DEF Check, Reads, bounds, observed
<1>3. CASE Fails(s)
  BY <1>2, <1>3, EndTyped DEF Fails
<1>4. CASE ~Fails(s)
  <2>1. PICK to \in {"merge", "delete"} :
          /\ stage' = [stage EXCEPT ![s] = to] /\ job' = job
          /\ to = "merge" => stage[s] = "check"
    BY <1>1, <1>2, <1>4 DEF Check, TypeOK, JobsType
  <2>2. job' = [job EXCEPT ![s] = job[s]]
    BY <1>1, <2>1 DEF TypeOK, JobsType
  <2>3. /\ {job[s].lrev, job[s].base, job[s].newrev} \subseteq 0..Current(job[s].wiki)
        /\ {job[s].rrev, job[s].from, job[s].last} \subseteq 0..Current(Other(job[s].wiki))
    BY <1>1 DEF TypeOK, JobsType, L, R
  <2>4. NumberInv(s)'
    BY <1>1, <1>2, <2>1 DEF NumberInv, TypeOK, JobsType
  <2> QED BY <1>1, <1>2, <2>1, <2>2, <2>3, <2>4, ReadTyped DEF TypeOK, ObservedType, Stages
<1> QED BY <1>3, <1>4

LEMMA MergeDiffTyped ==
  ASSUME TypeInv, NEW s \in Sync, MergeDiff(s) PROVE TypeInv'
<1>1. /\ TypeOK /\ NumberInv(s) /\ job[s] \in Jobs /\ R(s) \in Wiki /\ Current(R(s)) \in Nat
      /\ raced' \in BOOLEAN
  BY JobFields, Revisions DEF TypeInv, MergeDiff, TypeOK, ObservedType
<1>2. stage[s] = "merge" /\ UNCHANGED <<tags, changes, made>>
  BY DEF MergeDiff, bounds
<1>3. PICK text \in Patched(BodyOf(R(s), job[s].last), job[s].remote, job[s].merged) :
        IF text = {} \/ StaleRev(R(s), job[s].last)
        THEN Fails(s) /\ UNCHANGED <<revs, quiet, synced>>
        ELSE /\ Goto(s, "merge", "merge tag") /\ job' = [job EXCEPT ![s].body = text]
             /\ IF text = Body(R(s)) THEN UNCHANGED <<revs, quiet, synced>>
                ELSE Write(R(s), text) /\ Disturb(s)
  BY DEF MergeDiff
<1>4. text \in Text
  <2>1. BodyOf(R(s), job[s].last) \in Text
    BY <1>1, Texts DEF TypeOK, JobsType
  <2> QED BY <1>1, <1>3, <2>1, PatchedText DEF Jobs
<1> DEFINE j == [job[s] EXCEPT !.body = text]
<1>5. /\ j \in Jobs /\ {j.lrev, j.base, j.newrev} \subseteq 0..Current(j.wiki)
      /\ {j.rrev, j.from, j.last} \subseteq 0..Current(Other(j.wiki))
  BY <1>1, <1>4 DEF TypeOK, JobsType, L, R, Jobs
<1>6. CASE Fails(s) /\ UNCHANGED <<revs, quiet, synced>>
  <2>1. /\ stage' = [stage EXCEPT ![s] = "failed"] /\ job' = [job EXCEPT ![s] = job[s]]
        /\ {job[s].lrev, job[s].base, job[s].newrev} \subseteq 0..Current(job[s].wiki)
        /\ {job[s].rrev, job[s].from, job[s].last} \subseteq 0..Current(Other(job[s].wiki))
    BY <1>1, <1>6 DEF Fails, TypeOK, JobsType, L, R
  <2>2. NumberInv(s)'
    BY <1>1, <1>2, <2>1, NothingPromised
  <2> QED BY <1>1, <1>2, <1>6, <2>1, <2>2, ReadTyped DEF Stages
<1>7. CASE /\ stage' = [stage EXCEPT ![s] = "merge tag"] /\ job' = [job EXCEPT ![s] = j]
           /\ text # {}
           /\ IF text = Body(R(s)) THEN UNCHANGED <<revs, quiet, synced>>
              ELSE Write(R(s), text) /\ Disturb(s)
  <2>1. /\ stage'[s] = "merge tag" /\ R(s)' = R(s) /\ job'[s].newrev = job[s].newrev
    BY <1>1, <1>7 DEF TypeOK, JobsType, Jobs, R
  <2>2. job[s].newrev # 0
    BY <1>1, <1>2 DEF NumberInv
  <2>3. CASE text = Body(R(s))
    <3>1. Current(R(s))' # 0
      BY <1>1, <1>7, <2>1, <2>3, Texts DEF Current
    <3>2. NumberInv(s)'
      BY <2>1, <2>2, <3>1 DEF NumberInv
    <3> QED BY <1>1, <1>2, <1>5, <1>7, <2>3, <3>2, ReadTyped DEF Stages
  <2>4. CASE text # Body(R(s))
    <3>1. Current(R(s))' # 0
      <4>1. Text' = Text /\ changes' = changes /\ changes \in Nat
        BY <1>1, <1>2 DEF Text, TypeOK, ObservedType
      <4>2. PICK w \in Wiki : w = R(s)
        BY <1>1
      <4>3. Write(w, text)
        BY <1>7, <2>4, <4>2
      <4>4. Current(w)' = Current(w) + 1
        BY <1>1, <1>4, <4>1, <4>3, WriteFrame
      <4>5. R(s)' = w
        BY <2>1, <4>2
      <4>6. Current(w) \in Nat
        BY <1>1, Revisions
      <4>7. Current(w)' # 0
        BY <4>4, <4>6
      <4> QED BY <4>5, <4>7 DEF Current
    <3>2. NumberInv(s)'
      BY <2>1, <2>2, <3>1 DEF NumberInv
    <3> QED BY <1>1, <1>2, <1>4, <1>5, <1>7, <2>4, <3>2, WriteTyped DEF Stages
  <2> QED BY <2>3, <2>4
<1> QED BY <1>3, <1>6, <1>7 DEF Goto

\* The numbers that mergeDiff puts into its tag are those of revisions.
LEMMA MergeTagNumbers ==
  ASSUME TypeInv, NEW s \in Sync, MergeTag(s)
  PROVE  /\ stage[s] = "merge tag"
         /\ job[s].newrev \in 1..Current(L(s)) /\ Current(R(s)) \in 1..Current(R(s))
<1>1. TypeOK /\ NumberInv(s) /\ stage[s] = "merge tag"
  BY DEF TypeInv, MergeTag, Goto
<1>2. /\ job[s].newrev # 0 /\ Current(R(s)) # 0
      /\ job[s].newrev \in 0..Current(L(s))
      /\ Current(R(s)) \in Nat /\ Current(L(s)) \in Nat
  BY <1>1, JobFields, Revisions DEF NumberInv, TypeOK, JobsType
<1>3. \A n \in Nat : \A k \in 0..n : k # 0 => k \in 1..n
  OBVIOUS
<1>4. Current(R(s)) \in 0..Current(R(s))
  BY <1>2
<1> QED BY <1>1, <1>2, <1>3, <1>4

LEMMA MergeTagTyped ==
  ASSUME TypeInv, NEW s \in Sync, MergeTag(s) PROVE TypeInv'
<1> DEFINE j == [job[s] EXCEPT !.last = Answer(s)]
<1>1. /\ TypeOK /\ NumberInv(s) /\ job[s] \in Jobs /\ raced' \in BOOLEAN /\ Extends
      /\ R(s) \in Wiki /\ L(s) = Other(R(s)) /\ "both" \in Dirs /\ R(s) = Other(job[s].wiki)
  BY JobFields, SameExtends DEF TypeInv, MergeTag, TypeOK, ObservedType, Dirs, R
<1>2. /\ tags' = [tags EXCEPT ![R(s)] = Append(@, Tag(job[s].newrev, Current(R(s)), "both"))]
      /\ job' = [job EXCEPT ![s] = j] /\ stage' = [stage EXCEPT ![s] = "answer"]
      /\ stage[s] = "merge tag" /\ UNCHANGED <<revs, changes, made, quiet, synced>>
  BY DEF MergeTag, Goto, bounds
<1>3. PagesType'
  BY <1>1, <1>2, MergeTagNumbers, TagTyped
<1>4. j \in Jobs
  BY <1>1, Revisions DEF Jobs, Answer
<1>5. PICK k \in Jobs : k = j
  BY <1>4
<1>6. /\ {k.lrev, k.base, k.newrev} \subseteq 0..Current(k.wiki)'
      /\ {k.rrev, k.from, k.last} \subseteq 0..Current(Other(k.wiki))'
  <2>1. /\ {k.lrev, k.base, k.newrev} \subseteq 0..Current(k.wiki)
        /\ {k.rrev, k.from, k.last} \subseteq 0..Current(Other(k.wiki))
    BY <1>1, <1>5, Revisions DEF TypeOK, JobsType, L, R, Answer
  <2> QED BY <1>2, <2>1 DEF Current
<1>7. NumberInv(s)'
  BY <1>1, <1>2 DEF NumberInv, TypeOK, JobsType, Jobs
<1>8. job' = [job EXCEPT ![s] = k]
  BY <1>2, <1>5
<1> HIDE DEF j
<1> QED BY <1>1, <1>2, <1>3, <1>6, <1>7, <1>8, StepTyped DEF TypeOK, ObservedType, Stages

\* A step that deletes the page.
LEMMA DeletingTyped ==
  ASSUME TypeInv, NEW s \in Sync, DeleteLocal(s) \/ MergeDelete(s) PROVE TypeInv'
<1>1. PICK w \in Wiki :
        /\ Write(w, NoText) /\ Disturb(s) /\ stage[s] # "number"
        /\ stage' = [stage EXCEPT ![s] = "finished"] /\ job' = job
        /\ UNCHANGED <<tags, changes, made, raced>>
  BY JobFields DEF TypeInv, DeleteLocal, MergeDelete, Goto, bounds
<1>2. TypeOK /\ raced' \in BOOLEAN /\ "finished" \in Stages
  BY <1>1 DEF TypeInv, TypeOK, ObservedType, Stages
<1>3. /\ job' = [job EXCEPT ![s] = job[s]] /\ job[s] \in Jobs
      /\ {job[s].lrev, job[s].base, job[s].newrev} \subseteq 0..Current(job[s].wiki)
      /\ {job[s].rrev, job[s].from, job[s].last} \subseteq 0..Current(Other(job[s].wiki))
  BY <1>1, <1>2 DEF TypeOK, JobsType, L, R
<1>4. NumberInv(s)'
  BY <1>1, <1>3, NothingPromised
<1> QED BY <1>1, <1>2, <1>3, <1>4, WriteTyped

\* A step that only sets the last number, or lets go of the roll back.
LEMMA DeleteRemoteTyped ==
  ASSUME TypeInv, NEW s \in Sync, DeleteRemote(s) PROVE TypeInv'
<1> DEFINE j == [job[s] EXCEPT !.last = job[s].rrev]
<1>1. TypeOK /\ NumberInv(s) /\ job[s] \in Jobs /\ raced' \in BOOLEAN
  BY JobFields DEF TypeInv, DeleteRemote, Reads, observed, TypeOK, ObservedType
<1>2. /\ job' = [job EXCEPT ![s] = j] /\ stage' = [stage EXCEPT ![s] = "check delete"]
      /\ stage[s] = "page" /\ UNCHANGED <<revs, tags, changes, made, quiet, synced>>
  BY DEF DeleteRemote, Goto, Reads, bounds, observed
<1>3. j \in Jobs
  BY <1>1 DEF Jobs
<1>4. /\ {j.lrev, j.base, j.newrev} \subseteq 0..Current(j.wiki)
      /\ {j.rrev, j.from, j.last} \subseteq 0..Current(Other(j.wiki))
  BY <1>1 DEF TypeOK, JobsType, L, R
<1>5. NumberInv(s)'
  BY <1>1, <1>2, <1>3, NothingPromised DEF Jobs
<1> QED BY <1>1, <1>2, <1>3, <1>4, <1>5, ReadTyped DEF Stages

LEMMA AcceptTyped ==
  ASSUME TypeInv, NEW s \in Sync, Accept(s) PROVE TypeInv'
<1> DEFINE j == [job[s] EXCEPT !.done = FALSE]
<1>1. TypeOK /\ NumberInv(s) /\ job[s] \in Jobs /\ raced' \in BOOLEAN
  BY JobFields DEF TypeInv, Accept, Reads, observed, TypeOK, ObservedType
<1>2. /\ job' = [job EXCEPT ![s] = j] /\ stage' = [stage EXCEPT ![s] = "tag"]
      /\ stage[s] = "answer" /\ UNCHANGED <<revs, tags, changes, made, quiet, synced>>
  BY DEF Accept, Goto, Reads, bounds, observed
<1>3. j \in Jobs
  BY <1>1 DEF Jobs
<1>4. /\ {j.lrev, j.base, j.newrev} \subseteq 0..Current(j.wiki)
      /\ {j.rrev, j.from, j.last} \subseteq 0..Current(Other(j.wiki))
  BY <1>1 DEF TypeOK, JobsType, L, R
<1>5. NumberInv(s)'
  BY <1>1, <1>2 DEF NumberInv, TypeOK, JobsType, Jobs
<1> QED BY <1>1, <1>2, <1>3, <1>4, <1>5, ReadTyped DEF Stages

\* The local tag is added with numbers of revisions, or the assertion fails.
LEMMA AddTagNumbers ==
  ASSUME TypeInv, NEW s \in Sync, AddTag(s), Numbered(job[s].last)
  PROVE  /\ stage[s] = "tag"
         /\ job[s].newrev \in 1..Current(L(s)) /\ job[s].last \in 1..Current(R(s))
<1>1. TypeOK /\ NumberInv(s) /\ stage[s] = "tag"
  BY DEF TypeInv, AddTag, Goto
<1>2. /\ job[s].newrev # 0 /\ job[s].last # 0
      /\ job[s].newrev \in 0..Current(L(s)) /\ job[s].last \in 0..Current(R(s))
      /\ Current(R(s)) \in Nat /\ Current(L(s)) \in Nat
  BY <1>1, JobFields, Revisions DEF NumberInv, TypeOK, JobsType, Numbered
<1> QED BY <1>1, <1>2

LEMMA AddTagTyped ==
  ASSUME TypeInv, NEW s \in Sync, AddTag(s) PROVE TypeInv'
<1> DEFINE j == [job[s] EXCEPT !.done = FALSE]
<1>1. /\ TypeOK /\ NumberInv(s) /\ job[s] \in Jobs /\ Extends /\ job[s].dir \in Dirs
      /\ L(s) \in Wiki /\ R(s) = Other(L(s))
  BY JobFields, SameExtends DEF TypeInv, AddTag, Jobs
<1>2. PICK to \in {"finished", "skipped"} :
        /\ stage[s] = "tag" /\ stage' = [stage EXCEPT ![s] = to]
        /\ job' = [job EXCEPT ![s] = j]
        /\ UNCHANGED <<revs, changes, made, raced, quiet, synced>>
        /\ tags' = IF Numbered(job[s].last)
                   THEN [tags EXCEPT ![L(s)] = Append(@, Tag(job[s].last, job[s].newrev, job[s].dir))]
                   ELSE tags
  BY DEF AddTag, Goto, bounds, observed
<1>3. PagesType'
  <2>1. CASE Numbered(job[s].last)
    BY <1>1, <1>2, <2>1, AddTagNumbers, TagTyped
  <2>2. CASE ~Numbered(job[s].last)
    BY <1>1, <1>2, <2>2 DEF TypeOK, PagesType, Current, Text
  <2> QED BY <2>1, <2>2
<1>4. j \in Jobs
  BY <1>1 DEF Jobs
<1>5. PICK k \in Jobs : k = j
  BY <1>4
<1>6. /\ {k.lrev, k.base, k.newrev} \subseteq 0..Current(k.wiki)'
      /\ {k.rrev, k.from, k.last} \subseteq 0..Current(Other(k.wiki))'
  <2>1. /\ {k.lrev, k.base, k.newrev} \subseteq 0..Current(k.wiki)
        /\ {k.rrev, k.from, k.last} \subseteq 0..Current(Other(k.wiki))
    BY <1>1, <1>5 DEF TypeOK, JobsType, L, R
  <2> QED BY <1>2, <2>1 DEF Current
<1>7. NumberInv(s)'
  BY <1>1, <1>2 DEF NumberInv, TypeOK, JobsType, Jobs
<1>8. job' = [job EXCEPT ![s] = k]
  BY <1>2, <1>5
<1> HIDE DEF j
<1> QED BY <1>1, <1>2, <1>3, <1>6, <1>7, <1>8, StepTyped DEF TypeOK, ObservedType, Stages

LEMMA StartTyped ==
  ASSUME TypeInv, NEW s \in Sync, NEW w \in Wiki, NEW dir \in Dirs, Start(s, w, dir)
  PROVE  TypeInv'
<1> DEFINE deleted == Deleted(w)
           j == [NoJob EXCEPT !.wiki = w, !.dir = dir, !.lrev = Current(w), !.ldel = deleted]
<1>1. TypeOK /\ raced' \in BOOLEAN /\ Extends /\ "list" \in Stages
  BY SameExtends DEF TypeInv, Start, observed, TypeOK, ObservedType, Stages
<1>2. /\ job' = [job EXCEPT ![s] = j] /\ stage' = [stage EXCEPT ![s] = "list"]
      /\ UNCHANGED <<revs, tags, changes, made, synced>>
  BY DEF Start, Goto, observed
<1>3. quiet' \in [Sync -> BOOLEAN] /\ synced' \in BOOLEAN
  BY <1>1 DEF Start, TypeOK, ObservedType
<1>4. deleted \in BOOLEAN
  BY DEF Deleted
<1> HIDE DEF deleted
<1>5. j \in Jobs /\ j.done = FALSE
  BY <1>1, <1>4, NoJobTyped, Revisions DEF Jobs, NoJob
<1>9. PICK k \in Jobs : k = j
  BY <1>5
<1>6. /\ {k.lrev, k.base, k.newrev} \subseteq 0..Current(k.wiki)'
      /\ {k.rrev, k.from, k.last} \subseteq 0..Current(Other(k.wiki))'
  <2>1. /\ k.wiki = w /\ k.lrev = Current(w) /\ k.base = 0 /\ k.newrev = 0 /\ k.rrev = 0
        /\ k.from = 0 /\ k.last = 0
    BY <1>9 DEF NoJob
  <2>2. \A v \in Wiki : Current(v)' = Current(v) /\ Current(v) \in Nat
    BY <1>1, <1>2, Revisions DEF Current
  <2> HIDE DEF j
  <2> QED BY <2>1, <2>2, TwoWikis
<1>7. NumberInv(s)'
  BY <1>1, <1>2, <1>5 DEF NumberInv, TypeOK, JobsType
<1>8. PagesType'
  BY <1>1, <1>2 DEF TypeOK, PagesType, Current, Text
<1> HIDE DEF j
<1> QED BY <1>1, <1>2, <1>3, <1>6, <1>7, <1>8, <1>9, StepTyped

\* A synchronisation that is over has no job.
LEMMA OverTyped ==
  ASSUME TypeInv, NEW s \in Sync, stage' = [stage EXCEPT ![s] = "idle"],
         job' = [job EXCEPT ![s] = NoJob]
  PROVE  /\ NumberInv(s)' /\ NoJob \in Jobs /\ "idle" \in Stages
         /\ \A w \in Wiki : Current(w) \in Nat
              => /\ {NoJob.lrev, NoJob.base, NoJob.newrev} \subseteq 0..Current(w)
                 /\ {NoJob.rrev, NoJob.from, NoJob.last} \subseteq 0..Current(w)
         /\ NoJob.wiki \in Wiki /\ Other(NoJob.wiki) \in Wiki
<1>1. NoJob \in Jobs
  BY NoJobTyped DEF TypeInv
<1>2. stage'[s] = "idle" /\ job'[s] = NoJob
  BY DEF TypeInv, TypeOK, JobsType
<1>3. NoJob.done = FALSE
  BY DEF NoJob
<1>4. NumberInv(s)'
  BY <1>2, <1>3 DEF NumberInv
<1>5. \A w \in Wiki : Current(w) \in Nat
              => /\ {NoJob.lrev, NoJob.base, NoJob.newrev} \subseteq 0..Current(w)
                 /\ {NoJob.rrev, NoJob.from, NoJob.last} \subseteq 0..Current(w)
  BY DEF NoJob
<1>6. NoJob.wiki \in Wiki /\ Other(NoJob.wiki) \in Wiki
  BY <1>1, TwoWikis DEF Jobs
<1> QED BY <1>1, <1>4, <1>5, <1>6 DEF Stages

LEMMA DieTyped ==
  ASSUME TypeInv, NEW s \in Sync, Die(s) PROVE TypeInv'
<1>1. /\ stage' = [stage EXCEPT ![s] = "idle"] /\ job' = [job EXCEPT ![s] = NoJob]
      /\ UNCHANGED <<revs, tags, changes, made, raced, quiet, synced>>
  BY DEF Die, observed
<1>2. TypeOK /\ raced' \in BOOLEAN
  BY <1>1 DEF TypeInv, TypeOK, ObservedType
<1>3. /\ {NoJob.lrev, NoJob.base, NoJob.newrev} \subseteq 0..Current(NoJob.wiki)
      /\ {NoJob.rrev, NoJob.from, NoJob.last} \subseteq 0..Current(Other(NoJob.wiki))
  <2>1. NoJob.wiki \in Wiki /\ Other(NoJob.wiki) \in Wiki
    BY <1>1, OverTyped
  <2>2. Current(NoJob.wiki) \in Nat /\ Current(Other(NoJob.wiki)) \in Nat
    BY <1>2, <2>1, Revisions
  <2> QED BY <1>1, <2>1, <2>2, OverTyped
<1> QED BY <1>1, <1>2, <1>3, OverTyped, ReadTyped

LEMMA FinishTyped ==
  ASSUME TypeInv, NEW s \in Sync, Finish(s) PROVE TypeInv'
<1>1. /\ stage' = [stage EXCEPT ![s] = "idle"] /\ job' = [job EXCEPT ![s] = NoJob]
      /\ stage[s] \in {"finished", "skipped", "failed"}
      /\ UNCHANGED <<tags, changes, made, raced>>
  BY DEF Finish, bounds
<1>2. TypeOK /\ raced' \in BOOLEAN /\ NumberInv(s)
  BY <1>1 DEF TypeInv, TypeOK, ObservedType
<1>3. /\ {NoJob.lrev, NoJob.base, NoJob.newrev} \subseteq 0..Current(NoJob.wiki)
      /\ {NoJob.rrev, NoJob.from, NoJob.last} \subseteq 0..Current(Other(NoJob.wiki))
  <2>1. NoJob.wiki \in Wiki /\ Other(NoJob.wiki) \in Wiki
    BY <1>1, OverTyped
  <2>2. Current(NoJob.wiki) \in Nat /\ Current(Other(NoJob.wiki)) \in Nat
    BY <1>2, <2>1, Revisions
  <2> QED BY <1>1, <2>1, <2>2, OverTyped
<1>4. CASE revs' = revs /\ quiet' \in [Sync -> BOOLEAN] /\ synced' \in BOOLEAN
  <2>1. Extends
    BY <1>2, <1>4, SameExtends
  <2>2. PagesType'
    BY <1>1, <1>2, <1>4 DEF TypeOK, PagesType, Current, Text
  <2>3. /\ {NoJob.lrev, NoJob.base, NoJob.newrev} \subseteq 0..Current(NoJob.wiki)'
        /\ {NoJob.rrev, NoJob.from, NoJob.last} \subseteq 0..Current(Other(NoJob.wiki))'
    BY <1>3, <1>4 DEF Current
  <2> QED BY <1>1, <1>2, <1>4, <2>1, <2>2, <2>3, OverTyped, StepTyped
<1>5. CASE job[s].done /\ stage[s] # "finished" /\ revs' # revs
  <2>1. PICK w \in Wiki : w = L(s)
    BY <1>2, JobFields
  <2> DEFINE old == BodyOf(w, job[s].newrev - 1)
             text == IF old = {} THEN NoText ELSE old
  <2>2. Write(w, text) /\ Disturb(s)
    BY <1>5, <2>1 DEF Finish, RollBack
  <2>3. old \in Text
    <3>1. job[s].newrev \in 0..Current(w) /\ job[s].newrev # 0 /\ Current(w) \in Nat
      BY <1>1, <1>2, <1>5, <2>1, Revisions DEF NumberInv, TypeOK, JobsType
    <3> QED BY <1>2, <3>1, Texts
  <2>4. text \in Text \cup {NoText}
    BY <2>3
  <2> HIDE DEF text
  <2> QED BY <1>1, <1>2, <1>3, <2>2, <2>4, OverTyped, WriteTyped
<1> QED BY <1>1, <1>2, <1>4, <1>5 DEF Finish, RollBack, Disturb, TypeOK, ObservedType

\* What a user does to a page.
LEMMA ChangeTyped ==
  ASSUME TypeInv, NEW w \in Wiki, NEW text, text \in Text' \cup {NoText},
         Change(w, text), made' \subseteq 1..changes'
  PROVE  TypeInv'
<1>1. /\ TypeOK /\ changes \in Nat /\ changes' = changes + 1 /\ Write(w, text)
      /\ UNCHANGED <<tags, stage, job, raced>>
      /\ quiet' \in [Sync -> BOOLEAN] /\ synced' \in BOOLEAN
  BY DEF TypeInv, TypeOK, ObservedType, Change
<1>2. revs' \in [Wiki -> Seq(Text' \cup {NoText})] /\ Extends
  BY <1>1, WriteFrame
<1>3. PagesType'
  BY <1>1, <1>2, TagsStayTyped
<1>4. Jobs \subseteq Jobs'
  <2>1. Text \subseteq Text'
    BY <1>1 DEF Text
  <2> QED BY <2>1 DEF Jobs
<1>5. ASSUME NEW t \in Sync
      PROVE  /\ {job'[t].lrev, job'[t].base, job'[t].newrev} \subseteq 0..Current(L(t))'
             /\ {job'[t].rrev, job'[t].from, job'[t].last} \subseteq 0..Current(R(t))'
  <2>1. /\ {job[t].lrev, job[t].base, job[t].newrev} \subseteq 0..Current(L(t))
        /\ {job[t].rrev, job[t].from, job[t].last} \subseteq 0..Current(R(t))
    BY <1>1 DEF TypeOK, JobsType
  <2>2. L(t)' = L(t) /\ R(t)' = R(t)
    BY <1>1 DEF L, R
  <2>3. /\ Current(L(t)) <= Current(L(t))' /\ Current(R(t)) <= Current(R(t))'
        /\ Current(L(t))' \in Nat /\ Current(R(t))' \in Nat
        /\ Current(L(t)) \in Nat /\ Current(R(t)) \in Nat
    BY <1>1, <1>2, <2>2, JobFields, Revisions DEF Extends, Current
  <2> QED BY <1>1, <2>1, <2>3
<1>6. JobsType'
  BY <1>1, <1>4, <1>5 DEF TypeOK, JobsType
<1>7. ObservedType'
  BY <1>1 DEF TypeOK, ObservedType
<1>8. \A t \in Sync : NumberInv(t)'
  BY <1>1, <1>2, NumbersStay
<1> QED BY <1>3, <1>6, <1>7, <1>8 DEF TypeInv, TypeOK

LEMMA UsersTyped ==
  ASSUME TypeInv, NEW w \in Wiki, Edit(w) \/ Resolve(w) \/ Delete(w) PROVE TypeInv'
<1>1. TypeOK /\ changes \in Nat /\ made \subseteq 1..changes /\ Body(w) \in Text
  BY Texts DEF TypeInv, TypeOK, ObservedType
<1>2. PICK text : Change(w, text) /\ text \in {Body(w) \cup {changes + 1}, Body(w) \ {Mark}, NoText}
  BY DEF Edit, Resolve, Delete
<1>3. changes' = changes + 1 /\ made' \subseteq made \cup {changes + 1}
  BY <1>2 DEF Change, Edit, Resolve, Delete
<1>4. text \in Text' \cup {NoText}
  <2>1. Text' = SUBSET (1..(changes + 1) \cup {Mark})
    BY <1>3 DEF Text
  <2>2. Body(w) \subseteq 1..changes \cup {Mark}
    BY <1>1 DEF Text
  <2>3. Body(w) \cup {changes + 1} \in Text' /\ Body(w) \ {Mark} \in Text'
    BY <1>1, <2>1, <2>2
  <2> QED BY <1>2, <2>3
<1>5. made' \subseteq 1..changes'
  BY <1>1, <1>3
<1> QED BY <1>2, <1>4, <1>5, ChangeTyped

LEMMA InitTyped == Init => TypeInv
<1> SUFFICES ASSUME Init PROVE TypeInv
  OBVIOUS
<1>1. PagesType
  <2>1. \A w \in Wiki : revs[w] = <<>> /\ tags[w] = <<>>
    BY DEF Init
  <2> QED BY <2>1 DEF Init, PagesType
<1>2. ObservedType
  BY DEF Init, ObservedType
<1>3. NoJob \in Jobs
  <2>1. (CHOOSE w \in Wiki : TRUE) \in Wiki
    BY SyncAssumption
  <2> QED BY <2>1 DEF NoJob, Jobs, Dirs, Text
<1>4. \A s \in Sync : job[s] = NoJob /\ stage[s] = "idle"
  BY DEF Init
<1>5. ASSUME NEW s \in Sync
      PROVE  /\ {job[s].lrev, job[s].base, job[s].newrev} \subseteq 0..Current(L(s))
             /\ {job[s].rrev, job[s].from, job[s].last} \subseteq 0..Current(R(s))
             /\ NumberInv(s)
  <2>1. /\ NoJob.lrev = 0 /\ NoJob.base = 0 /\ NoJob.newrev = 0 /\ NoJob.rrev = 0
        /\ NoJob.from = 0 /\ NoJob.last = 0 /\ NoJob.done = FALSE
    BY DEF NoJob
  <2>2. L(s) \in Wiki /\ R(s) \in Wiki
    BY <1>3, <1>4, TwoWikis DEF L, R, Jobs
  <2>3. Current(L(s)) = 0 /\ Current(R(s)) = 0
    BY <2>2 DEF Init, Current
  <2>4. NumberInv(s)
    BY <1>4, <2>1 DEF NumberInv
  <2> QED BY <1>4, <2>1, <2>3, <2>4
<1>6. JobsType
  BY <1>3, <1>4, <1>5 DEF Init, JobsType, Stages
<1> QED BY <1>1, <1>2, <1>5, <1>6 DEF TypeInv, TypeOK

LEMMA NextTyped == TypeInv /\ [Next]_vars => TypeInv'
<1> SUFFICES ASSUME TypeInv, [Next]_vars PROVE TypeInv'
  OBVIOUS
<1>1. CASE \E w \in Wiki : Edit(w) \/ Resolve(w) \/ Delete(w)
  BY <1>1, UsersTyped
<1>2. ASSUME NEW s \in Sync, NEW w \in Wiki, NEW dir \in {"both", "down"}, Start(s, w, dir)
      PROVE  TypeInv'
  BY <1>2, StartTyped DEF Dirs
<1>3. ASSUME NEW s \in Sync, Step(s) PROVE TypeInv'
  <2>1. Skip(s) => TypeInv'
    BY EndTyped DEF Skip, Goto, Reads, bounds, observed
  <2> QED BY <1>3, <2>1, ListRemoteTyped, DeletingTyped, DeleteRemoteTyped, BeginTyped,
             ReadDiffTyped, ReadDiffNumberTyped, ReadBodyTyped, SaveLocalTyped,
             ReadNumberTyped, CheckTyped, MergeDiffTyped, MergeTagTyped, AcceptTyped,
             AddTagTyped, FinishTyped DEF Step
<1>4. ASSUME NEW s \in Sync, CallFails(s) PROVE TypeInv'
  BY <1>4, EndTyped DEF CallFails, Fails, Calling, observed
<1>5. ASSUME NEW s \in Sync, Misled(s) PROVE TypeInv'
  BY <1>5, EndTyped DEF Misled, observed
<1>6. ASSUME NEW s \in Sync, Die(s) PROVE TypeInv'
  BY <1>6, DieTyped
<1>7. CASE UNCHANGED vars
  BY <1>7 DEF vars, bounds, observed, TypeInv, TypeOK, PagesType, JobsType, ObservedType,
              NumberInv, Jobs, Text, Current, L, R
<1> QED BY <1>1, <1>2, <1>3, <1>4, <1>5, <1>6, <1>7 DEF Next

\* Types, the numbers in jobs and tags included: whatever synchronisations overlap,
\* fail or die, a number that the code keeps is that of a revision that exists.
THEOREM TypeCorrect == Spec => []TypeOK
<1>1. Spec => []TypeInv
  BY InitTyped, NextTyped, PTL DEF Spec
<1>2. TypeInv => TypeOK
  BY DEF TypeInv
<1> QED BY <1>1, <1>2, PTL

------------------------------------------------------------------------------
(* What synchronisations know: facts that later steps keep. *)

\* A step that nobody raced with: pages grow, what was dropped stays so.
Grows == TypeInv /\ TypeInv' /\ Extends /\ dropped \subseteq dropped' /\ (raced => raced')

\* A job's numbers, of revisions of its two wikis.
NumbersOf(st, j, l, r) ==
  /\ l \in Wiki /\ r \in Wiki /\ j \in Jobs
  /\ j.lrev \in 0..Current(l) /\ j.base \in 0..Current(l) /\ j.newrev \in 0..Current(l)
  /\ j.rrev \in 0..Current(r) /\ j.from \in 0..Current(r) /\ j.last \in 0..Current(r)
  /\ st \in {"check", "merge", "merge tag", "answer", "tag"} => j.newrev # 0

LEMMA JobNumbers ==
  ASSUME TypeInv, NEW s \in Sync
  PROVE  NumbersOf(stage[s], job[s], L(s), R(s))
BY JobFields DEF TypeInv, TypeOK, JobsType, NumbersOf, NumberInv

\* A synchronisation's knowledge in the next state, in terms of what it then is.
LEMMA NextClaims ==
  ASSUME NEW s \in Sync, NEW st, NEW j, NEW l, NEW r,
         stage'[s] = st, job'[s] = j, L(s)' = l, R(s)' = r
  PROVE  /\ Claims(s)' <=> Claim(st, j, l, r)'
         /\ ListedInv(s)' <=> Listed(j, l, r)'
<1>1. ListedInv(s)' <=> Listed(j, l, r)'
  BY DEF ListedInv, Listed
<1>2. BaseClaim(stage[s], job[s], L(s), R(s))' <=> BaseClaim(st, j, l, r)'
  BY DEF BaseClaim, BodyOf, Body, Exists, Current
<1>3. RemoteClaim(stage[s], job[s], R(s))' <=> RemoteClaim(st, j, r)'
  BY DEF RemoteClaim, BodyOf, Body, Exists, Current, Edits
<1>4. MergedClaim(stage[s], job[s], L(s))' <=> MergedClaim(st, j, l)'
  BY DEF MergedClaim, BodyOf, Body, Exists, Current, Edits
<1>5. SavedClaim(stage[s], job[s], L(s), R(s))' <=> SavedClaim(st, j, l, r)'
  BY DEF SavedClaim, BodyOf, Body, Exists, Current
<1>6. DeletingClaim(stage[s], job[s], L(s), R(s))' <=> DeletingClaim(st, j, l, r)'
  BY DEF DeletingClaim, BodyOf, Body, Exists, Current, Edits
<1> QED BY <1>1, <1>2, <1>3, <1>4, <1>5, <1>6 DEF Claims, Claim

\* A number that is not 0 is that of a revision.
LEMMA Positive == \A n \in Nat : \A k \in 0..n : k # 0 => k \in 1..n
OBVIOUS

\* The pages of the next state.
LEMMA NextRevisions ==
  ASSUME TypeOK', NEW w \in Wiki
  PROVE  /\ Current(w)' \in Nat /\ DOMAIN (revs'[w]) = 1..Current(w)'
         /\ revs'[w] = <<>> <=> Current(w)' = 0
<1>1. revs' \in [Wiki -> Seq(Text' \cup {NoText})]
  BY DEF TypeOK, PagesType
<1>2. revs'[w] \in Seq(Text' \cup {NoText})
  BY <1>1
<1> QED BY <1>2 DEF Current

\* Texts of a page that grows.
LEMMA GrownTexts ==
  ASSUME Grows, NEW w \in Wiki
  PROVE  /\ Current(w) \in Nat /\ Current(w)' \in Nat /\ Current(w) <= Current(w)'
         /\ \A n \in 1..Current(w) : revs'[w][n] = revs[w][n] /\ BodyOf(w, n)' = BodyOf(w, n)
         /\ Current(w)' = Current(w) => Body(w)' = Body(w)
<1>1. TypeOK /\ Extends /\ (TypeOK)'
  BY DEF Grows, TypeInv
<1>2. /\ Current(w) \in Nat /\ Current(w)' \in Nat /\ Current(w) <= Current(w)'
      /\ \A n \in 1..Current(w) : revs'[w][n] = revs[w][n] /\ BodyOf(w, n)' = BodyOf(w, n)
  BY <1>1, Revisions, TextsStay DEF Extends
<1>3. ASSUME Current(w)' = Current(w) PROVE Body(w)' = Body(w)
  <2>1. CASE Current(w) = 0
    <3>1. Body(w) = {} /\ revs'[w] = <<>>
      BY <1>1, <1>3, <2>1, Texts, NextRevisions
    <3> QED BY <3>1 DEF Body, Exists
  <2>2. CASE Current(w) # 0
    <3>1. Current(w) \in 1..Current(w)
      BY <1>2, <2>2
    <3>2. revs'[w][Current(w)'] = revs[w][Current(w)]
      BY <1>2, <1>3, <3>1
    <3>3. revs[w] # <<>> /\ revs'[w] # <<>>
      BY <1>1, <1>3, <2>2, Revisions, NextRevisions
    <3> QED BY <3>2, <3>3 DEF Body, Exists
  <2> QED BY <2>1, <2>2
<1> QED BY <1>2, <1>3

\* What a synchronisation knows stays true while the pages grow.
LEMMA ClaimStays ==
  ASSUME Grows, NEW st, NEW j, NEW l, NEW r, NumbersOf(st, j, l, r)
  PROVE  /\ Claim(st, j, l, r) => Claim(st, j, l, r)'
         /\ Listed(j, l, r) => Listed(j, l, r)'
<1>1. l \in Wiki /\ r \in Wiki
  BY DEF NumbersOf
<1>2. /\ Current(l) \in Nat /\ Current(l)' \in Nat /\ Current(l) <= Current(l)'
      /\ \A n \in 1..Current(l) : revs'[l][n] = revs[l][n] /\ BodyOf(l, n)' = BodyOf(l, n)
      /\ Current(l)' = Current(l) => Body(l)' = Body(l)
  BY <1>1, GrownTexts
<1>3. /\ Current(r) \in Nat /\ Current(r)' \in Nat /\ Current(r) <= Current(r)'
      /\ \A n \in 1..Current(r) : revs'[r][n] = revs[r][n] /\ BodyOf(r, n)' = BodyOf(r, n)
  BY <1>1, GrownTexts
<1>9. /\ j.lrev \in 0..Current(l) /\ j.base \in 0..Current(l) /\ j.newrev \in 0..Current(l)
      /\ j.rrev \in 0..Current(r) /\ j.from \in 0..Current(r) /\ j.last \in 0..Current(r)
  BY DEF NumbersOf
<1>10. /\ j.base # 0 => j.base \in 1..Current(l)
       /\ j.newrev # 0 => j.newrev \in 1..Current(l)
       /\ j.lrev # 0 => j.lrev \in 1..Current(l)
       /\ j.from # 0 => j.from \in 1..Current(r)
       /\ j.last # 0 => j.last \in 1..Current(r)
       /\ j.rrev # 0 => j.rrev \in 1..Current(r)
  BY <1>2, <1>3, <1>9, Positive
<1>4. /\ Current(l)' = j.lrev => Current(l) = j.lrev
      /\ Current(r) # 0 => Current(r)' # 0
      /\ dropped \subseteq dropped'
  <2>1. Current(l)' = j.lrev => Current(l) = j.lrev
    BY <1>2, <1>9
  <2>2. Current(r) # 0 => Current(r)' # 0
    BY <1>3
  <2> QED BY <2>1, <2>2 DEF Grows
<1>5. /\ j.base # 0 => BodyOf(l, j.base)' = BodyOf(l, j.base)
      /\ j.newrev # 0 => BodyOf(l, j.newrev)' = BodyOf(l, j.newrev)
      /\ j.lrev # 0 => revs'[l][j.lrev] = revs[l][j.lrev]
  BY <1>2, <1>10
<1>6. /\ j.from # 0 => BodyOf(r, j.from)' = BodyOf(r, j.from)
      /\ j.last # 0 => BodyOf(r, j.last)' = BodyOf(r, j.last)
      /\ j.rrev # 0 => revs'[r][j.rrev] = revs[r][j.rrev]
  BY <1>3, <1>10
<1>7. Listed(j, l, r) => Listed(j, l, r)'
  BY <1>5, <1>6 DEF Listed
<1>8. ASSUME Claim(st, j, l, r) PROVE Claim(st, j, l, r)'
  <2>1. BaseClaim(st, j, l, r)'
    BY <1>5, <1>6, <1>8 DEF Claim, BaseClaim
  <2>2. RemoteClaim(st, j, r)'
    BY <1>4, <1>6, <1>8 DEF Claim, RemoteClaim
  <2>3. MergedClaim(st, j, l)'
    BY <1>2, <1>4, <1>8 DEF Claim, MergedClaim
  <2>4. SavedClaim(st, j, l, r)'
    BY <1>5, <1>6, <1>8 DEF Claim, SavedClaim, NumbersOf
  <2>5. DeletingClaim(st, j, l, r)'
    BY <1>2, <1>4, <1>6, <1>8 DEF Claim, DeletingClaim
  <2> QED BY <2>1, <2>2, <2>3, <2>4, <2>5 DEF Claim
<1> QED BY <1>7, <1>8

\* At its ends a synchronisation claims nothing.
LEMMA NothingClaimed ==
  ASSUME NEW st \in {"idle", "list", "page", "finished", "skipped", "failed"},
         NEW j, NEW l, NEW r
  PROVE  Claim(st, j, l, r)
BY DEF Claim, BaseClaim, RemoteClaim, MergedClaim, SavedClaim, DeletingClaim

\* Tags that agreed do.
LEMMA TagsStay ==
  ASSUME Grows, TagsAgree, ~raced', tags' = tags PROVE TagsAgree'
<1>1. ~raced /\ TypeOK
  BY DEF Grows, TypeInv
<1>2. ASSUME NEW w \in Wiki, NEW i \in DOMAIN tags[w], tags[w][i].dir = "both"
      PROVE  revs'[w][tags[w][i].cur] = revs'[Other(w)][tags[w][i].rem]
  <2>1. tags[w][i].cur \in 1..Current(w) /\ tags[w][i].rem \in 1..Current(Other(w))
    BY <1>1 DEF TypeOK, PagesType
  <2>2. revs[w][tags[w][i].cur] = revs[Other(w)][tags[w][i].rem]
    BY <1>1, <1>2 DEF TagsAgree
  <2> QED BY <2>1, <2>2, TwoWikis, GrownTexts
<1> QED BY <1>2 DEF TagsAgree

\* Edits are kept if what goes is dropped.
LEMMA KeptStays ==
  ASSUME Grows, Kept, revs' = revs PROVE Kept'
<1>1. \A w, n : BodyOf(w, n)' = BodyOf(w, n)
  BY DEF BodyOf, Body, Exists, Current
<1> QED BY <1>1 DEF Kept, Grows

LEMMA KeptByWrite ==
  ASSUME Grows, Kept, changes' \in Nat, changes <= changes', NEW w \in Wiki,
         NEW text, text \in Text' \cup {NoText}, Write(w, text),
         NEW body, body = IF text = NoText THEN {} ELSE text,
         Edits(Body(w)) \subseteq body \cup dropped'
  PROVE  Kept'
<1>1. TypeOK /\ TypeOK' /\ Extends /\ dropped \subseteq dropped'
  BY DEF Grows, TypeInv
<1>2. /\ Current(w)' = Current(w) + 1 /\ revs'[w][Current(w) + 1] = text
      /\ revs'[Other(w)] = revs[Other(w)] /\ Current(Other(w))' = Current(Other(w))
  BY <1>1, WriteFrame
<1>3. \A v \in Wiki : /\ DOMAIN revs[v] = 1..Current(v) /\ Current(v) \in Nat
                      /\ DOMAIN (revs'[v]) = 1..Current(v)' /\ Current(v)' \in Nat
  BY <1>1, Revisions, NextRevisions
<1>4. \A v \in Wiki : \A n \in 1..Current(v) : BodyOf(v, n)' = BodyOf(v, n)
  BY GrownTexts
<1>5. ASSUME NEW v \in Wiki, NEW n \in 1..Current(v), NEW m \in 1..Current(v), n <= m
      PROVE  Edits(BodyOf(v, n))' \subseteq (BodyOf(v, m) \cup dropped)'
  <2>1. Edits(BodyOf(v, n)) \subseteq BodyOf(v, m) \cup dropped
    BY <1>3, <1>5 DEF Kept
  <2> QED BY <1>1, <1>4, <2>1 DEF Edits
<1>6. \A m \in Nat : m = Current(w) + 1 => BodyOf(w, m)' = body
  BY <1>2, <1>3 DEF BodyOf
<1>7. ASSUME NEW n \in 1..Current(w)
      PROVE  Edits(BodyOf(w, n))' \subseteq body \cup dropped'
  <2>1. Current(w) \in 1..Current(w) /\ n <= Current(w) /\ Current(w) \in DOMAIN revs[w]
    BY <1>3, <1>7
  <2>2. Edits(BodyOf(w, n)) \subseteq Body(w) \cup dropped
    BY <1>1, <1>3, <2>1, Texts DEF Kept
  <2> QED BY <1>1, <1>4, <2>2 DEF Edits
<1>8. ASSUME NEW v \in Wiki, NEW n \in DOMAIN (revs'[v]), NEW m \in DOMAIN (revs'[v]), n <= m
      PROVE  Edits(BodyOf(v, n))' \subseteq (BodyOf(v, m) \cup dropped)'
  <2>1. CASE v # w
    <3>1. v = Other(w)
      BY <2>1, TwoWikis
    <3>2. n \in 1..Current(v) /\ m \in 1..Current(v)
      BY <1>2, <1>3, <3>1
    <3> QED BY <1>5, <1>8, <3>2
  <2>2. CASE v = w /\ m # Current(w) + 1
    <3>1. n \in 1..Current(v) /\ m \in 1..Current(v)
      BY <1>2, <1>3, <1>8, <2>2
    <3> QED BY <1>5, <1>8, <3>1
  <2>3. CASE v = w /\ m = Current(w) + 1 /\ n # m
    <3>1. n \in 1..Current(w)
      BY <1>2, <1>3, <1>8, <2>3
    <3>2. m \in Nat
      BY <1>3, <2>3
    <3>3. BodyOf(w, m)' = body
      BY <1>6, <2>3, <3>2
    <3> QED BY <1>7, <2>3, <3>1, <3>3
  <2>4. CASE n = m
    BY <2>4 DEF Edits
  <2> QED BY <2>1, <2>2, <2>3, <2>4
<1> QED BY <1>8 DEF Kept

------------------------------------------------------------------------------
(* Every step keeps what is known. *)

\* Every edit is where it was.
LEMMA MadeStays ==
  ASSUME Grows, MadeInv, NEW e \in made
  PROVE  \E w \in Wiki : \E n \in DOMAIN (revs'[w]) : e \in BodyOf(w, n)'
<1>1. PICK w \in Wiki : \E n \in DOMAIN revs[w] : e \in BodyOf(w, n)
  BY DEF MadeInv
<1>2. PICK n \in DOMAIN revs[w] : e \in BodyOf(w, n)
  BY <1>1
<1>3. n \in 1..Current(w)
  BY <1>2, Revisions DEF Grows, TypeInv
<1>4. BodyOf(w, n)' = BodyOf(w, n) /\ n \in 1..Current(w)'
  BY <1>3, GrownTexts
<1>5. n \in DOMAIN (revs'[w])
  BY <1>4, NextRevisions DEF Grows, TypeInv
<1> QED BY <1>2, <1>4, <1>5

\* A synchronisation knows what it knew while others run.
LEMMA KnownStays ==
  ASSUME Grows, SyncInv, NEW t \in Sync, stage'[t] = stage[t], job'[t] = job[t]
  PROVE  ListedInv(t)' /\ (~raced' => Claims(t)')
<1>1. TypeInv /\ (~raced' => ~raced)
  BY DEF Grows
<1>2. PICK u, i, a, b : u = stage[t] /\ i = job[t] /\ a = L(t) /\ b = R(t)
  OBVIOUS
<1>3. stage'[t] = u /\ job'[t] = i /\ L(t)' = a /\ R(t)' = b
  BY <1>2 DEF L, R
<1>4. NumbersOf(u, i, a, b)
  BY <1>1, <1>2, JobNumbers
<1>5. Listed(i, a, b) /\ (~raced => Claim(u, i, a, b))
  BY <1>2 DEF SyncInv, ListedInv, Claims
<1>6. Listed(i, a, b)' /\ (~raced' => Claim(u, i, a, b)')
  BY <1>1, <1>4, <1>5, ClaimStays
<1> QED BY <1>3, <1>6, NextClaims

\* A step of one synchronisation keeps what the others know.
LEMMA StepKnown ==
  ASSUME Grows, SyncInv, made' = made, NEW s \in Sync, NEW st, NEW j, NEW l, NEW r,
         stage' = [stage EXCEPT ![s] = st], job' = [job EXCEPT ![s] = j],
         l = j.wiki, r = Other(j.wiki), NumbersOf(st, j, l, r), Listed(j, l, r),
         ~raced' => Claim(st, j, l, r) /\ TagsAgree' /\ Kept'
  PROVE  SyncInv'
<1>1. stage \in [Sync -> Stages] /\ job \in [Sync -> Jobs]
  BY DEF Grows, TypeInv, TypeOK, JobsType
<1>2. MadeInv'
  BY MadeStays DEF SyncInv, MadeInv
<1>3. ASSUME NEW t \in Sync PROVE ListedInv(t)' /\ (~raced' => Claims(t)')
  <2>1. CASE t = s
    <3>1. /\ stage'[s] = st /\ job'[s] = j /\ L(s)' = l /\ R(s)' = r
      BY <1>1 DEF L, R
    <3>2. Listed(j, l, r)' /\ (~raced' => Claim(st, j, l, r)')
      BY ClaimStays
    <3> QED BY <2>1, <3>1, <3>2, NextClaims
  <2>2. CASE t # s
    BY <1>1, <2>2, KnownStays
  <2> QED BY <2>1, <2>2
<1> QED BY <1>2, <1>3 DEF SyncInv

\* One that reads only.
LEMMA ReadKnown ==
  ASSUME TypeInv, TypeInv', SyncInv, UNCHANGED <<revs, tags, changes, made, dropped>>,
         raced => raced', NEW s \in Sync, NEW st, NEW j, NEW l, NEW r,
         stage' = [stage EXCEPT ![s] = st], job' = [job EXCEPT ![s] = j],
         l = j.wiki, r = Other(j.wiki), Listed(j, l, r), ~raced' => Claim(st, j, l, r)
  PROVE  SyncInv'
<1>1. Grows /\ TypeOK /\ TypeOK' /\ (~raced' => ~raced)
  BY SameExtends DEF Grows, TypeInv
<1>2. ~raced' => TagsAgree' /\ Kept'
  BY <1>1, TagsStay, KeptStays DEF SyncInv
<1>3. NumbersOf(st, j, l, r)
  <2>1. stage'[s] = st /\ job'[s] = j /\ j \in Jobs
    <3>1. Jobs' = Jobs
      BY DEF Jobs, Text
    <3> QED BY <1>1, <3>1 DEF TypeOK, JobsType
  <2>2. l \in Wiki /\ r \in Wiki /\ L(s)' = l /\ R(s)' = r
    BY <2>1, TwoWikis DEF Jobs, L, R
  <2>3. /\ {j.lrev, j.base, j.newrev} \subseteq 0..Current(l)
        /\ {j.rrev, j.from, j.last} \subseteq 0..Current(r)
    BY <1>1, <2>1, <2>2 DEF TypeOK, JobsType, Current
  <2>4. st \in {"check", "merge", "merge tag", "answer", "tag"} => j.newrev # 0
    BY <2>1 DEF TypeInv, NumberInv
  <2> QED BY <2>1, <2>2, <2>3, <2>4 DEF NumbersOf
<1> QED BY <1>1, <1>2, <1>3, StepKnown

\* What a synchronisation itself knows.
LEMMA Knows ==
  ASSUME TypeInv, SyncInv, NEW s \in Sync, NEW i, NEW l, NEW r,
         i = job[s], l = L(s), r = R(s)
  PROVE  /\ i \in Jobs /\ l \in Wiki /\ r \in Wiki /\ l = i.wiki /\ r = Other(l) /\ l = Other(r)
         /\ NumbersOf(stage[s], i, l, r)
         /\ Listed(i, l, r)
         /\ ~raced => Claim(stage[s], i, l, r) /\ TagsAgree /\ Kept
<1>1. TypeOK
  BY DEF TypeInv
<1> QED BY <1>1, JobFields, JobNumbers DEF SyncInv, ListedInv, Claims, L, R

\* An end of a synchronisation, or a step back.
LEMMA EndKnown ==
  ASSUME TypeInv, TypeInv', SyncInv, UNCHANGED <<revs, tags, changes, made, dropped, raced>>,
         NEW s \in Sync, NEW st \in {"finished", "skipped", "failed"},
         stage' = [stage EXCEPT ![s] = st], job' = job
  PROVE  SyncInv'
<1>1. PICK i, l, r : i = job[s] /\ l = L(s) /\ r = R(s)
  OBVIOUS
<1>2. job' = [job EXCEPT ![s] = i]
  BY <1>1 DEF TypeInv, TypeOK, JobsType
<1>3. l = i.wiki /\ r = Other(i.wiki) /\ Listed(i, l, r)
  BY <1>1, Knows
<1>4. Claim(st, i, l, r)
  BY NothingClaimed
<1> QED BY <1>1, <1>2, <1>3, <1>4, ReadKnown

LEMMA StartKnown ==
  ASSUME TypeInv, TypeInv', SyncInv, NEW s \in Sync, NEW w \in Wiki, NEW dir, Start(s, w, dir)
  PROVE  SyncInv'
<1> DEFINE deleted == Deleted(w)
<1>1. job' = [job EXCEPT ![s] = [NoJob EXCEPT !.wiki = w, !.dir = dir, !.lrev = Current(w),
                                              !.ldel = deleted]]
  BY DEF Start
<1>2. deleted => Current(w) # 0 /\ revs[w][Current(w)] = NoText
  BY Texts DEF TypeInv
<1> HIDE DEF deleted
<1>3. PICK j : j = [NoJob EXCEPT !.wiki = w, !.dir = dir, !.lrev = Current(w), !.ldel = deleted]
  OBVIOUS
<1>4. j.wiki = w /\ j.lrev = Current(w) /\ (j.ldel <=> deleted) /\ ~j.rdel
  BY <1>3 DEF NoJob
<1>5. PICK l, r : l = j.wiki /\ r = Other(j.wiki)
  OBVIOUS
<1>6. Listed(j, l, r)
  BY <1>2, <1>4, <1>5 DEF Listed
<1>7. Claim("list", j, l, r)
  BY NothingClaimed
<1>8. job' = [job EXCEPT ![s] = j]
  BY <1>1, <1>3
<1>9. /\ UNCHANGED <<revs, tags, changes, made, dropped, raced>>
      /\ stage' = [stage EXCEPT ![s] = "list"]
  BY DEF Start, Goto, observed
<1> QED BY <1>5, <1>6, <1>7, <1>8, <1>9, ReadKnown

LEMMA ListRemoteKnown ==
  ASSUME TypeInv, TypeInv', SyncInv, NEW s \in Sync, ListRemote(s) PROVE SyncInv'
<1>1. PICK i, l, r : i = job[s] /\ l = L(s) /\ r = R(s)
  OBVIOUS
<1> DEFINE deleted == Deleted(r)
<1>2. deleted => Current(r) # 0 /\ revs[r][Current(r)] = NoText
  BY <1>1, Knows, Texts DEF TypeInv
<1>3. job' = [job EXCEPT ![s] = [i EXCEPT !.rrev = Current(r), !.rdel = deleted]]
  BY <1>1 DEF ListRemote
<1> HIDE DEF deleted
<1>4. PICK j : j = [i EXCEPT !.rrev = Current(r), !.rdel = deleted]
  OBVIOUS
<1>5. i \in Jobs /\ l = i.wiki /\ r = Other(i.wiki) /\ Listed(i, l, r)
  BY <1>1, Knows
<1>6. /\ j.wiki = i.wiki /\ j.lrev = i.lrev /\ j.ldel = i.ldel
      /\ j.rrev = Current(r) /\ (j.rdel <=> deleted)
  BY <1>4, <1>5 DEF Jobs
<1>7. Listed(j, l, r)
  BY <1>2, <1>5, <1>6 DEF Listed
<1>8. Claim("page", j, l, r)
  BY NothingClaimed
<1>9. job' = [job EXCEPT ![s] = j]
  BY <1>3, <1>4
<1>10. /\ UNCHANGED <<revs, tags, changes, made, dropped, raced>>
       /\ stage' = [stage EXCEPT ![s] = "page"]
  BY DEF ListRemote, Goto, Reads, bounds, observed
<1> QED BY <1>5, <1>6, <1>7, <1>8, <1>9, <1>10, ReadKnown

\* The newest tag names revisions of the same text, and what was in them is still in the
\* pages or was dropped.
LEMMA NewestAgrees ==
  ASSUME TypeInv, SyncInv, NEW s \in Sync, Tagged(s), NEW l, NEW r, l = L(s), r = R(s),
         NEW cur, NEW rem, cur = NewestTag(s).cur, rem = NewestTag(s).rem
  PROVE  /\ cur \in 1..Current(l) /\ rem \in 1..Current(r)
         /\ ~raced /\ job[s].dir = "both" => BodyOf(l, cur) = BodyOf(r, rem)
<1>1. TypeOK /\ l \in Wiki /\ r \in Wiki /\ r = Other(l)
  BY Knows DEF TypeInv
<1>2. /\ cur \in 1..Current(l) /\ rem \in 1..Current(r)
      /\ job[s].dir = "both" => NewestTag(s).dir = "both"
  BY <1>1, NewestNumbers
<1>3. PICK n \in DOMAIN tags[l] : NewestTag(s) = tags[l][n]
  BY <1>1, NewestNumbers
<1>4. ~raced /\ job[s].dir = "both" => revs[l][cur] = revs[r][rem]
  BY <1>1, <1>2, <1>3 DEF SyncInv, TagsAgree
<1>5. Current(l) \in Nat /\ Current(r) \in Nat
  BY <1>1, Revisions
<1>6. cur # 0 /\ rem # 0
  BY <1>2, <1>5
<1> QED BY <1>2, <1>4, <1>6 DEF BodyOf

\* What an earlier text had is in the page, or was dropped.
LEMMA StillKept ==
  ASSUME TypeInv, Kept, NEW w \in Wiki, NEW n \in 0..Current(w), n # 0,
         NEW m \in 0..Current(w), n <= m
  PROVE  Edits(BodyOf(w, n)) \subseteq BodyOf(w, m) \cup dropped
<1>1. DOMAIN revs[w] = 1..Current(w) /\ Current(w) \in Nat
  BY Revisions DEF TypeInv
<1>2. n \in 1..Current(w) /\ m \in 1..Current(w)
  BY <1>1
<1> QED BY <1>1, <1>2 DEF Kept

LEMMA NowKept ==
  ASSUME TypeInv, Kept, NEW w \in Wiki, NEW n \in 0..Current(w), n # 0
  PROVE  Edits(BodyOf(w, n)) \subseteq Body(w) \cup dropped
<1>1. Current(w) \in Nat /\ BodyOf(w, Current(w)) = Body(w)
  BY Revisions, Texts DEF TypeInv
<1>2. Current(w) \in 0..Current(w) /\ n <= Current(w)
  BY <1>1
<1> QED BY <1>1, <1>2, StillKept

LEMMA BeginKnown ==
  ASSUME TypeInv, TypeInv', SyncInv, NEW s \in Sync, Begin(s) PROVE SyncInv'
<1>1. PICK i, l, r : i = job[s] /\ l = L(s) /\ r = R(s)
  OBVIOUS
<1>2. PICK cur, rem : cur = NewestTag(s).cur /\ rem = NewestTag(s).rem
  OBVIOUS
<1>3. /\ i \in Jobs /\ l \in Wiki /\ r \in Wiki /\ l = i.wiki /\ r = Other(i.wiki)
      /\ Listed(i, l, r) /\ TypeOK /\ i.dir \in Dirs
      /\ i.lrev \in 0..Current(l) /\ i.rrev \in 0..Current(r)
  <2>1. /\ i \in Jobs /\ l \in Wiki /\ r \in Wiki /\ l = i.wiki /\ r = Other(i.wiki)
        /\ Listed(i, l, r) /\ NumbersOf(stage[s], i, l, r)
    BY <1>1, Knows
  <2>2. i.dir \in Dirs
    BY <2>1 DEF Jobs
  <2> QED BY <2>1, <2>2 DEF NumbersOf, TypeInv
<1> DEFINE tagged == Tagged(s)
           from == IF tagged /\ i.dir = "both" THEN rem ELSE 0
           diff == from # i.rrev /\ ~i.rdel
           old == IF tagged THEN BodyOf(l, cur) ELSE {}
           conf == from = i.rrev /\ Mark \in old
<1>4. PICK j : j = [i EXCEPT !.tagged = tagged, !.base = IF tagged THEN cur ELSE i.lrev,
                             !.old = old, !.from = from, !.diff = diff,
                             !.remote = IF i.rdel THEN {} ELSE old,
                             !.conf = conf, !.last = i.rrev]
  OBVIOUS
<1>5. PICK st : st = IF diff THEN "diff" ELSE "body"
  OBVIOUS
<1>6. /\ UNCHANGED <<revs, tags, changes, made, dropped, raced>>
      /\ stage' = [stage EXCEPT ![s] = st] /\ job' = [job EXCEPT ![s] = j]
  <2>1. job' = [job EXCEPT ![s].tagged = tagged, ![s].base = IF tagged THEN cur ELSE i.lrev,
                           ![s].old = old, ![s].from = from, ![s].diff = diff,
                           ![s].remote = IF i.rdel THEN {} ELSE old,
                           ![s].conf = conf, ![s].last = i.rrev]
    BY <1>1, <1>2 DEF Begin
  <2>2. stage' = [stage EXCEPT ![s] = st]
    BY <1>1, <1>2, <1>5 DEF Begin, Goto
  <2>3. UNCHANGED <<revs, tags, changes, made, dropped, raced>>
    BY DEF Begin, Reads, bounds, observed
  <2> HIDE DEF tagged, from, diff, old, conf
  <2>4. job' = [job EXCEPT ![s] = j]
    BY <1>1, <1>4, <2>1, ZenonT(40)
  <2> QED BY <2>2, <2>3, <2>4
<1>7. /\ tagged => cur \in 1..Current(l) /\ rem \in 1..Current(r)
      /\ tagged /\ ~raced /\ i.dir = "both" => BodyOf(l, cur) = BodyOf(r, rem)
  BY <1>1, <1>2, NewestAgrees
<1>8. tagged => cur # 0 /\ rem # 0
  <2>1. Current(l) \in Nat /\ Current(r) \in Nat
    BY <1>3, Revisions
  <2> QED BY <1>7, <2>1
<1>9. /\ j.wiki = i.wiki /\ j.dir = i.dir /\ j.lrev = i.lrev /\ j.ldel = i.ldel
      /\ j.rrev = i.rrev /\ j.rdel = i.rdel /\ (j.tagged <=> tagged)
      /\ j.base = (IF tagged THEN cur ELSE i.lrev) /\ j.old = old /\ j.from = from
      /\ (j.diff <=> diff) /\ j.remote = (IF i.rdel THEN {} ELSE old) /\ j.last = i.rrev
  <2> HIDE DEF tagged, from, diff, old, conf
  <2> QED BY <1>3, <1>4 DEF Jobs
<1>10. Listed(j, l, r)
  BY <1>3, <1>9 DEF Listed
<1>11. ASSUME ~raced PROVE Claim(st, j, l, r)
  <2>1. BaseClaim(st, j, l, r)
    BY <1>3, <1>7, <1>8, <1>9, <1>11 DEF BaseClaim, Dirs
  <2>2. RemoteClaim(st, j, r)
    <3>1. (st = "diff" /\ diff) \/ (st = "body" /\ ~diff)
      <4>1. diff \in BOOLEAN
        OBVIOUS
      <4> HIDE DEF diff
      <4> QED BY <1>5, <4>1
    <3>2. CASE st = "diff" /\ diff
      BY <1>9, <3>2 DEF RemoteClaim
    <3>3. CASE st = "body" /\ ~diff
      <4>1. i.dir = "both" => j.remote = IF i.rrev = 0 THEN {} ELSE BodyOf(r, i.rrev)
        <5>1. CASE i.rdel
          BY <1>3, <1>9, <5>1 DEF Listed, BodyOf
        <5>2. CASE ~i.rdel
          BY <1>7, <1>8, <1>9, <1>11, <3>3, <5>2
        <5> QED BY <5>1, <5>2
      <4> QED BY <1>9, <3>3, <4>1 DEF RemoteClaim
    <3> QED BY <3>1, <3>2, <3>3
  <2>3. st \in {"diff", "body"}
    BY <1>5
  <2> QED BY <2>1, <2>2, <2>3 DEF Claim, MergedClaim, SavedClaim, DeletingClaim
<1>12. ~raced' => Claim(st, j, l, r)
  BY <1>6, <1>11
<1>13. l = j.wiki /\ r = Other(j.wiki)
  BY <1>3, <1>9
<1>14. raced => raced'
  BY <1>6
<1> QED BY <1>6, <1>10, <1>12, <1>13, <1>14, ReadKnown

LEMMA DeleteRemoteKnown ==
  ASSUME TypeInv, TypeInv', SyncInv, NEW s \in Sync, DeleteRemote(s) PROVE SyncInv'
<1>1. PICK i, l, r : i = job[s] /\ l = L(s) /\ r = R(s)
  OBVIOUS
<1>2. PICK cur, rem : cur = NewestTag(s).cur /\ rem = NewestTag(s).rem
  OBVIOUS
<1>3. PICK j : j = [i EXCEPT !.last = i.rrev]
  OBVIOUS
<1>4. /\ i \in Jobs /\ l \in Wiki /\ r \in Wiki /\ l = i.wiki /\ r = Other(i.wiki)
      /\ Listed(i, l, r) /\ NumbersOf(stage[s], i, l, r) /\ (~raced => Kept)
  BY <1>1, Knows
<1>5. /\ UNCHANGED <<revs, tags, changes, made, dropped, raced>>
      /\ stage' = [stage EXCEPT ![s] = "check delete"] /\ job' = [job EXCEPT ![s] = j]
      /\ i.dir = "both" /\ Tagged(s) /\ i.ldel /\ rem = i.rrev
  BY <1>1, <1>2, <1>3
     DEF DeleteRemote, Goto, Reads, bounds, observed, DeletedLocally, RemoteChange
<1>6. /\ j.wiki = i.wiki /\ j.dir = i.dir /\ j.lrev = i.lrev /\ j.ldel = i.ldel
      /\ j.rrev = i.rrev /\ j.rdel = i.rdel /\ j.last = i.rrev
  BY <1>3, <1>4 DEF Jobs
<1>7. Listed(j, l, r)
  BY <1>4, <1>6 DEF Listed
<1>8. ASSUME ~raced PROVE Claim("check delete", j, l, r)
  <2>1. /\ cur \in 1..Current(l) /\ rem \in 1..Current(r) /\ BodyOf(l, cur) = BodyOf(r, rem)
        /\ Current(l) \in Nat /\ Current(r) \in Nat
    <3>1. Current(l) \in Nat /\ Current(r) \in Nat
      BY <1>4, Revisions DEF TypeInv
    <3>2. job[s].dir = "both" /\ Tagged(s)
      BY <1>1, <1>5
    <3> QED BY <1>1, <1>2, <1>8, <3>1, <3>2, NewestAgrees
  <2>2. cur \in 0..Current(l) /\ cur # 0 /\ rem # 0
    BY <2>1
  <2>3. Edits(BodyOf(l, cur)) \subseteq Body(l) \cup dropped
    BY <1>4, <1>8, <2>2, NowKept
  <2>4. Current(l) = i.lrev => Body(l) = {}
    BY <1>4, <1>5 DEF Listed, Body, Exists
  <2>5. Current(l) = j.lrev => Edits(BodyOf(r, j.last)) \subseteq dropped
    BY <1>5, <1>6, <2>1, <2>3, <2>4
  <2> QED BY <1>5, <1>6, <2>2, <2>5
          DEF Claim, BaseClaim, RemoteClaim, MergedClaim, SavedClaim, DeletingClaim
<1>9. l = j.wiki /\ r = Other(j.wiki) /\ (raced => raced') /\ (~raced' => ~raced)
  BY <1>4, <1>5, <1>6
<1> QED BY <1>5, <1>7, <1>8, <1>9, ReadKnown

LEMMA ReadDiffKnown ==
  ASSUME TypeInv, TypeInv', SyncInv, NEW s \in Sync, ReadDiff(s) PROVE SyncInv'
<1>1. PICK i, l, r : i = job[s] /\ l = L(s) /\ r = R(s)
  OBVIOUS
<1>2. stage[s] = "diff" /\ UNCHANGED <<revs, tags, changes, made, dropped, raced>>
  BY DEF ReadDiff, Reads, bounds, observed
<1>3. CASE Fails(s)
  BY <1>2, <1>3, EndKnown DEF Fails
<1>4. CASE ~Fails(s)
  <2> DEFINE expected == IF i.from = 0 THEN {} ELSE BodyOf(r, i.from)
             base == IF i.dir = "both" THEN i.old ELSE {}
             conf == Mark \in Body(r)
  <2>1. PICK text \in Patched(base, expected, Body(r)) :
          /\ job' = [job EXCEPT ![s].remote = text, ![s].conf = conf]
          /\ stage' = [stage EXCEPT ![s] = "diff number"] /\ Exists(r)
    BY <1>1, <1>4 DEF ReadDiff, Goto
  <2>2. PICK j : j = [i EXCEPT !.remote = text, !.conf = conf]
    OBVIOUS
  <2>3. /\ i \in Jobs /\ l \in Wiki /\ r \in Wiki /\ l = i.wiki /\ r = Other(i.wiki)
        /\ Listed(i, l, r) /\ NumbersOf(stage[s], i, l, r)
        /\ (~raced => Claim("diff", i, l, r) /\ Kept)
    BY <1>1, <1>2, Knows
  <2>4. /\ j.wiki = i.wiki /\ j.dir = i.dir /\ j.lrev = i.lrev /\ j.ldel = i.ldel
        /\ j.rrev = i.rrev /\ j.rdel = i.rdel /\ j.tagged = i.tagged /\ j.base = i.base
        /\ j.old = i.old /\ j.from = i.from /\ j.diff = i.diff /\ j.remote = text
        /\ job' = [job EXCEPT ![s] = j]
    <3> HIDE DEF conf
    <3> QED BY <1>1, <2>1, <2>2, <2>3 DEF Jobs
  <2>5. Listed(j, l, r)
    BY <2>3, <2>4 DEF Listed
  <2>6. ASSUME ~raced PROVE Claim("diff number", j, l, r)
    <3>1. BaseClaim("diff number", j, l, r)
      BY <2>3, <2>4, <2>6 DEF Claim, BaseClaim
    <3>2. Current(r) # 0 /\ j.diff
      BY <2>1, <2>3, <2>4, <2>6, Texts DEF Claim, RemoteClaim, TypeInv
    <3>3. j.dir = "both" => Edits(j.old) \subseteq j.remote \cup dropped
      <4>1. CASE i.dir = "both" /\ i.tagged
        <5>1. i.from # 0 /\ i.old = BodyOf(r, i.from) /\ i.from \in 0..Current(r)
          BY <2>3, <2>6, <4>1 DEF Claim, BaseClaim, NumbersOf
        <5>2. text = Body(r)
          BY <2>1, <4>1, <5>1 DEF Patched
        <5> QED BY <2>3, <2>4, <2>6, <5>1, <5>2, NowKept
      <4>2. CASE ~i.tagged
        <5>1. i.old = {}
          BY <2>3, <2>6, <4>2 DEF Claim, BaseClaim
        <5> QED BY <2>4, <5>1 DEF Edits
      <4> QED BY <2>4, <4>1, <4>2
    <3> QED BY <3>1, <3>2, <3>3 DEF Claim, RemoteClaim, MergedClaim, SavedClaim, DeletingClaim
  <2>7. l = j.wiki /\ r = Other(j.wiki) /\ (raced => raced') /\ (~raced' => ~raced)
    BY <1>2, <2>3, <2>4
  <2> QED BY <1>2, <2>1, <2>4, <2>5, <2>6, <2>7, ReadKnown
<1> QED BY <1>3, <1>4

LEMMA ReadDiffNumberKnown ==
  ASSUME TypeInv, TypeInv', SyncInv, NEW s \in Sync, ReadDiffNumber(s) PROVE SyncInv'
<1>1. PICK i, l, r : i = job[s] /\ l = L(s) /\ r = R(s)
  OBVIOUS
<1>2. PICK j : j = [i EXCEPT !.last = Current(r)]
  OBVIOUS
<1>3. /\ stage[s] = "diff number" /\ stage' = [stage EXCEPT ![s] = "body"]
      /\ job' = [job EXCEPT ![s] = j]
      /\ UNCHANGED <<revs, tags, changes, made, dropped>>
      /\ raced' = (raced \/ BodyOf(r, Current(r)) # i.remote)
  BY <1>1, <1>2 DEF ReadDiffNumber, Goto, bounds
<1>4. /\ i \in Jobs /\ l \in Wiki /\ r \in Wiki /\ l = i.wiki /\ r = Other(i.wiki)
      /\ Listed(i, l, r) /\ (~raced => Claim("diff number", i, l, r))
  <2>1. stage[s] = "diff number"
    BY <1>3
  <2>2. /\ i \in Jobs /\ l \in Wiki /\ r \in Wiki /\ l = i.wiki /\ r = Other(l)
        /\ Listed(i, l, r)
    BY <1>1, Knows
  <2>3. ~raced => Claim(stage[s], i, l, r)
    BY <1>1, Knows
  <2> QED BY <2>1, <2>2, <2>3
<1>5. /\ j.wiki = i.wiki /\ j.dir = i.dir /\ j.lrev = i.lrev /\ j.ldel = i.ldel
      /\ j.rrev = i.rrev /\ j.rdel = i.rdel /\ j.tagged = i.tagged /\ j.base = i.base
      /\ j.old = i.old /\ j.from = i.from /\ j.diff = i.diff /\ j.remote = i.remote
      /\ j.last = Current(r)
  BY <1>2, <1>4 DEF Jobs
<1>6. Listed(j, l, r)
  BY <1>4, <1>5 DEF Listed
<1>7. ASSUME ~raced' PROVE Claim("body", j, l, r)
  <2>1. ~raced /\ BodyOf(r, Current(r)) = i.remote
    BY <1>3, <1>7 DEF TypeInv, TypeOK, ObservedType
  <2>2. Claim("diff number", i, l, r)
    BY <1>4, <2>1
  <2>3. BaseClaim("body", j, l, r)
    BY <1>5, <2>2 DEF Claim, BaseClaim
  <2>4. RemoteClaim("body", j, r)
    BY <1>5, <2>1, <2>2 DEF Claim, RemoteClaim
  <2> QED BY <2>3, <2>4 DEF Claim, MergedClaim, SavedClaim, DeletingClaim
<1>8. l = j.wiki /\ r = Other(j.wiki) /\ (raced => raced')
  BY <1>3, <1>4, <1>5
<1> QED BY <1>3, <1>6, <1>7, <1>8, ReadKnown

\* What the merge of the local text keeps of it, of the merge base and of the remote text.
LEMMA MergeKeeps ==
  ASSUME TypeInv, Kept, NEW s \in Sync, NEW i, NEW l, NEW r, i = job[s], l = L(s),
         NumbersOf("body", i, l, r), Claim("body", i, l, r),
         NEW text \in MergedTexts(s, Body(l)), i.dir = "both"
  PROVE  /\ i.tagged /\ Current(l) = i.lrev => Edits(Body(l)) \subseteq text \cup dropped
         /\ Edits(i.remote) \subseteq text \cup dropped
<1>1. /\ ~i.tagged => i.old = {} /\ i.base = i.lrev
      /\ i.tagged => i.base # 0 /\ i.old = BodyOf(l, i.base)
      /\ ~i.diff => i.remote \subseteq i.old
      /\ i.diff => Edits(i.old) \subseteq i.remote \cup dropped
      /\ l \in Wiki /\ i.base \in 0..Current(l)
  BY DEF Claim, BaseClaim, RemoteClaim, NumbersOf
<1>2. Edits(i.old) \subseteq Body(l) \cup dropped
  BY <1>1, NowKept DEF Edits
<1>3. CASE ~i.diff
  BY <1>1, <1>2, <1>3 DEF MergedTexts, Edits
<1>4. CASE i.diff /\ i.base = i.lrev
  <2>1. text = i.remote
    BY <1>4 DEF MergedTexts
  <2>2. i.tagged /\ Current(l) = i.lrev => i.old = Body(l)
    BY <1>1, <1>4, Texts DEF TypeInv
  <2> QED BY <1>1, <1>4, <2>1, <2>2 DEF Edits
<1>5. CASE i.diff /\ i.base # i.lrev
  <2>1. text \in Merge3(i.old, i.remote, Body(l))
    BY <1>5 DEF MergedTexts
  <2>2. \A e \in Body(l) : e \in text \/ (e \in i.old /\ e \notin i.remote)
    BY <2>1 DEF Merge3
  <2>3. \A e \in i.remote : e \in text \/ (e \in i.old /\ e \notin Body(l))
    BY <2>1 DEF Merge3
  <2> QED BY <1>1, <1>2, <1>5, <2>2, <2>3 DEF Edits
<1> QED BY <1>3, <1>4, <1>5

LEMMA ReadBodyKnown ==
  ASSUME TypeInv, TypeInv', SyncInv, NEW s \in Sync, ReadBody(s) PROVE SyncInv'
<1>1. PICK i, l, r : i = job[s] /\ l = L(s) /\ r = R(s)
  OBVIOUS
<1>2. PICK st \in {"skipped", "save"}, text \in MergedTexts(s, Body(l)) :
        /\ stage[s] = "body" /\ stage' = [stage EXCEPT ![s] = st]
        /\ job' = [job EXCEPT ![s].body = Body(l), ![s].merged = text]
        /\ UNCHANGED <<revs, tags, changes, made, dropped, raced>>
  BY <1>1 DEF ReadBody, Goto, Reads, bounds, observed
<1>3. PICK j : j = [i EXCEPT !.body = Body(l), !.merged = text]
  OBVIOUS
<1>4. /\ i \in Jobs /\ l \in Wiki /\ r \in Wiki /\ l = i.wiki /\ r = Other(i.wiki)
      /\ Listed(i, l, r) /\ NumbersOf("body", i, l, r)
      /\ (~raced => Claim("body", i, l, r) /\ Kept)
  BY <1>1, <1>2, Knows
<1>5. /\ j.wiki = i.wiki /\ j.dir = i.dir /\ j.lrev = i.lrev /\ j.ldel = i.ldel
      /\ j.rrev = i.rrev /\ j.rdel = i.rdel /\ j.tagged = i.tagged /\ j.base = i.base
      /\ j.old = i.old /\ j.from = i.from /\ j.diff = i.diff /\ j.remote = i.remote
      /\ j.last = i.last /\ j.body = Body(l) /\ j.merged = text
      /\ job' = [job EXCEPT ![s] = j]
  BY <1>1, <1>2, <1>3, <1>4 DEF Jobs
<1>6. Listed(j, l, r)
  BY <1>4, <1>5 DEF Listed
<1>7. ASSUME ~raced PROVE Claim(st, j, l, r)
  <2>1. CASE st = "skipped"
    BY <2>1, NothingClaimed
  <2>2. CASE st = "save"
    <3>1. Claim("body", i, l, r) /\ Kept
      BY <1>4, <1>7
    <3>2. BaseClaim("save", j, l, r) /\ RemoteClaim("save", j, r)
      BY <1>5, <3>1 DEF Claim, BaseClaim, RemoteClaim
    <3>3. i.dir = "both" =>
            /\ i.tagged /\ Current(l) = i.lrev => Edits(Body(l)) \subseteq text \cup dropped
            /\ Edits(i.remote) \subseteq text \cup dropped
      BY <1>1, <1>4, <3>1, MergeKeeps
    <3>4. MergedClaim("save", j, l)
      BY <1>5, <3>3 DEF MergedClaim
    <3> QED BY <2>2, <3>2, <3>4 DEF Claim, SavedClaim, DeletingClaim
  <2> QED BY <1>2, <2>1, <2>2
<1>8. l = j.wiki /\ r = Other(j.wiki) /\ (raced => raced') /\ (~raced' => ~raced)
  BY <1>2, <1>4, <1>5
<1> QED BY <1>2, <1>5, <1>6, <1>7, <1>8, ReadKnown

LEMMA ReadNumberKnown ==
  ASSUME TypeInv, TypeInv', SyncInv, NEW s \in Sync, ReadNumber(s) PROVE SyncInv'
<1>1. PICK i, l, r : i = job[s] /\ l = L(s) /\ r = R(s)
  OBVIOUS
<1>2. PICK j : j = [i EXCEPT !.newrev = Current(l)]
  OBVIOUS
<1>3. PICK st : st = IF i.dir = "both" THEN "check" ELSE "tag"
  OBVIOUS
<1>4. /\ stage[s] = "number" /\ stage' = [stage EXCEPT ![s] = st]
      /\ job' = [job EXCEPT ![s] = j]
      /\ UNCHANGED <<revs, tags, changes, made, dropped>>
      /\ raced' = (raced \/ BodyOf(l, Current(l)) # i.merged)
  BY <1>1, <1>2, <1>3 DEF ReadNumber, Goto, bounds
<1>5. /\ i \in Jobs /\ l \in Wiki /\ r \in Wiki /\ l = i.wiki /\ r = Other(i.wiki)
      /\ Listed(i, l, r) /\ (~raced => Claim("number", i, l, r))
  <2>1. stage[s] = "number"
    BY <1>4
  <2>2. /\ i \in Jobs /\ l \in Wiki /\ r \in Wiki /\ l = i.wiki /\ r = Other(l)
        /\ Listed(i, l, r)
    BY <1>1, Knows
  <2>3. ~raced => Claim(stage[s], i, l, r)
    BY <1>1, Knows
  <2> QED BY <2>1, <2>2, <2>3
<1>6. /\ j.wiki = i.wiki /\ j.dir = i.dir /\ j.lrev = i.lrev /\ j.ldel = i.ldel
      /\ j.rrev = i.rrev /\ j.rdel = i.rdel /\ j.tagged = i.tagged /\ j.base = i.base
      /\ j.old = i.old /\ j.from = i.from /\ j.diff = i.diff /\ j.remote = i.remote
      /\ j.last = i.last /\ j.body = i.body /\ j.merged = i.merged /\ j.newrev = Current(l)
  BY <1>2, <1>5 DEF Jobs
<1>7. Listed(j, l, r)
  BY <1>5, <1>6 DEF Listed
<1>8. ASSUME ~raced' PROVE Claim(st, j, l, r)
  <2>1. ~raced /\ BodyOf(l, Current(l)) = i.merged
    BY <1>4, <1>8 DEF TypeInv, TypeOK, ObservedType
  <2>2. Claim("number", i, l, r)
    BY <1>5, <2>1
  <2>3. st \in {"check", "tag"} /\ (st = "check" => i.dir = "both")
         /\ (st = "tag" => i.dir # "both")
    BY <1>3
  <2>4. BaseClaim(st, j, l, r) /\ RemoteClaim(st, j, r) /\ MergedClaim(st, j, l)
    BY <1>6, <2>2, <2>3 DEF Claim, BaseClaim, RemoteClaim, MergedClaim
  <2>5. SavedClaim(st, j, l, r)
    BY <1>6, <2>1, <2>3 DEF SavedClaim
  <2> QED BY <2>3, <2>4, <2>5 DEF Claim, DeletingClaim
<1>9. l = j.wiki /\ r = Other(j.wiki) /\ (raced => raced')
  BY <1>4, <1>5, <1>6
<1> QED BY <1>4, <1>7, <1>8, <1>9, ReadKnown

LEMMA CheckKnown ==
  ASSUME TypeInv, TypeInv', SyncInv, NEW s \in Sync, Check(s) PROVE SyncInv'
<1>1. PICK i, l, r : i = job[s] /\ l = L(s) /\ r = R(s)
  OBVIOUS
<1>2. UNCHANGED <<revs, tags, changes, made, dropped, raced>>
  BY DEF Check, Reads, bounds, observed
<1>3. CASE Fails(s)
  BY <1>2, <1>3, EndKnown DEF Fails
<1>4. CASE ~Fails(s)
  <2>1. PICK st \in {"merge", "delete"} :
          /\ stage' = [stage EXCEPT ![s] = st] /\ job' = job
          /\ stage[s] = IF st = "merge" THEN "check" ELSE "check delete"
    BY <1>4 DEF Check, TypeInv, TypeOK, JobsType
  <2>2. job' = [job EXCEPT ![s] = i]
    BY <1>1, <2>1 DEF TypeInv, TypeOK, JobsType
  <2>3. l = i.wiki /\ r = Other(i.wiki) /\ Listed(i, l, r)
    BY <1>1, Knows
  <2>4. ASSUME ~raced PROVE Claim(st, i, l, r)
    <3>1. Claim(stage[s], i, l, r)
      BY <1>1, <2>4, Knows
    <3>2. CASE st = "merge"
      BY <2>1, <3>1, <3>2
         DEF Claim, BaseClaim, RemoteClaim, MergedClaim, SavedClaim, DeletingClaim
    <3>3. CASE st = "delete"
      BY <2>1, <3>1, <3>3
         DEF Claim, BaseClaim, RemoteClaim, MergedClaim, SavedClaim, DeletingClaim
    <3> QED BY <3>2, <3>3
  <2>5. (raced => raced') /\ (~raced' => ~raced)
    BY <1>2
  <2> QED BY <1>2, <2>1, <2>2, <2>3, <2>4, <2>5, ReadKnown
<1> QED BY <1>3, <1>4

LEMMA AcceptKnown ==
  ASSUME TypeInv, TypeInv', SyncInv, NEW s \in Sync, Accept(s) PROVE SyncInv'
<1>1. PICK i, l, r : i = job[s] /\ l = L(s) /\ r = R(s)
  OBVIOUS
<1>2. PICK j : j = [i EXCEPT !.done = FALSE]
  OBVIOUS
<1>3. /\ stage[s] = "answer" /\ stage' = [stage EXCEPT ![s] = "tag"]
      /\ job' = [job EXCEPT ![s] = j]
      /\ UNCHANGED <<revs, tags, changes, made, dropped, raced>>
  BY <1>1, <1>2 DEF Accept, Goto, Reads, bounds, observed
<1>4. /\ i \in Jobs /\ l = i.wiki /\ r = Other(i.wiki) /\ Listed(i, l, r)
      /\ (~raced => Claim(stage[s], i, l, r))
  BY <1>1, Knows
<1>5. /\ j.wiki = i.wiki /\ j.dir = i.dir /\ j.lrev = i.lrev /\ j.ldel = i.ldel
      /\ j.rrev = i.rrev /\ j.rdel = i.rdel /\ j.last = i.last
      /\ j.merged = i.merged /\ j.newrev = i.newrev
  BY <1>2, <1>4 DEF Jobs
<1>6. Listed(j, l, r)
  BY <1>4, <1>5 DEF Listed
<1>7. ASSUME ~raced PROVE Claim("tag", j, l, r)
  BY <1>3, <1>4, <1>5, <1>7
     DEF Claim, BaseClaim, RemoteClaim, MergedClaim, SavedClaim, DeletingClaim
<1>8. l = j.wiki /\ r = Other(j.wiki) /\ (raced => raced') /\ (~raced' => ~raced)
  BY <1>3, <1>4, <1>5
<1> QED BY <1>3, <1>6, <1>7, <1>8, ReadKnown

\* A tag that names two revisions of the same text joins tags that agree.
LEMMA TagAgrees ==
  ASSUME TypeInv, TagsAgree, ~raced, revs' = revs, changes' = changes, NEW w \in Wiki,
         NEW rem \in 1..Current(Other(w)), NEW cur \in 1..Current(w), NEW dir \in Dirs,
         tags' = [tags EXCEPT ![w] = Append(@, Tag(rem, cur, dir))],
         dir = "both" => revs[w][cur] = revs[Other(w)][rem]
  PROVE  TagsAgree'
<1>1. TypeOK
  BY DEF TypeInv
<1>2. /\ DOMAIN tags'[w] = 1..(Len(tags[w]) + 1) /\ Len(tags[w]) \in Nat
      /\ DOMAIN tags[w] = 1..Len(tags[w])
      /\ tags'[w][Len(tags[w]) + 1] = Tag(rem, cur, dir)
      /\ \A n \in DOMAIN tags[w] : tags'[w][n] = tags[w][n]
      /\ \A v \in Wiki : v # w => tags'[v] = tags[v]
  BY <1>1, TagTyped
<1>3. ASSUME NEW v \in Wiki, NEW n \in DOMAIN tags'[v], tags'[v][n].dir = "both"
      PROVE  revs'[v][tags'[v][n].cur] = revs'[Other(v)][tags'[v][n].rem]
  <2>1. CASE n \in DOMAIN tags[v] /\ tags'[v][n] = tags[v][n]
    BY <1>3, <2>1 DEF TagsAgree
  <2>2. CASE v = w /\ n = Len(tags[w]) + 1
    BY <1>2, <1>3, <2>2 DEF Tag
  <2>3. v = w => n \in DOMAIN tags[w] \/ n = Len(tags[w]) + 1
    BY <1>2, <1>3
  <2> QED BY <1>2, <1>3, <2>1, <2>2, <2>3
<1> QED BY <1>3 DEF TagsAgree

\* A step that adds such a tag.
LEMMA TagKnown ==
  ASSUME TypeInv, TypeInv', SyncInv, UNCHANGED <<revs, changes, made, dropped>>,
         raced => raced', NEW s \in Sync, NEW st, NEW j, NEW l, NEW r,
         stage' = [stage EXCEPT ![s] = st], job' = [job EXCEPT ![s] = j],
         l = j.wiki, r = Other(j.wiki), NumbersOf(st, j, l, r), Listed(j, l, r),
         ~raced' => Claim(st, j, l, r) /\ TagsAgree'
  PROVE  SyncInv'
<1>1. Grows /\ (~raced' => ~raced)
  BY SameExtends DEF Grows, TypeInv
<1>2. ~raced' => Kept'
  BY <1>1, KeptStays DEF SyncInv
<1> QED BY <1>1, <1>2, StepKnown

LEMMA MergeTagKnown ==
  ASSUME TypeInv, TypeInv', SyncInv, NEW s \in Sync, MergeTag(s) PROVE SyncInv'
<1>1. PICK i, l, r : i = job[s] /\ l = L(s) /\ r = R(s)
  OBVIOUS
<1>2. PICK j : j = [i EXCEPT !.last = Current(r)]
  OBVIOUS
<1>3. /\ stage[s] = "merge tag" /\ stage' = [stage EXCEPT ![s] = "answer"]
      /\ tags' = [tags EXCEPT ![r] = Append(@, Tag(i.newrev, Current(r), "both"))]
      /\ job' = [job EXCEPT ![s] = j]
      /\ UNCHANGED <<revs, changes, made, dropped>>
      /\ raced' = (raced \/ BodyOf(r, Current(r)) # i.body)
  BY <1>1, <1>2 DEF MergeTag, Goto, Answer, bounds
<1>4. /\ i \in Jobs /\ l \in Wiki /\ r \in Wiki /\ l = i.wiki /\ r = Other(l) /\ l = Other(r)
      /\ Listed(i, l, r) /\ NumbersOf(stage[s], i, l, r)
  BY <1>1, Knows
<1>5. ~raced => Claim(stage[s], i, l, r) /\ TagsAgree
  BY <1>1, Knows
<1>6. /\ j.wiki = i.wiki /\ j.dir = i.dir /\ j.lrev = i.lrev /\ j.ldel = i.ldel
      /\ j.rrev = i.rrev /\ j.rdel = i.rdel /\ j.base = i.base /\ j.from = i.from
      /\ j.body = i.body /\ j.merged = i.merged /\ j.newrev = i.newrev
      /\ j.last = Current(r)
  BY <1>2, <1>4 DEF Jobs
<1>7. i.newrev \in 1..Current(l) /\ Current(r) \in 1..Current(r) /\ Current(r) \in 0..Current(r)
      /\ Current(r) # 0
  <2>1. i.newrev \in 1..Current(l) /\ Current(r) \in 1..Current(r)
    BY <1>1, MergeTagNumbers
  <2>2. Current(r) \in Nat
    BY <1>4, Revisions DEF TypeInv
  <2> QED BY <2>1, <2>2
<1>8. Listed(j, l, r)
  BY <1>4, <1>6 DEF Listed
<1>9. NumbersOf("answer", j, l, r)
  <2>1. j \in Jobs
    BY <1>2, <1>4, Revisions DEF Jobs, TypeInv
  <2> QED BY <1>3, <1>4, <1>6, <1>7, <2>1 DEF NumbersOf
<1>10. ASSUME ~raced' PROVE Claim("answer", j, l, r) /\ TagsAgree'
  <2>1. ~raced /\ BodyOf(r, Current(r)) = i.body
    BY <1>3, <1>10 DEF TypeInv, TypeOK, ObservedType
  <2>2. Claim("merge tag", i, l, r) /\ TagsAgree
    BY <1>3, <1>5, <2>1
  <2>3. /\ i.dir = "both" /\ i.body = i.merged /\ i.merged # {}
        /\ BodyOf(l, i.newrev) = i.merged
    BY <2>2 DEF Claim, SavedClaim, MergedClaim
  <2>4. Claim("answer", j, l, r)
    BY <1>6, <1>7, <2>1, <2>3
       DEF Claim, BaseClaim, RemoteClaim, MergedClaim, SavedClaim, DeletingClaim
  <2>5. revs[r][Current(r)] = revs[l][i.newrev]
    BY <1>4, <1>7, <2>1, <2>3, Texts DEF TypeInv
  <2>6. TagsAgree'
    BY <1>3, <1>4, <1>7, <2>1, <2>2, <2>5, TagAgrees DEF Dirs
  <2> QED BY <2>4, <2>6
<1>11. l = j.wiki /\ r = Other(j.wiki) /\ (raced => raced')
  BY <1>3, <1>4, <1>6
<1> QED BY <1>3, <1>8, <1>9, <1>10, <1>11, TagKnown

LEMMA AddTagKnown ==
  ASSUME TypeInv, TypeInv', SyncInv, NEW s \in Sync, AddTag(s) PROVE SyncInv'
<1>1. PICK i, l, r : i = job[s] /\ l = L(s) /\ r = R(s)
  OBVIOUS
<1>2. PICK j : j = [i EXCEPT !.done = FALSE]
  OBVIOUS
<1>3. PICK st \in {"finished", "skipped"} :
        /\ stage[s] = "tag" /\ stage' = [stage EXCEPT ![s] = st]
        /\ job' = [job EXCEPT ![s] = j]
        /\ UNCHANGED <<revs, changes, made, dropped, raced>>
        /\ tags' = IF Numbered(i.last)
                   THEN [tags EXCEPT ![l] = Append(@, Tag(i.last, i.newrev, i.dir))]
                   ELSE tags
  BY <1>1, <1>2 DEF AddTag, Goto, bounds, observed
<1>4. /\ i \in Jobs /\ l \in Wiki /\ r \in Wiki /\ l = i.wiki /\ r = Other(l)
      /\ Listed(i, l, r) /\ NumbersOf(stage[s], i, l, r)
  BY <1>1, Knows
<1>5. ~raced => Claim(stage[s], i, l, r) /\ TagsAgree
  BY <1>1, Knows
<1>6. /\ j.wiki = i.wiki /\ j.lrev = i.lrev /\ j.ldel = i.ldel /\ j.rrev = i.rrev
      /\ j.rdel = i.rdel /\ j.base = i.base /\ j.from = i.from
      /\ j.newrev = i.newrev /\ j.last = i.last
  BY <1>2, <1>4 DEF Jobs
<1>7. Listed(j, l, r)
  BY <1>4, <1>6 DEF Listed
<1>8. NumbersOf(st, j, l, r)
  <2>1. j \in Jobs
    BY <1>2, <1>4 DEF Jobs
  <2> QED BY <1>3, <1>4, <1>6, <2>1 DEF NumbersOf
<1>9. ASSUME ~raced PROVE TagsAgree'
  <2>1. CASE Numbered(i.last)
    <3>1. i.newrev \in 1..Current(l) /\ i.last \in 1..Current(r) /\ i.dir \in Dirs
      BY <1>1, <1>4, <2>1, AddTagNumbers DEF Jobs
    <3>2. ASSUME i.dir = "both" PROVE revs[l][i.newrev] = revs[r][i.last]
      <4>1. Claim("tag", i, l, r)
        BY <1>3, <1>5, <1>9
      <4>2. /\ i.merged # {} /\ BodyOf(l, i.newrev) = i.merged /\ BodyOf(r, i.last) = i.merged
        BY <3>2, <4>1 DEF Claim, SavedClaim, MergedClaim
      <4> QED BY <1>4, <3>1, <4>2, Texts DEF TypeInv
    <3> QED BY <1>3, <1>4, <1>5, <1>9, <2>1, <3>1, <3>2, TagAgrees
  <2>2. CASE ~Numbered(i.last)
    BY <1>3, <1>5, <1>9, <2>2 DEF TagsAgree
  <2> QED BY <2>1, <2>2
<1>10. Claim(st, j, l, r)
  BY NothingClaimed
<1>11. l = j.wiki /\ r = Other(j.wiki) /\ (raced => raced') /\ (~raced' => ~raced)
  BY <1>3, <1>4, <1>6
<1> QED BY <1>3, <1>7, <1>8, <1>9, <1>10, <1>11, TagKnown

\* A step that saves a revision, and says what of the text before it is dropped.
LEMMA WriteKnown ==
  ASSUME TypeInv, TypeInv', SyncInv, UNCHANGED <<tags, changes, made>>,
         dropped \subseteq dropped', raced => raced', NEW s \in Sync,
         NEW st, NEW j, NEW l, NEW r,
         stage' = [stage EXCEPT ![s] = st], job' = [job EXCEPT ![s] = j],
         l = j.wiki, r = Other(j.wiki), NumbersOf(st, j, l, r), Listed(j, l, r),
         ~raced' => Claim(st, j, l, r),
         NEW w \in Wiki, NEW text \in Text \cup {NoText}, Write(w, text),
         NEW body, body = IF text = NoText THEN {} ELSE text,
         ~raced' => Edits(Body(w)) \subseteq body \cup dropped'
  PROVE  SyncInv'
<1>1. TypeOK /\ changes' \in Nat /\ changes <= changes' /\ text \in Text' \cup {NoText}
  BY DEF TypeInv, TypeOK, ObservedType, Text
<1>2. Extends
  BY <1>1, WriteFrame
<1>3. Grows /\ (~raced' => ~raced)
  BY <1>2 DEF Grows
<1>4. ~raced' => TagsAgree' /\ Kept'
  BY <1>1, <1>3, TagsStay, KeptByWrite DEF SyncInv
<1> QED BY <1>3, <1>4, StepKnown

LEMMA SaveLocalKnown ==
  ASSUME TypeInv, TypeInv', SyncInv, NEW s \in Sync, SaveLocal(s) PROVE SyncInv'
<1>1. PICK i, l, r : i = job[s] /\ l = L(s) /\ r = R(s)
  OBVIOUS
<1>2. stage[s] = "save" /\ UNCHANGED <<tags, changes, made, raced>>
  BY DEF SaveLocal, bounds
<1>3. CASE Fails(s)
  <2>1. UNCHANGED <<revs, dropped>>
    BY <1>2, <1>3 DEF SaveLocal, Fails, Goto, TypeInv, TypeOK, JobsType
  <2> QED BY <1>2, <1>3, <2>1, EndKnown DEF Fails
<1>4. CASE ~Fails(s)
  <2> DEFINE done == i.merged # i.body
  <2>1. /\ stage' = [stage EXCEPT ![s] = "number"]
        /\ job' = [job EXCEPT ![s] = [i EXCEPT !.done = done]]
        /\ i.merged # {} /\ ~StaleRev(l, i.lrev)
        /\ IF i.merged = i.body THEN UNCHANGED <<revs, dropped>>
           ELSE /\ Write(l, i.merged)
                /\ dropped' = IF i.tagged /\ i.dir = "both" /\ i.lrev # 0 THEN dropped
                              ELSE dropped \cup (Body(l) \ i.merged)
    BY <1>1, <1>4 DEF SaveLocal, Goto
  <2>2. PICK j : j = [i EXCEPT !.done = done]
    OBVIOUS
  <2>3. done \in BOOLEAN
    OBVIOUS
  <2> HIDE DEF done
  <2>4. /\ i \in Jobs /\ l \in Wiki /\ r \in Wiki /\ l = i.wiki /\ r = Other(i.wiki)
        /\ Listed(i, l, r) /\ NumbersOf(stage[s], i, l, r)
    BY <1>1, Knows
  <2>5. ~raced => Claim("save", i, l, r)
    BY <1>1, <1>2, Knows
  <2>6. /\ j.wiki = i.wiki /\ j.dir = i.dir /\ j.lrev = i.lrev /\ j.ldel = i.ldel
        /\ j.rrev = i.rrev /\ j.rdel = i.rdel /\ j.tagged = i.tagged /\ j.base = i.base
        /\ j.old = i.old /\ j.from = i.from /\ j.diff = i.diff /\ j.remote = i.remote
        /\ j.last = i.last /\ j.body = i.body /\ j.merged = i.merged /\ j.newrev = i.newrev
        /\ job' = [job EXCEPT ![s] = j] /\ j \in Jobs
    BY <2>1, <2>2, <2>3, <2>4 DEF Jobs
  <2>7. Listed(j, l, r)
    BY <2>4, <2>6 DEF Listed
  <2>8. NumbersOf("number", j, l, r)
    BY <2>4, <2>6 DEF NumbersOf
  <2>9. ASSUME ~raced PROVE Claim("number", j, l, r)
    BY <2>1, <2>5, <2>6, <2>9
       DEF Claim, BaseClaim, RemoteClaim, MergedClaim, SavedClaim, DeletingClaim
  <2>10. l = j.wiki /\ r = Other(j.wiki) /\ (raced => raced') /\ (~raced' => ~raced)
    BY <1>2, <2>4, <2>6
  <2>11. CASE i.merged = i.body
    BY <1>2, <2>1, <2>6, <2>7, <2>9, <2>10, <2>11, ReadKnown
  <2>12. CASE i.merged # i.body
    <3>1. i.merged \in Text /\ i.merged # NoText
      BY <2>4, Revisions DEF Jobs, TypeInv
    <3>2. dropped \subseteq dropped' /\ Write(l, i.merged)
      BY <2>1, <2>12
    <3>3. ASSUME ~raced PROVE Edits(Body(l)) \subseteq i.merged \cup dropped'
      <4>1. CASE i.tagged /\ i.dir = "both" /\ i.lrev # 0
        <5>1. Current(l) = i.lrev
          BY <2>1, <4>1 DEF StaleRev
        <5>2. i.body = Body(l) /\ Edits(i.body) \subseteq i.merged \cup dropped
          BY <2>5, <3>3, <4>1, <5>1 DEF Claim, MergedClaim
        <5> QED BY <3>2, <5>2
      <4>2. CASE ~(i.tagged /\ i.dir = "both" /\ i.lrev # 0)
        BY <2>1, <2>12, <4>2 DEF Edits
      <4> QED BY <4>1, <4>2
    <3> QED BY <1>2, <2>1, <2>4, <2>6, <2>7, <2>8, <2>9, <2>10, <3>1, <3>2, <3>3, WriteKnown
  <2> QED BY <2>11, <2>12
<1> QED BY <1>3, <1>4

\* The patch that mergeDiff is sent was made for the text that it is put on.
LEMMA PatchFits ==
  ASSUME TypeInv, SyncInv, ~raced, NEW s \in Sync, stage[s] = "merge",
         NEW i, NEW l, NEW r, i = job[s], l = L(s), r = R(s),
         ~StaleRev(r, i.last), i.last = 0 => Current(r) = 0
  PROVE  /\ i.remote = Body(r) /\ Claim("merge", i, l, r)
         /\ Patched(BodyOf(r, i.last), i.remote, i.merged) = {i.merged}
<1>1. r \in Wiki /\ Claim("merge", i, l, r)
  BY Knows
<1>2. Current(r) = i.last
  BY DEF StaleRev
<1>3. BodyOf(r, i.last) = Body(r) /\ (i.last = 0 => Body(r) = {})
  BY <1>1, <1>2, Texts DEF TypeInv
<1>4. i.remote = Body(r)
  BY <1>1, <1>3 DEF Claim, SavedClaim, RemoteClaim
<1> QED BY <1>1, <1>3, <1>4 DEF Patched

LEMMA MergeDiffKnown ==
  ASSUME TypeInv, TypeInv', SyncInv, NEW s \in Sync, MergeDiff(s) PROVE SyncInv'
<1>1. PICK i, l, r : i = job[s] /\ l = L(s) /\ r = R(s)
  OBVIOUS
<1>2. PICK text \in Patched(BodyOf(r, i.last), i.remote, i.merged) :
        /\ stage[s] = "merge" /\ UNCHANGED <<tags, changes, made, dropped>>
        /\ raced' = (raced \/ (i.last = 0 /\ Current(r) # 0))
        /\ IF text = {} \/ StaleRev(r, i.last)
           THEN Fails(s) /\ UNCHANGED revs
           ELSE /\ Goto(s, "merge", "merge tag") /\ job' = [job EXCEPT ![s].body = text]
                /\ IF text = Body(r) THEN UNCHANGED revs ELSE Write(r, text)
  BY <1>1 DEF MergeDiff, bounds
<1>3. /\ i \in Jobs /\ l \in Wiki /\ r \in Wiki /\ l = i.wiki /\ r = Other(i.wiki)
      /\ Listed(i, l, r) /\ NumbersOf(stage[s], i, l, r) /\ BodyOf(r, i.last) \in Text
  <2>1. /\ i \in Jobs /\ l \in Wiki /\ r \in Wiki /\ l = i.wiki /\ r = Other(i.wiki)
        /\ Listed(i, l, r) /\ NumbersOf(stage[s], i, l, r)
    BY <1>1, Knows
  <2>2. i.last \in 0..Current(r)
    BY <2>1 DEF NumbersOf
  <2> QED BY <2>1, <2>2, Texts DEF TypeInv
<1>4. ~raced => Claim(stage[s], i, l, r)
  BY <1>1, Knows
<1>5. text \in Text /\ text # NoText
  <2>1. i.remote \in Text /\ i.merged \in Text
    BY <1>3 DEF Jobs
  <2>2. text \in Text
    BY <1>2, <1>3, <2>1, PatchedText
  <2> QED BY <1>3, <2>2, Revisions DEF TypeInv
<1>6. raced => raced'
  BY <1>2
<1>7. CASE text = {} \/ StaleRev(r, i.last)
  <2>1. /\ stage' = [stage EXCEPT ![s] = "failed"] /\ job' = [job EXCEPT ![s] = i]
        /\ UNCHANGED <<revs, tags, changes, made, dropped>>
    BY <1>1, <1>2, <1>7 DEF Fails, TypeInv, TypeOK, JobsType
  <2>2. Claim("failed", i, l, r)
    BY NothingClaimed
  <2> QED BY <1>3, <1>6, <2>1, <2>2, ReadKnown
<1>8. CASE text # {} /\ ~StaleRev(r, i.last)
  <2>1. PICK j : j = [i EXCEPT !.body = text]
    OBVIOUS
  <2>2. /\ stage' = [stage EXCEPT ![s] = "merge tag"] /\ job' = [job EXCEPT ![s] = j]
        /\ IF text = Body(r) THEN UNCHANGED revs ELSE Write(r, text)
    BY <1>1, <1>2, <1>8, <2>1 DEF Goto
  <2>3. /\ j.wiki = i.wiki /\ j.dir = i.dir /\ j.lrev = i.lrev /\ j.ldel = i.ldel
        /\ j.rrev = i.rrev /\ j.rdel = i.rdel /\ j.base = i.base /\ j.from = i.from
        /\ j.last = i.last /\ j.body = text /\ j.merged = i.merged /\ j.newrev = i.newrev
        /\ j \in Jobs
    BY <1>3, <1>5, <2>1 DEF Jobs
  <2>4. Listed(j, l, r)
    BY <1>3, <2>3 DEF Listed
  <2>5. NumbersOf("merge tag", j, l, r)
    BY <1>2, <1>3, <2>3 DEF NumbersOf
  <2>6. ASSUME ~raced'
        PROVE  text = i.merged /\ i.remote = Body(r) /\ Claim("merge", i, l, r)
    <3>1. ~raced /\ (i.last = 0 => Current(r) = 0)
      BY <1>2, <2>6 DEF TypeInv, TypeOK, ObservedType
    <3>2. stage[s] = "merge" /\ ~StaleRev(r, i.last)
      BY <1>2, <1>8
    <3>3. /\ i.remote = Body(r) /\ Claim("merge", i, l, r)
          /\ Patched(BodyOf(r, i.last), i.remote, i.merged) = {i.merged}
      BY <1>1, <3>1, <3>2, PatchFits
    <3>4. text = i.merged
      BY <3>3
    <3> QED BY <3>3, <3>4
  <2>7. ASSUME ~raced' PROVE Claim("merge tag", j, l, r)
    BY <2>3, <2>6, <2>7
       DEF Claim, BaseClaim, RemoteClaim, MergedClaim, SavedClaim, DeletingClaim
  <2>8. l = j.wiki /\ r = Other(j.wiki)
    BY <1>3, <2>3
  <2>9. CASE text = Body(r)
    BY <1>2, <1>6, <2>2, <2>4, <2>7, <2>8, <2>9, ReadKnown
  <2>10. CASE text # Body(r)
    <3>1. Write(r, text) /\ dropped \subseteq dropped'
      BY <1>2, <2>2, <2>10
    <3>2. ASSUME ~raced' PROVE Edits(Body(r)) \subseteq text \cup dropped'
      BY <1>2, <2>6, <3>2 DEF Claim, SavedClaim, MergedClaim
    <3> QED BY <1>2, <1>3, <1>5, <1>6, <2>2, <2>4, <2>5, <2>7, <2>8, <3>1, <3>2, WriteKnown
  <2> QED BY <2>9, <2>10
<1> QED BY <1>7, <1>8

\* A deletion handed on drops what nobody asked to delete, and takes nothing else.
LEMMA DeleteLocalDrops ==
  ASSUME TypeInv, SyncInv, ~raced, NEW s \in Sync, NEW l, l = L(s), DeleteLocal(s)
  PROVE  Edits(Body(l)) \subseteq dropped'
<1>1. PICK i, r : i = job[s] /\ r = R(s)
  OBVIOUS
<1>2. PICK cur, rem : cur = NewestTag(s).cur /\ rem = NewestTag(s).rem
  OBVIOUS
<1>3. /\ i \in Jobs /\ l \in Wiki /\ r \in Wiki /\ r = Other(l) /\ Listed(i, l, r) /\ Kept
  BY <1>1, Knows
<1>4. /\ Tagged(s) /\ i.rdel /\ cur = i.lrev
      /\ dropped' = dropped \cup Overrun(s, l, i.lrev, i.rrev)
  BY <1>1, <1>2 DEF DeleteLocal, DeletedRemotely, LocalChange
<1>5. CASE i.dir = "both" /\ Current(r) = i.rrev
  <2>1. /\ cur \in 1..Current(l) /\ rem \in 1..Current(r) /\ BodyOf(l, cur) = BodyOf(r, rem)
    <3>1. job[s].dir = "both" /\ Tagged(s)
      BY <1>1, <1>4, <1>5
    <3> QED BY <1>1, <1>2, <3>1, NewestAgrees
  <2>2. rem \in 0..Current(r) /\ rem # 0
    <3>1. Current(r) \in Nat
      BY <1>3, Revisions DEF TypeInv
    <3> QED BY <2>1, <3>1
  <2>3. Edits(BodyOf(r, rem)) \subseteq Body(r) \cup dropped
    BY <1>3, <2>2, NowKept
  <2>4. Body(r) = {}
    BY <1>3, <1>4, <1>5 DEF Listed, Body, Exists
  <2>5. Edits(BodyOf(l, i.lrev)) \subseteq dropped
    BY <1>4, <2>1, <2>3, <2>4
  <2>6. dropped' = dropped \cup (Body(l) \ BodyOf(l, i.lrev))
    BY <1>1, <1>3, <1>4, <1>5 DEF Overrun
  <2> QED BY <2>5, <2>6 DEF Edits
<1>6. CASE ~(i.dir = "both" /\ Current(r) = i.rrev)
  <2>1. dropped' = dropped \cup Body(l)
    BY <1>1, <1>3, <1>4, <1>6 DEF Overrun
  <2> QED BY <2>1 DEF Edits
<1> QED BY <1>5, <1>6

LEMMA MergeDeleteDrops ==
  ASSUME TypeInv, SyncInv, ~raced, NEW s \in Sync, NEW r, r = R(s), MergeDelete(s)
  PROVE  Edits(Body(r)) \subseteq dropped'
<1>1. PICK i, l : i = job[s] /\ l = L(s)
  OBVIOUS
<1>2. l \in Wiki /\ r \in Wiki /\ l = Other(r) /\ Claim(stage[s], i, l, r)
  BY <1>1, Knows
<1>3. stage[s] = "delete" /\ dropped' = dropped \cup Overrun(s, r, i.last, i.lrev)
  BY <1>1 DEF MergeDelete, Goto
<1>4. Current(l) = i.lrev => Edits(BodyOf(r, i.last)) \subseteq dropped
  BY <1>2, <1>3 DEF Claim, DeletingClaim
<1>5. CASE i.dir = "both" /\ Current(l) = i.lrev
  <2>1. dropped' = dropped \cup (Body(r) \ BodyOf(r, i.last))
    BY <1>1, <1>2, <1>3, <1>5 DEF Overrun
  <2> QED BY <1>4, <1>5, <2>1 DEF Edits
<1>6. CASE ~(i.dir = "both" /\ Current(l) = i.lrev)
  <2>1. dropped' = dropped \cup Body(r)
    BY <1>1, <1>2, <1>3, <1>6 DEF Overrun
  <2> QED BY <2>1 DEF Edits
<1> QED BY <1>5, <1>6

LEMMA DeletingKnown ==
  ASSUME TypeInv, TypeInv', SyncInv, NEW s \in Sync, DeleteLocal(s) \/ MergeDelete(s)
  PROVE  SyncInv'
<1>1. PICK i, l, r : i = job[s] /\ l = L(s) /\ r = R(s)
  OBVIOUS
<1>2. /\ l \in Wiki /\ r \in Wiki /\ l = i.wiki /\ r = Other(i.wiki) /\ Listed(i, l, r)
      /\ NumbersOf(stage[s], i, l, r)
  BY <1>1, Knows
<1>3. PICK w \in {l, r} :
        /\ Write(w, NoText) /\ dropped \subseteq dropped'
        /\ stage' = [stage EXCEPT ![s] = "finished"] /\ job' = job
        /\ UNCHANGED <<tags, changes, made, raced>>
        /\ ~raced => Edits(Body(w)) \subseteq dropped'
  BY <1>1, DeleteLocalDrops, MergeDeleteDrops DEF DeleteLocal, MergeDelete, Goto, bounds
<1>4. job' = [job EXCEPT ![s] = i]
  BY <1>1, <1>3 DEF TypeInv, TypeOK, JobsType
<1>5. NumbersOf("finished", i, l, r) /\ Claim("finished", i, l, r)
  BY <1>2, NothingClaimed DEF NumbersOf
<1>6. (raced => raced') /\ (~raced' => Edits(Body(w)) \subseteq {} \cup dropped') /\ w \in Wiki
  BY <1>2, <1>3
<1> QED BY <1>2, <1>3, <1>4, <1>5, <1>6, WriteKnown

\* A synchronisation that is over.
LEMMA OverKnown ==
  ASSUME TypeInv, NEW l, NEW r, l = NoJob.wiki, r = Other(NoJob.wiki)
  PROVE  NumbersOf("idle", NoJob, l, r) /\ Listed(NoJob, l, r) /\ Claim("idle", NoJob, l, r)
<1>1. NoJob \in Jobs
  BY NoJobTyped DEF TypeInv
<1>2. l \in Wiki /\ r \in Wiki
  BY <1>1, TwoWikis DEF Jobs
<1>3. Current(l) \in Nat /\ Current(r) \in Nat
  BY <1>2, Revisions DEF TypeInv
<1>4. /\ NoJob.lrev = 0 /\ NoJob.base = 0 /\ NoJob.newrev = 0 /\ NoJob.rrev = 0
      /\ NoJob.from = 0 /\ NoJob.last = 0 /\ ~NoJob.ldel /\ ~NoJob.rdel
  BY DEF NoJob
<1> QED BY <1>1, <1>2, <1>3, <1>4, NothingClaimed DEF NumbersOf, Listed

LEMMA DieKnown ==
  ASSUME TypeInv, TypeInv', SyncInv, NEW s \in Sync, Die(s) PROVE SyncInv'
<1>1. /\ stage' = [stage EXCEPT ![s] = "idle"] /\ job' = [job EXCEPT ![s] = NoJob]
      /\ UNCHANGED <<revs, tags, changes, made, dropped, raced>>
  BY DEF Die, observed
<1> QED BY <1>1, OverKnown, ReadKnown

LEMMA FinishKnown ==
  ASSUME TypeInv, TypeInv', SyncInv, NEW s \in Sync, Finish(s) PROVE SyncInv'
<1>1. /\ stage' = [stage EXCEPT ![s] = "idle"] /\ job' = [job EXCEPT ![s] = NoJob]
      /\ stage[s] \in {"finished", "skipped", "failed"}
      /\ UNCHANGED <<tags, changes, made, raced>>
  BY DEF Finish, bounds
<1>2. CASE revs' = revs /\ dropped' = dropped
  BY <1>1, <1>2, OverKnown, ReadKnown
<1>3. CASE ~(revs' = revs /\ dropped' = dropped)
  <2>1. PICK w \in Wiki : w = L(s)
    BY JobFields DEF TypeInv
  <2>2. PICK old : old = BodyOf(w, job[s].newrev - 1)
    OBVIOUS
  <2>3. PICK text : text = IF old = {} THEN NoText ELSE old
    OBVIOUS
  <2>4. /\ Write(w, text) /\ dropped' = dropped \cup (Body(w) \ old) /\ job[s].done
    BY <1>3, <2>1, <2>2, <2>3 DEF Finish, RollBack
  <2>5. old \in Text
    <3>1. job[s].newrev \in 0..Current(w) /\ job[s].newrev # 0 /\ Current(w) \in Nat
      BY <1>1, <2>1, <2>4, Revisions DEF TypeInv, NumberInv, TypeOK, JobsType
    <3> QED BY <2>2, <3>1, Texts DEF TypeInv
  <2>6. text \in Text \cup {NoText} /\ old = IF text = NoText THEN {} ELSE text
    BY <2>1, <2>3, <2>5, Revisions DEF TypeInv
  <2>7. Edits(Body(w)) \subseteq old \cup dropped' /\ dropped \subseteq dropped'
    BY <2>4 DEF Edits
  <2> QED BY <1>1, <2>4, <2>6, <2>7, OverKnown, WriteKnown
<1> QED BY <1>2, <1>3

\* What users do.
LEMMA UsersKnown ==
  ASSUME TypeInv, TypeInv', SyncInv, NEW w \in Wiki, Edit(w) \/ Resolve(w) \/ Delete(w)
  PROVE  SyncInv'
<1>1. PICK text :
        /\ Change(w, text)
        /\ \/ /\ text = Body(w) \cup {changes + 1} /\ dropped' = dropped
              /\ made' = made \cup {changes + 1}
           \/ text = Body(w) \ {Mark} /\ dropped' = dropped /\ made' = made
           \/ text = NoText /\ dropped' = dropped \cup Body(w) /\ made' = made
  BY DEF Edit, Resolve, Delete
<1>2. /\ TypeOK /\ changes \in Nat /\ changes' = changes + 1 /\ Write(w, text)
      /\ UNCHANGED <<tags, stage, job, raced>> /\ Body(w) \in Text
  BY <1>1, Texts DEF Change, TypeInv, TypeOK, ObservedType
<1>3. PICK body : body = IF text = NoText THEN {} ELSE text
  OBVIOUS
<1>4. /\ text \in Text' \cup {NoText} /\ dropped \subseteq dropped'
      /\ Edits(Body(w)) \subseteq body \cup dropped'
      /\ text = Body(w) \cup {changes + 1} => changes + 1 \in body
  <2>1. Text' = SUBSET (1..(changes + 1) \cup {Mark}) /\ changes + 1 \in 1..(changes + 1)
    BY <1>2 DEF Text
  <2>2. Body(w) \subseteq 1..(changes + 1) \cup {Mark}
    BY <1>2 DEF Text
  <2>3. Body(w) \cup {changes + 1} \in Text' /\ Body(w) \ {Mark} \in Text'
    BY <2>1, <2>2
  <2>4. NoText \notin Text'
    <3>1. Gone \in NoText /\ Gone \notin 1..(changes + 1) \cup {Mark}
      BY <1>2, SyncAssumption DEF NoText
    <3> QED BY <2>1, <3>1
  <2>5. text # NoText => body = text
    BY <1>3
  <2> QED BY <1>1, <2>3, <2>4, <2>5 DEF Edits
<1>5. Extends
  BY <1>2, <1>4, WriteFrame
<1>6. Grows /\ (~raced' => ~raced)
  BY <1>2, <1>4, <1>5 DEF Grows
<1>7. ~raced' => TagsAgree' /\ Kept'
  BY <1>2, <1>3, <1>4, <1>6, TagsStay, KeptByWrite DEF SyncInv
<1>8. MadeInv'
  <2>1. ASSUME NEW e \in made'
        PROVE  \E v \in Wiki : \E n \in DOMAIN (revs'[v]) : e \in BodyOf(v, n)'
    <3>1. CASE e \in made
      BY <1>6, <3>1, MadeStays DEF SyncInv
    <3>2. CASE e = changes + 1 /\ text = Body(w) \cup {changes + 1}
      <4>1. /\ Current(w)' = Current(w) + 1 /\ revs'[w][Current(w) + 1] = text
            /\ Current(w) \in Nat /\ DOMAIN (revs'[w]) = 1..Current(w)'
        BY <1>2, <1>4, WriteFrame, Revisions, NextRevisions DEF TypeInv
      <4>2. PICK n \in Nat : n = Current(w) + 1
        BY <4>1
      <4>3. n \in DOMAIN (revs'[w]) /\ revs'[w][n] = text /\ n # 0
        BY <4>1, <4>2
      <4>4. BodyOf(w, n)' = body
        BY <1>3, <4>3 DEF BodyOf
      <4> QED BY <1>4, <3>2, <4>3, <4>4
    <3> QED BY <1>1, <2>1, <3>1, <3>2
  <2> QED BY <2>1 DEF MadeInv
<1>9. \A t \in Sync : ListedInv(t)' /\ (~raced' => Claims(t)')
  BY <1>2, <1>6, KnownStays
<1> QED BY <1>7, <1>8, <1>9 DEF SyncInv

LEMMA InitKnown == Init => SyncInv
<1> SUFFICES ASSUME Init PROVE SyncInv
  OBVIOUS
<1>1. TypeInv
  BY InitTyped
<1>2. MadeInv
  BY DEF Init, MadeInv
<1>3. ASSUME NEW s \in Sync PROVE ListedInv(s) /\ Claims(s)
  <2>1. job[s] = NoJob /\ stage[s] = "idle"
    BY DEF Init
  <2> QED BY <1>1, <2>1, OverKnown DEF ListedInv, Claims, L, R
<1>4. TagsAgree /\ Kept
  BY DEF Init, TagsAgree, Kept
<1> QED BY <1>2, <1>3, <1>4 DEF SyncInv

LEMMA NextKnown == TypeInv /\ TypeInv' /\ SyncInv /\ [Next]_vars => SyncInv'
<1> SUFFICES ASSUME TypeInv, TypeInv', SyncInv, [Next]_vars PROVE SyncInv'
  OBVIOUS
<1>1. CASE \E w \in Wiki : Edit(w) \/ Resolve(w) \/ Delete(w)
  BY <1>1, UsersKnown
<1>2. ASSUME NEW s \in Sync, NEW w \in Wiki, NEW dir \in {"both", "down"}, Start(s, w, dir)
      PROVE  SyncInv'
  BY <1>2, StartKnown
<1>3. ASSUME NEW s \in Sync, Step(s) PROVE SyncInv'
  <2>1. Skip(s) => SyncInv'
    BY EndKnown DEF Skip, Goto, Reads, bounds, observed
  <2> QED BY <1>3, <2>1, ListRemoteKnown, DeletingKnown, DeleteRemoteKnown, BeginKnown,
             ReadDiffKnown, ReadDiffNumberKnown, ReadBodyKnown, SaveLocalKnown,
             ReadNumberKnown, CheckKnown, MergeDiffKnown, MergeTagKnown, AcceptKnown,
             AddTagKnown, FinishKnown DEF Step
<1>4. ASSUME NEW s \in Sync, CallFails(s) PROVE SyncInv'
  BY <1>4, EndKnown DEF CallFails, Fails, observed
<1>5. ASSUME NEW s \in Sync, Misled(s) PROVE SyncInv'
  BY <1>5, EndKnown DEF Misled, observed
<1>6. ASSUME NEW s \in Sync, Die(s) PROVE SyncInv'
  BY <1>6, DieKnown
<1>7. CASE UNCHANGED vars
  <2>1. /\ UNCHANGED <<revs, tags, stage, job, changes, made, dropped, raced>>
    BY <1>7 DEF vars, bounds, observed
  <2>2. Grows /\ (~raced' => ~raced)
    BY <2>1, SameExtends DEF Grows, TypeInv
  <2>3. ~raced' => TagsAgree' /\ Kept'
    BY <2>1, <2>2, TagsStay, KeptStays DEF SyncInv
  <2>4. \A t \in Sync : ListedInv(t)' /\ (~raced' => Claims(t)')
    BY <2>1, <2>2, KnownStays
  <2>5. MadeInv'
    BY <2>1, <2>2, MadeStays DEF SyncInv, MadeInv
  <2> QED BY <2>3, <2>4, <2>5 DEF SyncInv
<1> QED BY <1>1, <1>2, <1>3, <1>4, <1>5, <1>6, <1>7 DEF Next

LEMMA SyncInvariant == Spec => [](TypeInv /\ SyncInv)
<1>1. Init => TypeInv /\ SyncInv
  BY InitTyped, InitKnown
<1>2. TypeInv /\ SyncInv /\ [Next]_vars => TypeInv' /\ SyncInv'
  BY NextTyped, NextKnown
<1> QED BY <1>1, <1>2, PTL DEF Spec

\* A tag tells the truth about the two revisions that it names, however many
\* synchronisations of the page overlap, and whatever calls of theirs fail.
THEOREM TagsTellTheTruth == Spec => []TagsAgree
<1>1. TypeInv /\ SyncInv => TagsAgree
  BY DEF SyncInv, TagsAgree
<1> QED BY <1>1, SyncInvariant, PTL

\* No interleaving, failure or retry of synchronisations loses an edit that nobody
\* dropped: it is in the current text of one of the wikis.
THEOREM EditsSurvive == Spec => []NoEditLost
<1>1. ASSUME TypeInv, SyncInv, ~raced, NEW e \in made, e \notin dropped
      PROVE  \E w \in Wiki : e \in Body(w)
  <2>1. PICK w \in Wiki : \E n \in DOMAIN revs[w] : e \in BodyOf(w, n)
    BY <1>1 DEF SyncInv, MadeInv
  <2>2. PICK n \in DOMAIN revs[w] : e \in BodyOf(w, n)
    BY <2>1
  <2>3. n \in 0..Current(w) /\ n # 0
    BY <1>1, <2>2, Revisions DEF TypeInv
  <2>4. e # Mark
    BY <1>1, SyncAssumption DEF TypeInv, TypeOK, ObservedType
  <2>5. Edits(BodyOf(w, n)) \subseteq Body(w) \cup dropped
    BY <1>1, <2>3, NowKept DEF SyncInv
  <2> QED BY <1>1, <2>2, <2>4, <2>5 DEF Edits
<1>2. TypeInv /\ SyncInv => NoEditLost
  BY <1>1 DEF NoEditLost
<1> QED BY <1>2, SyncInvariant, PTL

------------------------------------------------------------------------------
(* A synchronisation that nobody disturbs. *)

\* What it knows in the next state, in terms of what it then is.
LEMMA NextQuiet ==
  ASSUME NEW s \in Sync, NEW st, NEW j, NEW l, NEW r,
         stage'[s] = st, job'[s] = j, L(s)' = l, R(s)' = r
  PROVE  QuietInv(s)' <=> QuietClaim(st, j, l, r)'
BY DEF QuietInv, QuietClaim, Body, Exists, Current

LEMMA SamePages ==
  ASSUME revs' = revs, NEW st, NEW j, NEW l, NEW r
  PROVE  QuietClaim(st, j, l, r)' <=> QuietClaim(st, j, l, r)
BY DEF QuietClaim, Body, Exists, Current

\* A step that changes no page, of one synchronisation.
LEMMA QuietRead ==
  ASSUME TypeInv, AllQuietInv, revs' = revs, raced => raced', NEW s \in Sync,
         NEW st, NEW j, NEW l, NEW r,
         stage' = [stage EXCEPT ![s] = st], job' = [job EXCEPT ![s] = j],
         l = j.wiki, r = Other(j.wiki),
         \A t \in Sync : t # s => quiet'[t] = quiet[t],
         ~raced' /\ quiet'[s] => QuietClaim(st, j, l, r),
         synced' = synced \/ InSync'
  PROVE  AllQuietInv'
<1>1. stage \in [Sync -> Stages] /\ job \in [Sync -> Jobs] /\ (~raced' => ~raced)
  BY DEF TypeInv, TypeOK, JobsType
<1>2. InSync'
  <2>1. CASE synced' = synced
    <3>1. ASSUME NEW w \in Wiki, synced', ~raced' PROVE Body(w)' = Body(Other(w))'
      <4>1. \A v \in Wiki : Body(v)' = Body(v)
        BY DEF Body, Exists, Current
      <4>2. Body(w) = Body(Other(w)) /\ Other(w) \in Wiki
        BY <1>1, <2>1, <3>1, TwoWikis DEF AllQuietInv, InSync
      <4>3. PICK o \in Wiki : o = Other(w)
        BY <4>2
      <4>4. Other(w)' = o
        BY <4>3 DEF Other
      <4>5. Body(o)' = Body(w)'
        BY <4>1, <4>2, <4>3
      <4> QED BY <4>4, <4>5 DEF Body, Exists, Current
    <3> QED BY <3>1 DEF InSync
  <2> QED BY <2>1
<1>3. ASSUME NEW t \in Sync, ~raced', quiet'[t] PROVE QuietInv(t)'
  <2>1. CASE t = s
    <3>1. /\ stage'[s] = st /\ job'[s] = j /\ L(s)' = l /\ R(s)' = r
      BY <1>1 DEF L, R
    <3> QED BY <1>3, <2>1, <3>1, SamePages, NextQuiet
  <2>2. CASE t # s
    <3>1. PICK u, i, a, b : u = stage[t] /\ i = job[t] /\ a = L(t) /\ b = R(t)
      OBVIOUS
    <3>2. stage'[t] = u /\ job'[t] = i /\ L(t)' = a /\ R(t)' = b
      BY <1>1, <2>2, <3>1 DEF L, R
    <3>3. QuietClaim(u, i, a, b)
      BY <1>1, <1>3, <2>2, <3>1 DEF AllQuietInv, QuietInv
    <3> QED BY <3>2, <3>3, SamePages, NextQuiet
  <2> QED BY <2>1, <2>2
<1> QED BY <1>2, <1>3 DEF AllQuietInv

\* A step that does disturbs all others.
LEMMA QuietWrite ==
  ASSUME TypeInv, AllQuietInv, raced => raced', NEW s \in Sync, Disturb(s),
         NEW st, NEW j, NEW l, NEW r,
         stage' = [stage EXCEPT ![s] = st], job' = [job EXCEPT ![s] = j],
         l = j.wiki, r = Other(j.wiki), ~raced' /\ quiet[s] => QuietClaim(st, j, l, r)'
  PROVE  AllQuietInv'
<1>1. /\ stage \in [Sync -> Stages] /\ job \in [Sync -> Jobs] /\ (~raced' => ~raced)
      /\ ~synced' /\ \A t \in Sync : quiet'[t] => quiet[t] /\ t = s
  BY DEF TypeInv, TypeOK, JobsType, Disturb
<1>2. ASSUME ~raced', quiet'[s] PROVE QuietInv(s)'
  <2>1. /\ stage'[s] = st /\ job'[s] = j /\ L(s)' = l /\ R(s)' = r
    BY <1>1 DEF L, R
  <2> QED BY <1>1, <1>2, <2>1, NextQuiet
<1> QED BY <1>1, <1>2 DEF AllQuietInv, InSync

\* The pages after a save.
LEMMA WrittenBody ==
  ASSUME TypeInv, changes' = changes, NEW w \in Wiki, NEW text \in Text \cup {NoText},
         Write(w, text), NEW o \in Wiki, o # w
  PROVE  /\ Body(w)' = IF text = NoText THEN {} ELSE text
         /\ Body(o)' = Body(o) /\ Current(o)' = Current(o)
<1>1. TypeOK /\ changes' \in Nat /\ changes <= changes' /\ text \in Text' \cup {NoText}
  BY DEF TypeInv, TypeOK, ObservedType, Text
<1>2. /\ Current(w)' = Current(w) + 1 /\ revs'[w][Current(w) + 1] = text
      /\ revs'[Other(w)] = revs[Other(w)] /\ Current(w) \in Nat /\ o = Other(w)
  BY <1>1, WriteFrame, Revisions, TwoWikis
<1>3. revs'[w] # <<>> /\ revs'[w][Current(w)'] = text
  BY <1>2 DEF Current
<1> QED BY <1>2, <1>3 DEF Body, Exists, Current

\* What an undisturbed synchronisation knows now.
LEMMA QuietNow ==
  ASSUME TypeInv, AllQuietInv, ~raced, NEW s \in Sync, quiet[s], NEW i, NEW l, NEW r,
         i = job[s], l = L(s), r = R(s)
  PROVE  QuietClaim(stage[s], i, l, r)
BY DEF AllQuietInv, QuietInv

\* Without changes of the pages nobody is disturbed.
LEMMA QuietEnd ==
  ASSUME TypeInv, AllQuietInv, UNCHANGED <<revs, raced, quiet, synced>>, NEW s \in Sync,
         NEW st \in {"idle", "skipped", "failed"}, stage' = [stage EXCEPT ![s] = st],
         NEW j, job' = [job EXCEPT ![s] = j]
  PROVE  AllQuietInv'
<1>1. PICK l, r : l = j.wiki /\ r = Other(j.wiki)
  OBVIOUS
<1>2. QuietClaim(st, j, l, r)
  BY DEF QuietClaim
<1> QED BY <1>1, <1>2, QuietRead

LEMMA StartQuiet ==
  ASSUME TypeInv, AllQuietInv, NEW s \in Sync, NEW w \in Wiki, NEW dir, Start(s, w, dir)
  PROVE  AllQuietInv'
<1> DEFINE deleted == Deleted(w)
<1>1. PICK j : j = [NoJob EXCEPT !.wiki = w, !.dir = dir, !.lrev = Current(w), !.ldel = deleted]
  OBVIOUS
<1>2. /\ revs' = revs /\ raced' = raced /\ synced' = synced
      /\ stage' = [stage EXCEPT ![s] = "list"] /\ job' = [job EXCEPT ![s] = j]
      /\ \A t \in Sync : t # s => quiet'[t] = quiet[t]
  BY <1>1 DEF Start, Goto, observed, TypeInv, TypeOK, ObservedType
<1> HIDE DEF deleted
<1>3. PICK l, r : l = j.wiki /\ r = Other(j.wiki)
  OBVIOUS
<1>4. QuietClaim("list", j, l, r)
  BY <1>1, <1>3 DEF QuietClaim, NoJob
<1> QED BY <1>2, <1>3, <1>4, QuietRead

LEMMA ListRemoteQuiet ==
  ASSUME TypeInv, SyncInv, AllQuietInv, NEW s \in Sync, ListRemote(s) PROVE AllQuietInv'
<1>1. PICK i, l, r : i = job[s] /\ l = L(s) /\ r = R(s)
  OBVIOUS
<1> DEFINE deleted == Deleted(r)
<1>2. /\ stage[s] = "list" /\ UNCHANGED <<revs, raced, quiet, synced>>
      /\ stage' = [stage EXCEPT ![s] = "page"]
      /\ job' = [job EXCEPT ![s] = [i EXCEPT !.rrev = Current(r), !.rdel = deleted]]
  BY <1>1 DEF ListRemote, Goto, Reads, observed
<1> HIDE DEF deleted
<1>3. PICK j : j = [i EXCEPT !.rrev = Current(r), !.rdel = deleted]
  OBVIOUS
<1>4. i \in Jobs /\ l = i.wiki /\ r = Other(i.wiki)
  BY <1>1, Knows
<1>5. /\ j.wiki = i.wiki /\ j.lrev = i.lrev /\ j.rrev = Current(r)
      /\ job' = [job EXCEPT ![s] = j]
  BY <1>2, <1>3, <1>4 DEF Jobs
<1>6. ASSUME ~raced, quiet[s] PROVE QuietClaim("page", j, l, r)
  BY <1>1, <1>2, <1>5, <1>6, QuietNow DEF QuietClaim
<1>7. l = j.wiki /\ r = Other(j.wiki)
  BY <1>4, <1>5
<1> QED BY <1>2, <1>5, <1>6, <1>7, QuietRead

\* There is nothing to do if the texts are the same.
LEMMA SkipQuiet ==
  ASSUME TypeInv, SyncInv, AllQuietInv, NEW s \in Sync, Skip(s) PROVE AllQuietInv'
<1>1. PICK i, l, r : i = job[s] /\ l = L(s) /\ r = R(s)
  OBVIOUS
<1>2. /\ stage[s] = "page" /\ UNCHANGED <<revs, raced, quiet, synced>>
      /\ stage' = [stage EXCEPT ![s] = "finished"] /\ job' = [job EXCEPT ![s] = i]
      /\ NothingToDo(s) \/ i.dir = "down"
  BY <1>1 DEF Skip, Goto, Reads, observed, TypeInv, TypeOK, JobsType
<1>3. /\ i \in Jobs /\ l \in Wiki /\ r \in Wiki /\ l = i.wiki /\ r = Other(i.wiki)
      /\ Listed(i, l, r)
  BY <1>1, Knows
<1>4. ASSUME ~raced, quiet[s], i.dir = "both" PROVE Body(l) = Body(r)
  <2>1. Current(l) = i.lrev /\ Current(r) = i.rrev
    <3>1. QuietClaim(stage[s], i, l, r)
      BY <1>1, <1>4, QuietNow
    <3> QED BY <1>2, <3>1 DEF QuietClaim
  <2>2. /\ i.ldel \/ i.lrev = 0 => Body(l) = {}
        /\ i.rdel \/ i.rrev = 0 => Body(r) = {}
    BY <1>3, <2>1, Texts DEF Listed, Body, Exists, TypeInv
  <2>3. CASE Tagged(s) /\ ~RemoteChange(s) /\ ~LocalChange(s)
    <3>1. PICK cur, rem : cur = NewestTag(s).cur /\ rem = NewestTag(s).rem
      OBVIOUS
    <3>2. job[s].dir = "both" /\ Tagged(s) /\ cur = Current(l) /\ rem = Current(r)
      BY <1>1, <1>4, <2>1, <2>3, <3>1 DEF RemoteChange, LocalChange
    <3>3. BodyOf(l, cur) = BodyOf(r, rem)
      <4>1. Tagged(s) /\ job[s].dir = "both" /\ ~raced
        BY <1>4, <3>2
      <4> QED BY <1>1, <3>1, <4>1, NewestAgrees
    <3> QED BY <1>3, <3>2, <3>3, Texts DEF TypeInv
  <2>4. \/ Tagged(s) /\ ~RemoteChange(s) /\ ~LocalChange(s)
        \/ i.ldel /\ i.rdel
        \/ (i.ldel \/ i.lrev = 0) /\ i.rrev = 0
        \/ i.rdel /\ i.lrev = 0
    BY <1>1, <1>2, <1>4 DEF NothingToDo
  <2> QED BY <2>2, <2>3, <2>4
<1>5. ASSUME ~raced, quiet[s] PROVE QuietClaim("finished", i, l, r)
  BY <1>4, <1>5 DEF QuietClaim
<1> QED BY <1>2, <1>3, <1>5, QuietRead

LEMMA DeleteLocalQuiet ==
  ASSUME TypeInv, SyncInv, AllQuietInv, NEW s \in Sync, DeleteLocal(s) PROVE AllQuietInv'
<1>1. PICK i, l, r : i = job[s] /\ l = L(s) /\ r = R(s)
  OBVIOUS
<1>2. /\ stage[s] = "page" /\ Write(l, NoText) /\ Disturb(s) /\ raced' = raced
      /\ stage' = [stage EXCEPT ![s] = "finished"] /\ job' = [job EXCEPT ![s] = i]
      /\ i.rdel /\ changes' = changes
  BY <1>1 DEF DeleteLocal, DeletedRemotely, Goto, bounds, TypeInv, TypeOK, JobsType
<1>3. /\ i \in Jobs /\ l \in Wiki /\ r \in Wiki /\ l = i.wiki /\ r = Other(i.wiki)
      /\ Listed(i, l, r) /\ r # l
  BY <1>1, Knows, TwoWikis
<1>4. ASSUME ~raced, quiet[s] PROVE QuietClaim("finished", i, l, r)'
  <2>1. Current(r) = i.rrev
    <3>1. QuietClaim(stage[s], i, l, r)
      BY <1>1, <1>4, QuietNow
    <3> QED BY <1>2, <3>1 DEF QuietClaim
  <2>2. Body(r) = {}
    BY <1>2, <1>3, <2>1 DEF Listed, Body, Exists
  <2>3. Body(l)' = {} /\ Body(r)' = {}
    BY <1>2, <1>3, <2>2, WrittenBody
  <2> QED BY <2>3 DEF QuietClaim
<1> QED BY <1>2, <1>3, <1>4, QuietWrite

LEMMA MergeDeleteQuiet ==
  ASSUME TypeInv, SyncInv, AllQuietInv, NEW s \in Sync, MergeDelete(s) PROVE AllQuietInv'
<1>1. PICK i, l, r : i = job[s] /\ l = L(s) /\ r = R(s)
  OBVIOUS
<1>2. /\ stage[s] = "delete" /\ Write(r, NoText) /\ Disturb(s) /\ raced' = raced
      /\ stage' = [stage EXCEPT ![s] = "finished"] /\ job' = [job EXCEPT ![s] = i]
      /\ changes' = changes
  BY <1>1 DEF MergeDelete, Goto, bounds, TypeInv, TypeOK, JobsType
<1>3. /\ i \in Jobs /\ l \in Wiki /\ r \in Wiki /\ l = i.wiki /\ r = Other(i.wiki)
      /\ Listed(i, l, r) /\ r # l
  BY <1>1, Knows, TwoWikis
<1>4. ASSUME ~raced, quiet[s] PROVE QuietClaim("finished", i, l, r)'
  <2>1. Current(l) = i.lrev
    <3>1. QuietClaim(stage[s], i, l, r)
      BY <1>1, <1>4, QuietNow
    <3> QED BY <1>2, <3>1 DEF QuietClaim
  <2>2. i.ldel
    <3>1. Claim(stage[s], i, l, r)
      BY <1>1, <1>4, Knows
    <3> QED BY <1>2, <3>1 DEF Claim, DeletingClaim
  <2>3. Body(l) = {}
    BY <1>3, <2>1, <2>2 DEF Listed, Body, Exists
  <2>4. Body(l)' = {} /\ Body(r)' = {}
    BY <1>2, <1>3, <2>3, WrittenBody
  <2> QED BY <2>4 DEF QuietClaim
<1> QED BY <1>2, <1>3, <1>4, QuietWrite

LEMMA DeleteRemoteQuiet ==
  ASSUME TypeInv, SyncInv, AllQuietInv, NEW s \in Sync, DeleteRemote(s) PROVE AllQuietInv'
<1>1. PICK i, l, r : i = job[s] /\ l = L(s) /\ r = R(s)
  OBVIOUS
<1>2. PICK j : j = [i EXCEPT !.last = i.rrev]
  OBVIOUS
<1>3. /\ stage[s] = "page" /\ UNCHANGED <<revs, raced, quiet, synced>>
      /\ stage' = [stage EXCEPT ![s] = "check delete"] /\ job' = [job EXCEPT ![s] = j]
  BY <1>1, <1>2 DEF DeleteRemote, Goto, Reads, observed
<1>4. i \in Jobs /\ l = i.wiki /\ r = Other(i.wiki)
  BY <1>1, Knows
<1>5. j.wiki = i.wiki /\ j.lrev = i.lrev
  BY <1>2, <1>4 DEF Jobs
<1>6. ASSUME ~raced, quiet[s] PROVE QuietClaim("check delete", j, l, r)
  BY <1>1, <1>3, <1>5, <1>6, QuietNow DEF QuietClaim
<1>7. l = j.wiki /\ r = Other(j.wiki)
  BY <1>4, <1>5
<1> QED BY <1>3, <1>6, <1>7, QuietRead

\* A step that only reads keeps all that is known of the present.
LEMMA BeginQuiet ==
  ASSUME TypeInv, SyncInv, AllQuietInv, NEW s \in Sync, Begin(s) PROVE AllQuietInv'
<1>1. PICK i, l, r : i = job[s] /\ l = L(s) /\ r = R(s)
  OBVIOUS
<1>2. PICK st \in {"diff", "body"} :
        /\ stage[s] = "page" /\ UNCHANGED <<revs, raced, quiet, synced>>
        /\ stage' = [stage EXCEPT ![s] = st]
  BY DEF Begin, Goto, Reads, observed
<1>3. i \in Jobs /\ l = i.wiki /\ r = Other(i.wiki)
  BY <1>1, Knows
<1>4. PICK j : /\ j.wiki = i.wiki /\ j.lrev = i.lrev /\ j.rrev = i.rrev /\ j.last = i.rrev
               /\ job' = [job EXCEPT ![s] = j]
  <2> DEFINE a == Tagged(s)
             b == IF a THEN NewestTag(s).cur ELSE job[s].lrev
             c == IF a THEN BodyOf(L(s), NewestTag(s).cur) ELSE {}
             d == IF a /\ job[s].dir = "both" THEN NewestTag(s).rem ELSE 0
             e == d # job[s].rrev /\ ~job[s].rdel
             f == IF job[s].rdel THEN {} ELSE c
             g == d = job[s].rrev /\ Mark \in c
  <2>1. job' = [job EXCEPT ![s].tagged = a, ![s].base = b, ![s].old = c, ![s].from = d,
                           ![s].diff = e, ![s].remote = f, ![s].conf = g,
                           ![s].last = job[s].rrev]
    BY DEF Begin
  <2> HIDE DEF a, b, c, d, e, f, g
  <2>2. PICK j : j = [i EXCEPT !.tagged = a, !.base = b, !.old = c, !.from = d, !.diff = e,
                               !.remote = f, !.conf = g, !.last = i.rrev]
    OBVIOUS
  <2>3. j.wiki = i.wiki /\ j.lrev = i.lrev /\ j.rrev = i.rrev /\ j.last = i.rrev
    BY <1>3, <2>2 DEF Jobs
  <2>4. job' = [job EXCEPT ![s] = j]
    BY <1>1, <2>1, <2>2
  <2> QED BY <2>3, <2>4
<1>5. ASSUME ~raced, quiet[s] PROVE QuietClaim(st, j, l, r)
  <2>1. QuietClaim(stage[s], i, l, r)
    BY <1>1, <1>5, QuietNow
  <2> QED BY <1>2, <1>4, <2>1 DEF QuietClaim
<1>6. l = j.wiki /\ r = Other(j.wiki)
  BY <1>3, <1>4
<1> QED BY <1>2, <1>4, <1>5, <1>6, QuietRead

LEMMA ReadDiffQuiet ==
  ASSUME TypeInv, SyncInv, AllQuietInv, NEW s \in Sync, ReadDiff(s) PROVE AllQuietInv'
<1>1. PICK i, l, r : i = job[s] /\ l = L(s) /\ r = R(s)
  OBVIOUS
<1>2. i \in Jobs /\ l = i.wiki /\ r = Other(i.wiki)
  BY <1>1, Knows
<1>3. stage[s] = "diff" /\ UNCHANGED <<revs, raced, quiet, synced>>
  BY DEF ReadDiff, Reads, observed
<1>4. CASE Fails(s)
  <2>1. stage' = [stage EXCEPT ![s] = "failed"] /\ job' = [job EXCEPT ![s] = i]
    BY <1>1, <1>4 DEF Fails, TypeInv, TypeOK, JobsType
  <2> QED BY <1>3, <2>1, QuietEnd
<1>5. CASE ~Fails(s)
  <2> DEFINE conf == Mark \in Body(r)
  <2>1. PICK text : /\ job' = [job EXCEPT ![s].remote = text, ![s].conf = conf]
                    /\ stage' = [stage EXCEPT ![s] = "diff number"]
    BY <1>1, <1>5 DEF ReadDiff, Goto
  <2> HIDE DEF conf
  <2>2. PICK j : j = [i EXCEPT !.remote = text, !.conf = conf]
    OBVIOUS
  <2>3. /\ j.wiki = i.wiki /\ j.lrev = i.lrev /\ j.rrev = i.rrev
        /\ job' = [job EXCEPT ![s] = j]
    BY <1>1, <1>2, <2>1, <2>2 DEF Jobs
  <2>4. ASSUME ~raced, quiet[s] PROVE QuietClaim("diff number", j, l, r)
    <3>1. QuietClaim(stage[s], i, l, r)
      BY <1>1, <2>4, QuietNow
    <3> QED BY <1>3, <2>3, <3>1 DEF QuietClaim
  <2>5. l = j.wiki /\ r = Other(j.wiki)
    BY <1>2, <2>3
  <2> QED BY <1>3, <2>1, <2>3, <2>4, <2>5, QuietRead
<1> QED BY <1>4, <1>5

LEMMA ReadDiffNumberQuiet ==
  ASSUME TypeInv, SyncInv, AllQuietInv, NEW s \in Sync, ReadDiffNumber(s) PROVE AllQuietInv'
<1>1. PICK i, l, r : i = job[s] /\ l = L(s) /\ r = R(s)
  OBVIOUS
<1>2. PICK j : j = [i EXCEPT !.last = Current(r)]
  OBVIOUS
<1>3. /\ stage[s] = "diff number" /\ UNCHANGED <<revs, quiet, synced>>
      /\ stage' = [stage EXCEPT ![s] = "body"] /\ job' = [job EXCEPT ![s] = j]
  BY <1>1, <1>2 DEF ReadDiffNumber, Goto
<1>4. (raced => raced') /\ (~raced' => ~raced)
  BY DEF ReadDiffNumber
<1>5. i \in Jobs /\ l = i.wiki /\ r = Other(i.wiki)
  BY <1>1, Knows
<1>6. j.wiki = i.wiki /\ j.lrev = i.lrev /\ j.rrev = i.rrev /\ j.last = Current(r)
  BY <1>2, <1>5 DEF Jobs
<1>7. ASSUME ~raced, quiet[s] PROVE QuietClaim("body", j, l, r)
  <2>1. QuietClaim(stage[s], i, l, r)
    BY <1>1, <1>7, QuietNow
  <2> QED BY <1>3, <1>6, <2>1 DEF QuietClaim
<1>8. l = j.wiki /\ r = Other(j.wiki)
  BY <1>5, <1>6
<1> QED BY <1>3, <1>4, <1>7, <1>8, QuietRead

LEMMA ReadBodyQuiet ==
  ASSUME TypeInv, SyncInv, AllQuietInv, NEW s \in Sync, ReadBody(s) PROVE AllQuietInv'
<1>1. PICK i, l, r : i = job[s] /\ l = L(s) /\ r = R(s)
  OBVIOUS
<1>2. PICK st \in {"skipped", "save"} :
        /\ stage[s] = "body" /\ stage' = [stage EXCEPT ![s] = st]
        /\ UNCHANGED <<revs, raced, quiet, synced>>
  BY DEF ReadBody, Goto, Reads, observed
<1>3. PICK text \in MergedTexts(s, Body(l)) :
        job' = [job EXCEPT ![s].body = Body(l), ![s].merged = text]
  BY <1>1 DEF ReadBody
<1> DEFINE j == [i EXCEPT !.body = Body(l), !.merged = text]
<1>4. i \in Jobs /\ l = i.wiki /\ r = Other(i.wiki)
  BY <1>1, Knows
<1>5. /\ j.wiki = i.wiki /\ j.lrev = i.lrev /\ j.rrev = i.rrev /\ j.last = i.last
      /\ job' = [job EXCEPT ![s] = j]
  BY <1>1, <1>3, <1>4 DEF Jobs, TypeInv, TypeOK, JobsType
<1> HIDE DEF j
<1>6. ASSUME ~raced, quiet[s] PROVE QuietClaim(st, j, l, r)
  <2>1. QuietClaim(stage[s], i, l, r)
    BY <1>1, <1>6, QuietNow
  <2> QED BY <1>2, <1>5, <2>1 DEF QuietClaim
<1>7. l = j.wiki /\ r = Other(j.wiki)
  BY <1>4, <1>5
<1> QED BY <1>2, <1>5, <1>6, <1>7, QuietRead

LEMMA SaveLocalQuiet ==
  ASSUME TypeInv, SyncInv, AllQuietInv, NEW s \in Sync, SaveLocal(s) PROVE AllQuietInv'
<1>1. PICK i, l, r : i = job[s] /\ l = L(s) /\ r = R(s)
  OBVIOUS
<1>2. /\ i \in Jobs /\ l \in Wiki /\ r \in Wiki /\ l = i.wiki /\ r = Other(i.wiki) /\ r # l
  BY <1>1, Knows, TwoWikis
<1>3. stage[s] = "save" /\ raced' = raced /\ changes' = changes
  BY DEF SaveLocal, bounds
<1>4. CASE Fails(s)
  <2>1. /\ stage' = [stage EXCEPT ![s] = "failed"] /\ job' = [job EXCEPT ![s] = i]
        /\ UNCHANGED <<revs, quiet, synced>>
    BY <1>1, <1>3, <1>4 DEF SaveLocal, Fails, Goto, TypeInv, TypeOK, JobsType
  <2> QED BY <1>3, <2>1, QuietEnd
<1>5. CASE ~Fails(s)
  <2> DEFINE done == i.merged # i.body
  <2>1. /\ stage' = [stage EXCEPT ![s] = "number"]
        /\ job' = [job EXCEPT ![s] = [i EXCEPT !.done = done]]
        /\ IF i.merged = i.body THEN UNCHANGED <<revs, quiet, synced>>
           ELSE Write(l, i.merged) /\ Disturb(s)
    BY <1>1, <1>5 DEF SaveLocal, Goto
  <2> HIDE DEF done
  <2>2. PICK j : j = [i EXCEPT !.done = done]
    OBVIOUS
  <2>3. /\ j.wiki = i.wiki /\ j.rrev = i.rrev /\ j.last = i.last /\ j.merged = i.merged
        /\ job' = [job EXCEPT ![s] = j]
    BY <1>2, <2>1, <2>2 DEF Jobs
  <2>4. l = j.wiki /\ r = Other(j.wiki)
    BY <1>2, <2>3
  <2>5. ASSUME ~raced, quiet[s]
        PROVE  Current(l) = i.lrev /\ Current(r) = i.rrev /\ Current(r) = i.last /\ i.body = Body(l)
    <3>1. QuietClaim(stage[s], i, l, r) /\ Claim(stage[s], i, l, r)
      BY <1>1, <2>5, QuietNow, Knows
    <3> QED BY <1>3, <3>1 DEF QuietClaim, Claim, MergedClaim
  <2>6. CASE i.merged = i.body
    <3>1. ASSUME ~raced, quiet[s] PROVE QuietClaim("number", j, l, r)
      BY <2>3, <2>5, <2>6, <3>1 DEF QuietClaim
    <3> QED BY <1>3, <2>1, <2>3, <2>4, <2>6, <3>1, QuietRead
  <2>7. CASE i.merged # i.body
    <3>1. i.merged \in Text /\ i.merged # NoText
      BY <1>2, Revisions DEF Jobs, TypeInv
    <3>2. Write(l, i.merged) /\ Disturb(s)
      BY <2>1, <2>7
    <3>3. Body(l)' = i.merged /\ Current(r)' = Current(r)
      BY <1>2, <1>3, <3>1, <3>2, WrittenBody
    <3>4. ASSUME ~raced, quiet[s] PROVE QuietClaim("number", j, l, r)'
      BY <2>3, <2>5, <3>3, <3>4 DEF QuietClaim
    <3> QED BY <1>3, <2>1, <2>3, <2>4, <3>2, <3>4, QuietWrite
  <2> QED BY <2>6, <2>7
<1> QED BY <1>4, <1>5

LEMMA ReadNumberQuiet ==
  ASSUME TypeInv, SyncInv, AllQuietInv, NEW s \in Sync, ReadNumber(s) PROVE AllQuietInv'
<1>1. PICK i, l, r : i = job[s] /\ l = L(s) /\ r = R(s)
  OBVIOUS
<1>2. PICK j : j = [i EXCEPT !.newrev = Current(l)]
  OBVIOUS
<1>3. PICK st : st = IF i.dir = "both" THEN "check" ELSE "tag"
  OBVIOUS
<1>4. /\ stage[s] = "number" /\ UNCHANGED <<revs, quiet, synced>>
      /\ stage' = [stage EXCEPT ![s] = st] /\ job' = [job EXCEPT ![s] = j]
  BY <1>1, <1>2, <1>3 DEF ReadNumber, Goto
<1>5. (raced => raced') /\ (~raced' => ~raced)
  BY DEF ReadNumber
<1>6. i \in Jobs /\ l = i.wiki /\ r = Other(i.wiki)
  BY <1>1, Knows
<1>7. j.wiki = i.wiki /\ j.dir = i.dir /\ j.last = i.last /\ j.merged = i.merged
  BY <1>2, <1>6 DEF Jobs
<1>8. ASSUME ~raced, quiet[s] PROVE QuietClaim(st, j, l, r)
  <2>1. QuietClaim(stage[s], i, l, r)
    BY <1>1, <1>8, QuietNow
  <2> QED BY <1>3, <1>4, <1>7, <2>1 DEF QuietClaim
<1>9. l = j.wiki /\ r = Other(j.wiki)
  BY <1>6, <1>7
<1> QED BY <1>4, <1>5, <1>8, <1>9, QuietRead

LEMMA CheckQuiet ==
  ASSUME TypeInv, SyncInv, AllQuietInv, NEW s \in Sync, Check(s) PROVE AllQuietInv'
<1>1. PICK i, l, r : i = job[s] /\ l = L(s) /\ r = R(s)
  OBVIOUS
<1>2. /\ i \in Jobs /\ l = i.wiki /\ r = Other(i.wiki)
      /\ UNCHANGED <<revs, raced, quiet, synced>> /\ job' = [job EXCEPT ![s] = i]
  <2>1. i \in Jobs /\ l = i.wiki /\ r = Other(i.wiki)
    BY <1>1, Knows
  <2>2. UNCHANGED <<revs, raced, quiet, synced>> /\ job' = job
    BY DEF Check, Reads, observed, Fails
  <2>3. job' = [job EXCEPT ![s] = i]
    BY <1>1, <2>2 DEF TypeInv, TypeOK, JobsType
  <2> QED BY <2>1, <2>2, <2>3
<1>3. PICK st \in {"failed", "merge", "delete"} :
        /\ stage' = [stage EXCEPT ![s] = st]
        /\ st = "merge" => stage[s] = "check"
        /\ st = "delete" => stage[s] = "check delete"
  BY DEF Check, Fails, TypeInv, TypeOK, JobsType
<1>4. ASSUME ~raced, quiet[s] PROVE QuietClaim(st, i, l, r)
  <2>1. QuietClaim(stage[s], i, l, r)
    BY <1>1, <1>4, QuietNow
  <2> QED BY <1>3, <2>1 DEF QuietClaim
<1> QED BY <1>2, <1>3, <1>4, QuietRead

LEMMA MergeDiffQuiet ==
  ASSUME TypeInv, SyncInv, AllQuietInv, NEW s \in Sync, MergeDiff(s) PROVE AllQuietInv'
<1>1. PICK i, l, r : i = job[s] /\ l = L(s) /\ r = R(s)
  OBVIOUS
<1>2. PICK text \in Patched(BodyOf(r, i.last), i.remote, i.merged) :
        /\ stage[s] = "merge" /\ changes' = changes
        /\ raced' = (raced \/ (i.last = 0 /\ Current(r) # 0))
        /\ IF text = {} \/ StaleRev(r, i.last)
           THEN Fails(s) /\ UNCHANGED <<revs, quiet, synced>>
           ELSE /\ Goto(s, "merge", "merge tag") /\ job' = [job EXCEPT ![s].body = text]
                /\ IF text = Body(r) THEN UNCHANGED <<revs, quiet, synced>>
                   ELSE Write(r, text) /\ Disturb(s)
  BY <1>1 DEF MergeDiff, bounds
<1>3. /\ i \in Jobs /\ l \in Wiki /\ r \in Wiki /\ l = i.wiki /\ r = Other(i.wiki) /\ r # l
  BY <1>1, Knows, TwoWikis
<1>4. (raced => raced') /\ (~raced' => ~raced /\ (i.last = 0 => Current(r) = 0))
  BY <1>2 DEF TypeInv, TypeOK, ObservedType
<1>5. CASE text = {} \/ StaleRev(r, i.last)
  <2>1. /\ stage' = [stage EXCEPT ![s] = "failed"] /\ job' = [job EXCEPT ![s] = i]
        /\ UNCHANGED <<revs, quiet, synced>>
    BY <1>1, <1>2, <1>5 DEF Fails, TypeInv, TypeOK, JobsType
  <2>2. QuietClaim("failed", i, l, r)
    BY DEF QuietClaim
  <2> QED BY <1>3, <1>4, <2>1, <2>2, QuietRead
<1>6. CASE text # {} /\ ~StaleRev(r, i.last)
  <2>1. PICK j : j = [i EXCEPT !.body = text]
    OBVIOUS
  <2>2. /\ stage' = [stage EXCEPT ![s] = "merge tag"] /\ job' = [job EXCEPT ![s] = j]
        /\ IF text = Body(r) THEN UNCHANGED <<revs, quiet, synced>>
           ELSE Write(r, text) /\ Disturb(s)
    BY <1>1, <1>2, <1>6, <2>1 DEF Goto
  <2>3. j.wiki = i.wiki /\ j.merged = i.merged
    BY <1>3, <2>1 DEF Jobs
  <2>4. l = j.wiki /\ r = Other(j.wiki)
    BY <1>3, <2>3
  <2>5. ASSUME ~raced', quiet[s] PROVE text = j.merged /\ Body(l) = j.merged
    <3>1. stage[s] = "merge" /\ ~raced /\ ~StaleRev(r, i.last) /\ (i.last = 0 => Current(r) = 0)
      BY <1>2, <1>4, <1>6, <2>5
    <3>2. Patched(BodyOf(r, i.last), i.remote, i.merged) = {i.merged}
      BY <1>1, <3>1, PatchFits
    <3>3. QuietClaim("merge", i, l, r)
      BY <1>1, <2>5, <3>1, QuietNow
    <3> QED BY <2>3, <3>2, <3>3 DEF QuietClaim
  <2>6. CASE text = Body(r)
    <3>1. ASSUME ~raced', quiet[s] PROVE QuietClaim("merge tag", j, l, r)
      BY <2>5, <2>6, <3>1 DEF QuietClaim
    <3> QED BY <1>4, <2>2, <2>4, <2>6, <3>1, QuietRead
  <2>7. CASE text # Body(r)
    <3>1. Write(r, text) /\ Disturb(s)
      BY <2>2, <2>7
    <3>2. ASSUME ~raced', quiet[s] PROVE QuietClaim("merge tag", j, l, r)'
      <4>1. i.merged \in Text /\ i.merged # NoText
        BY <1>3, Revisions DEF Jobs, TypeInv
      <4>2. text \in Text \cup {NoText} /\ text # NoText
        BY <2>3, <2>5, <3>2, <4>1
      <4>3. Body(r)' = text /\ Body(l)' = Body(l)
        BY <1>2, <1>3, <3>1, <4>2, WrittenBody
      <4> QED BY <2>5, <3>2, <4>3 DEF QuietClaim
    <3> QED BY <1>4, <2>2, <2>4, <3>1, <3>2, QuietWrite
  <2> QED BY <2>6, <2>7
<1> QED BY <1>5, <1>6

LEMMA MergeTagQuiet ==
  ASSUME TypeInv, SyncInv, AllQuietInv, NEW s \in Sync, MergeTag(s) PROVE AllQuietInv'
<1>1. PICK i, l, r : i = job[s] /\ l = L(s) /\ r = R(s)
  OBVIOUS
<1>2. PICK j : j = [i EXCEPT !.last = Current(r)]
  OBVIOUS
<1>3. /\ stage[s] = "merge tag" /\ UNCHANGED <<revs, quiet, synced>>
      /\ stage' = [stage EXCEPT ![s] = "answer"] /\ job' = [job EXCEPT ![s] = j]
  BY <1>1, <1>2 DEF MergeTag, Goto, Answer
<1>4. (raced => raced') /\ (~raced' => ~raced)
  BY DEF MergeTag
<1>5. i \in Jobs /\ l = i.wiki /\ r = Other(i.wiki)
  BY <1>1, Knows
<1>6. j.wiki = i.wiki /\ j.dir = i.dir /\ j.merged = i.merged
  BY <1>2, <1>5 DEF Jobs
<1>7. ASSUME ~raced, quiet[s] PROVE QuietClaim("answer", j, l, r)
  <2>1. QuietClaim(stage[s], i, l, r)
    BY <1>1, <1>7, QuietNow
  <2> QED BY <1>3, <1>6, <2>1 DEF QuietClaim
<1>8. l = j.wiki /\ r = Other(j.wiki)
  BY <1>5, <1>6
<1> QED BY <1>3, <1>4, <1>7, <1>8, QuietRead

\* The last steps: both wikis have the merged text.
LEMMA TailQuiet ==
  ASSUME TypeInv, SyncInv, AllQuietInv, NEW s \in Sync, Accept(s) \/ AddTag(s)
  PROVE  AllQuietInv'
<1>1. PICK i, l, r : i = job[s] /\ l = L(s) /\ r = R(s)
  OBVIOUS
<1>2. PICK j : j = [i EXCEPT !.done = FALSE]
  OBVIOUS
<1>3. PICK st \in {"tag", "finished", "skipped"} :
        /\ stage[s] \in {"answer", "tag"} /\ UNCHANGED <<revs, raced, quiet, synced>>
        /\ stage' = [stage EXCEPT ![s] = st] /\ job' = [job EXCEPT ![s] = j]
  BY <1>1, <1>2 DEF Accept, AddTag, Goto, Reads, observed
<1>4. i \in Jobs /\ l = i.wiki /\ r = Other(i.wiki)
  BY <1>1, Knows
<1>5. j.wiki = i.wiki /\ j.dir = i.dir /\ j.merged = i.merged
  BY <1>2, <1>4 DEF Jobs
<1>6. ASSUME ~raced, quiet[s] PROVE QuietClaim(st, j, l, r)
  <2>1. QuietClaim(stage[s], i, l, r)
    BY <1>1, <1>6, QuietNow
  <2> QED BY <1>3, <1>5, <2>1 DEF QuietClaim
<1>7. l = j.wiki /\ r = Other(j.wiki)
  BY <1>4, <1>5
<1> QED BY <1>3, <1>6, <1>7, QuietRead

\* The end: if nobody disturbed it, the wikis have the same text.
LEMMA FinishQuiet ==
  ASSUME TypeInv, SyncInv, AllQuietInv, NEW s \in Sync, Finish(s) PROVE AllQuietInv'
<1>1. PICK i, l, r : i = job[s] /\ l = L(s) /\ r = R(s)
  OBVIOUS
<1>2. /\ stage' = [stage EXCEPT ![s] = "idle"] /\ job' = [job EXCEPT ![s] = NoJob]
      /\ raced' = raced
  BY DEF Finish
<1>3. PICK a, b : a = NoJob.wiki /\ b = Other(NoJob.wiki)
  OBVIOUS
<1>4. /\ QuietClaim("idle", NoJob, a, b)
      /\ QuietClaim("idle", NoJob, a, b)'
  BY DEF QuietClaim
<1>5. CASE UNCHANGED <<revs, quiet, synced>>
  BY <1>2, <1>5, QuietEnd
<1>6. CASE Disturb(s)
  BY <1>2, <1>3, <1>4, <1>6, QuietWrite
<1>7. CASE /\ UNCHANGED <<revs, quiet>>
           /\ synced' = (synced \/ (quiet[s] /\ stage[s] = "finished" /\ job[s].dir = "both"))
  <2>1. CASE synced' = synced
    BY <1>2, <1>7, <2>1, QuietEnd
  <2>2. CASE quiet[s] /\ stage[s] = "finished" /\ i.dir = "both"
    <3>1. /\ \A w \in Wiki : w = l \/ w = r
          /\ l = Other(r) /\ r = Other(l) /\ l \in Wiki /\ r \in Wiki
      BY <1>1, Knows, TwoWikis
    <3>2. ASSUME ~raced PROVE Body(l) = Body(r)
      <4>1. QuietClaim(stage[s], i, l, r)
        BY <1>1, <2>2, <3>2, QuietNow
      <4> QED BY <2>2, <4>1 DEF QuietClaim
    <3>3. Body(l)' = Body(l) /\ Body(r)' = Body(r)
      BY <1>7 DEF Body, Exists, Current
    <3>4. ASSUME NEW w \in Wiki, ~raced' PROVE Body(w)' = Body(Other(w))'
      <4>1. PICK o \in Wiki : o = Other(w)
        BY TwoWikis
      <4>2. Other(w)' = o
        BY <4>1 DEF Other
      <4>3. Body(w)' = Body(o)'
        BY <1>2, <3>1, <3>2, <3>3, <3>4, <4>1
      <4> QED BY <4>2, <4>3 DEF Body, Exists, Current
    <3>5. InSync'
      BY <3>4 DEF InSync
    <3> QED BY <1>2, <1>3, <1>4, <1>7, <3>5, QuietRead
  <2>3. synced \in BOOLEAN
    BY DEF TypeInv, TypeOK, ObservedType
  <2> QED BY <1>1, <1>7, <2>1, <2>2, <2>3
<1> QED BY <1>2, <1>5, <1>6, <1>7 DEF Finish, RollBack

LEMMA NextAllQuiet == TypeInv /\ SyncInv /\ AllQuietInv /\ [Next]_vars => AllQuietInv'
<1> SUFFICES ASSUME TypeInv, SyncInv, AllQuietInv, [Next]_vars PROVE AllQuietInv'
  OBVIOUS
<1>1. CASE \E w \in Wiki : Edit(w) \/ Resolve(w) \/ Delete(w)
  <2>1. synced' = FALSE /\ \A t \in Sync : quiet'[t] = FALSE
    BY <1>1 DEF Edit, Resolve, Delete, Change
  <2> QED BY <2>1 DEF AllQuietInv, InSync
<1>2. ASSUME NEW s \in Sync, NEW w \in Wiki, NEW dir \in {"both", "down"}, Start(s, w, dir)
      PROVE  AllQuietInv'
  BY <1>2, StartQuiet
<1>3. ASSUME NEW s \in Sync, Step(s) PROVE AllQuietInv'
  BY <1>3, ListRemoteQuiet, SkipQuiet, DeleteLocalQuiet, DeleteRemoteQuiet, BeginQuiet,
     ReadDiffQuiet, ReadDiffNumberQuiet, ReadBodyQuiet, SaveLocalQuiet, ReadNumberQuiet,
     CheckQuiet, MergeDiffQuiet, MergeTagQuiet, MergeDeleteQuiet, TailQuiet, FinishQuiet
     DEF Step
<1>4. ASSUME NEW s \in Sync, CallFails(s) \/ Misled(s) \/ Die(s) PROVE AllQuietInv'
  <2>1. PICK st \in {"idle", "skipped", "failed"} :
          stage' = [stage EXCEPT ![s] = st] /\ UNCHANGED <<revs, raced, quiet, synced>>
    BY <1>4 DEF CallFails, Misled, Die, Fails, observed
  <2>2. \E j : job' = [job EXCEPT ![s] = j]
    <3>1. job = [job EXCEPT ![s] = job[s]]
      BY DEF TypeInv, TypeOK, JobsType
    <3> QED BY <1>4, <3>1 DEF CallFails, Misled, Die, Fails
  <2> QED BY <2>1, <2>2, QuietEnd
<1>5. CASE UNCHANGED vars
  BY <1>5 DEF vars, bounds, observed, AllQuietInv, InSync, QuietInv, QuietClaim, Body,
              Exists, Current, L, R
<1> QED BY <1>1, <1>2, <1>3, <1>4, <1>5 DEF Next

LEMMA InitQuiet == Init => AllQuietInv
<1> SUFFICES ASSUME Init PROVE AllQuietInv
  OBVIOUS
<1>1. \A s \in Sync : stage[s] = "idle"
  BY DEF Init
<1>2. ~synced
  BY DEF Init
<1> QED BY <1>1, <1>2 DEF AllQuietInv, InSync, QuietInv, QuietClaim

\* A synchronisation in both directions that nobody disturbs leaves both wikis with the
\* same text, whatever was left by those before it that failed or died.
THEOREM SynchronisationConverges == Spec => []InSync
<1>1. Init => TypeInv /\ SyncInv /\ AllQuietInv
  BY InitTyped, InitKnown, InitQuiet
<1>2. /\ TypeInv /\ SyncInv /\ AllQuietInv /\ [Next]_vars
      => TypeInv' /\ SyncInv' /\ AllQuietInv'
  BY NextTyped, NextKnown, NextAllQuiet
<1>3. AllQuietInv => InSync
  BY DEF AllQuietInv
<1> QED BY <1>1, <1>2, <1>3, PTL DEF Spec
=============================================================================
