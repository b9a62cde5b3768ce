------------------------- MODULE RPCAggregatorProofs -------------------------
(***************************************************************************)
(* Proofs about RPCAggregator, for any number of handlers, any max_calls   *)
(* and any pre-calls: RightResult and BatchBound, from an invariant that   *)
(* says where every handler that has not ended is, and what is in its slot.*)
(***************************************************************************)
EXTENDS RPCAggregator, FiniteSetTheorems, TLAPS

Results == [of : Page \cup STRING, call : Nat, fault : BOOLEAN]

Types ==
  /\ gens \in Seq(Page) /\ gensTodo \in Seq(Page) /\ callList \in Seq(Page)
  /\ slot \in [Page -> Results \cup {NoResult}]
  /\ made \in [Page -> Nat]
  /\ got \in [Page -> Seq(Results \cup {NoResult})]

\* A batch has at most one call more than max_calls, PreCalls apart.
BatchBound == Len(callList) <= MaxCalls + 1

\* x is a result that p may take for that of its n-th call.
Right(p, n, x) == x # NoResult /\ (x.fault \/ (x.of = p /\ x.call = n))

\* A handler is in one of the two lists, once; one that waits for the batch is in that
\* of the next round.
Scheduled ==
  /\ Distinct(gens) /\ Distinct(gensTodo)
  /\ Members(gens) \cap Members(gensTodo) = {}
  /\ Members(callList) \subseteq Members(gensTodo)
Waiting == Members(gens) \cup Members(gensTodo)

\* A handler that has called has fetched all results but the last, and unless its call
\* is in the batch to come, the last one is in its slot.
Answered ==
  \A p \in Waiting :
    /\ made[p] = 0 => Len(got[p]) = 0 /\ p \notin Members(callList)
    /\ made[p] > 0 => Len(got[p]) = made[p] - 1
    /\ made[p] > 0 /\ p \notin Members(callList) => Right(p, made[p], slot[p])

AllRight == \A p \in Page : \A n \in 1..Len(got[p]) : Right(p, n, got[p][n])

Inv == Types /\ Scheduled /\ Answered /\ AllRight /\ BatchBound
------------------------------------------------------------------------------
(***************************************************************************)
(* Sequences without repetition.                                           *)
(***************************************************************************)
LEMMA TailDistinct ==
  ASSUME NEW S, NEW q \in Seq(S), q # <<>>, Distinct(q)
  PROVE  /\ Head(q) \in Members(q) /\ Head(q) \notin Members(Tail(q))
         /\ Tail(q) \in Seq(S) /\ Distinct(Tail(q))
         /\ Members(q) = Members(Tail(q)) \cup {Head(q)}
<1>1. /\ Tail(q) \in Seq(S) /\ Len(q) \in Nat \ {0} /\ Len(Tail(q)) = Len(q) - 1
      /\ Head(q) = q[1]
      /\ \A i \in 1..Len(Tail(q)) : Tail(q)[i] = q[i + 1]
  OBVIOUS
<1>2. Distinct(Tail(q)) /\ Head(q) \notin Members(Tail(q))
  BY <1>1 DEF Distinct, Members
<1>3. Head(q) \in Members(q) /\ Members(Tail(q)) \subseteq Members(q)
  BY <1>1 DEF Members
<1>4. Members(q) \subseteq Members(Tail(q)) \cup {Head(q)}
  <2> SUFFICES ASSUME NEW i \in 1..Len(q), i # 1 PROVE q[i] \in Members(Tail(q))
    BY <1>1 DEF Members
  <2>1. i - 1 \in 1..Len(Tail(q)) /\ Tail(q)[i - 1] = q[i]
    BY <1>1
  <2> QED BY <2>1 DEF Members
<1> QED BY <1>1, <1>2, <1>3, <1>4

LEMMA AppendMembers ==
  ASSUME NEW S, NEW q \in Seq(S), NEW x \in S
  PROVE  /\ Append(q, x) \in Seq(S) /\ Len(Append(q, x)) = Len(q) + 1
         /\ Members(Append(q, x)) = Members(q) \cup {x}
<1>1. /\ Append(q, x) \in Seq(S) /\ Len(q) \in Nat /\ Len(Append(q, x)) = Len(q) + 1
      /\ Append(q, x)[Len(q) + 1] = x
      /\ \A i \in 1..Len(q) : Append(q, x)[i] = q[i]
  OBVIOUS
<1>2. Members(q) \cup {x} \subseteq Members(Append(q, x))
  BY <1>1 DEF Members
<1>3. Members(Append(q, x)) \subseteq Members(q) \cup {x}
  BY <1>1 DEF Members
<1> QED BY <1>1, <1>2, <1>3

LEMMA AppendDistinct ==
  ASSUME NEW S, NEW q \in Seq(S), NEW x \in S, Distinct(q), x \notin Members(q)
  PROVE  Distinct(Append(q, x))
<1>1. /\ Len(q) \in Nat /\ Len(Append(q, x)) = Len(q) + 1
      /\ Append(q, x)[Len(q) + 1] = x
      /\ \A i \in 1..Len(q) : Append(q, x)[i] = q[i]
  OBVIOUS
<1> QED BY <1>1 DEF Distinct, Members

\* What is in a sequence of elements of a set is in the set.
LEMMA MembersType ==
  ASSUME NEW S, NEW q \in Seq(S)
  PROVE  Members(q) \subseteq S
BY DEF Members

LEMMA NoMembers == Members(<<>>) = {} /\ Distinct(<<>>) /\ Len(<<>>) = 0
BY DEF Members, Distinct
------------------------------------------------------------------------------
(***************************************************************************)
(* The invariant.                                                          *)
(***************************************************************************)
LEMMA InitInv == Init => Inv
<1> SUFFICES ASSUME Init PROVE Inv
  OBVIOUS
<1>1. Cardinality(Page) \in Nat
  BY AggregatorAssumption, FS_CardinalityType
<1>2. Types
  BY <1>1, AggregatorAssumption DEF Init, Types, Results
<1>3. Scheduled /\ Answered /\ AllRight
  BY <1>2, NoMembers DEF Init, Scheduled, Answered, AllRight, Waiting, Types
<1>4. BatchBound
  BY NoMembers, AggregatorAssumption DEF Init, BatchBound
<1> QED BY <1>2, <1>3, <1>4 DEF Inv

\* What a visit takes from the first list.
LEMMA VisitTakes ==
  ASSUME Inv, NEW p \in Page, Visit(p)
  PROVE  /\ gens' \in Seq(Page) /\ Distinct(gens') /\ p \notin Members(gens')
         /\ Members(gens) = Members(gens') \cup {p}
         /\ p \notin Members(gensTodo) /\ p \notin Members(callList)
<1>1. gens \in Seq(Page) /\ gens # <<>> /\ Distinct(gens)
  BY DEF Inv, Types, Scheduled, Visit
<1>2. p = Head(gens) /\ gens' = Tail(gens)
  BY DEF Visit
<1>3. /\ gens' \in Seq(Page) /\ Distinct(gens') /\ p \notin Members(gens')
      /\ Members(gens) = Members(gens') \cup {p}
  BY <1>1, <1>2, TailDistinct
<1> QED BY <1>3 DEF Inv, Scheduled

\* A handler that is put into the next round's list.
LEMMA Requeued ==
  ASSUME Inv, NEW p \in Page, Visit(p), gensTodo' = Append(gensTodo, p)
  PROVE  /\ gensTodo' \in Seq(Page)
         /\ Members(gensTodo') = Members(gensTodo) \cup {p}
         /\ Distinct(gens') /\ Distinct(gensTodo')
         /\ Members(gens') \cap Members(gensTodo') = {}
         /\ Waiting' = Waiting
<1>1. gensTodo \in Seq(Page) /\ Distinct(gensTodo)
  BY DEF Inv, Types, Scheduled
<1>2. /\ gensTodo' \in Seq(Page)
      /\ Members(gensTodo') = Members(gensTodo) \cup {p}
  BY <1>1, AppendMembers
<1>3. Distinct(gensTodo')
  BY <1>1, VisitTakes, AppendDistinct
<1> QED BY <1>2, <1>3, VisitTakes DEF Inv, Scheduled, Waiting

LEMMA DeferInv ==
  ASSUME Inv, NEW p \in Page, Defer(p)
  PROVE  Inv'
<1>1. Visit(p) /\ gensTodo' = Append(gensTodo, p) /\ UNCHANGED <<callList, slot, made, got>>
  BY DEF Defer
<1>2. Types'
  BY <1>1, VisitTakes, Requeued DEF Inv, Types
<1>3. Scheduled'
  BY <1>1, Requeued DEF Inv, Scheduled
<1>4. Answered'
  BY <1>1, Requeued DEF Inv, Answered
<1>5. AllRight' /\ BatchBound'
  BY <1>1 DEF Inv, AllRight, BatchBound
<1> QED BY <1>2, <1>3, <1>4, <1>5 DEF Inv

\* The handler fetches a result that is right.
LEMMA ResumeRight ==
  ASSUME Inv, NEW p \in Page, Resume(p)
  PROVE  /\ AllRight' /\ got' \in [Page -> Seq(Results \cup {NoResult})]
         /\ slot' \in [Page -> Results \cup {NoResult}]
         /\ \A q \in Page \ {p} : got'[q] = got[q] /\ slot'[q] = slot[q]
         /\ Len(got'[p]) = made[p]
<1>1. Visit(p) /\ p \in Waiting /\ p \notin Members(callList)
  BY VisitTakes DEF Resume, Waiting
<1>2. /\ slot \in [Page -> Results \cup {NoResult}] /\ made[p] \in Nat
      /\ got \in [Page -> Seq(Results \cup {NoResult})]
  BY DEF Inv, Types
<1>3. /\ slot' \in [Page -> Results \cup {NoResult}]
      /\ \A q \in Page \ {p} : slot'[q] = slot[q]
  BY <1>2 DEF Resume
<1>4. CASE made[p] = 0
  <2>1. got' = got /\ Len(got[p]) = 0
    BY <1>1, <1>4 DEF Resume, Inv, Answered
  <2> QED BY <2>1, <1>2, <1>3, <1>4 DEF Inv, AllRight
<1>5. CASE made[p] > 0
  <2>1. got' = [got EXCEPT ![p] = Append(@, slot[p])]
    BY <1>2, <1>5 DEF Resume
  <2>2. Len(got[p]) = made[p] - 1 /\ Right(p, made[p], slot[p])
    BY <1>1, <1>5 DEF Inv, Answered
  <2>3. /\ got[p] \in Seq(Results \cup {NoResult})
        /\ slot[p] \in Results \cup {NoResult}
        /\ got'[p] = Append(got[p], slot[p])
        /\ \A q \in Page \ {p} : got'[q] = got[q]
    BY <1>2, <2>1
  <2>4. got' \in [Page -> Seq(Results \cup {NoResult})]
    BY <1>2, <2>1, <2>3
  <2>5. /\ Len(got'[p]) = made[p] /\ got'[p][made[p]] = slot[p]
        /\ \A n \in 1..(made[p] - 1) : got'[p][n] = got[p][n]
    BY <2>2, <2>3, <1>2
  <2>6. \A n \in 1..Len(got'[p]) : Right(p, n, got'[p][n])
    <3> SUFFICES ASSUME NEW n \in 1..Len(got'[p]) PROVE Right(p, n, got'[p][n])
      OBVIOUS
    <3>1. CASE n = made[p]
      BY <3>1, <2>2, <2>5
    <3>2. CASE n # made[p]
      <4>1. n \in 1..Len(got[p])
        BY <3>2, <2>2, <2>5, <1>2
      <4>2. Right(p, n, got[p][n])
        BY <4>1 DEF Inv, AllRight
      <4> QED BY <4>1, <4>2, <2>2, <2>5
    <3> QED BY <3>1, <3>2
  <2>7. \A q \in Page \ {p} : \A n \in 1..Len(got'[q]) : Right(q, n, got'[q][n])
    BY <2>3 DEF Inv, AllRight
  <2>8. AllRight'
    BY <2>6, <2>7 DEF AllRight
  <2> QED BY <2>3, <2>4, <2>5, <2>8, <1>3
<1> QED BY <1>2, <1>4, <1>5

\* Handlers wait in the lists, and for the batch.
LEMMA WaitingType ==
  ASSUME Inv
  PROVE  Waiting \subseteq Page /\ Members(callList) \subseteq Page
<1>1. gens \in Seq(Page) /\ gensTodo \in Seq(Page) /\ callList \in Seq(Page)
  BY DEF Inv, Types
<1>2. Members(gens) \subseteq Page /\ Members(gensTodo) \subseteq Page
      /\ Members(callList) \subseteq Page
  BY <1>1, MembersType
<1> QED BY <1>2 DEF Waiting

\* A handler that returns or raises is in neither list any more.
LEMMA LeaveInv ==
  ASSUME Inv, NEW p \in Page, Resume(p), UNCHANGED <<callList, gensTodo, made>>
  PROVE  Inv'
<1>1. Visit(p)
  BY DEF Resume
<1>2. /\ gens' \in Seq(Page) /\ Distinct(gens') /\ p \notin Members(gens')
      /\ Members(gens) = Members(gens') \cup {p} /\ p \notin Members(gensTodo)
  BY <1>1, VisitTakes
<1>3. /\ AllRight' /\ got' \in [Page -> Seq(Results \cup {NoResult})]
      /\ slot' \in [Page -> Results \cup {NoResult}]
      /\ \A q \in Page \ {p} : got'[q] = got[q] /\ slot'[q] = slot[q]
  BY ResumeRight
<1>4. Types'
  BY <1>2, <1>3 DEF Inv, Types
<1>5. Scheduled'
  BY <1>2 DEF Inv, Scheduled
<1>6. Waiting' \subseteq Waiting \ {p} /\ Waiting \subseteq Page
  <2>1. Waiting' = Members(gens') \cup Members(gensTodo)
    BY DEF Waiting
  <2> QED BY <1>2, <2>1, WaitingType DEF Waiting
<1>7. Answered'
  <2> SUFFICES ASSUME NEW q \in Waiting'
               PROVE  /\ made'[q] = 0 => Len(got'[q]) = 0 /\ q \notin Members(callList')
                      /\ made'[q] > 0 => Len(got'[q]) = made'[q] - 1
                      /\ made'[q] > 0 /\ q \notin Members(callList')
                           => Right(q, made'[q], slot'[q])
    BY DEF Answered
  <2>1. q \in Waiting /\ got'[q] = got[q] /\ slot'[q] = slot[q]
    BY <1>3, <1>6
  <2> QED BY <2>1 DEF Inv, Answered
<1>8. BatchBound'
  BY DEF Inv, BatchBound
<1> QED BY <1>3, <1>4, <1>5, <1>7, <1>8 DEF Inv

LEMMA YieldsInv ==
  ASSUME Inv, NEW p \in Page, Yields(p)
  PROVE  Inv'
<1>1. /\ Resume(p) /\ Visit(p) /\ made' = [made EXCEPT ![p] = @ + 1]
      /\ callList' = Append(callList, p) /\ gensTodo' = Append(gensTodo, p)
      /\ ~Full(callList)
  BY DEF Yields, Resume
<1>2. /\ made \in [Page -> Nat] /\ callList \in Seq(Page)
      /\ Members(callList) \subseteq Members(gensTodo)
  BY DEF Inv, Types, Scheduled
<1>3. /\ AllRight' /\ got' \in [Page -> Seq(Results \cup {NoResult})]
      /\ slot' \in [Page -> Results \cup {NoResult}]
      /\ \A q \in Page \ {p} : got'[q] = got[q] /\ slot'[q] = slot[q]
      /\ Len(got'[p]) = made[p]
  BY <1>1, ResumeRight
<1>4. /\ made' \in [Page -> Nat] /\ made'[p] = made[p] + 1
      /\ \A q \in Page \ {p} : made'[q] = made[q]
  BY <1>1, <1>2
<1>5. /\ callList' \in Seq(Page) /\ Len(callList') = Len(callList) + 1
      /\ Members(callList') = Members(callList) \cup {p}
  BY <1>1, <1>2, AppendMembers
<1>6. /\ gens' \in Seq(Page) /\ gensTodo' \in Seq(Page)
      /\ Members(gensTodo') = Members(gensTodo) \cup {p}
      /\ Distinct(gens') /\ Distinct(gensTodo')
      /\ Members(gens') \cap Members(gensTodo') = {}
      /\ Waiting' = Waiting
  BY <1>1, VisitTakes, Requeued
<1>7. Types'
  BY <1>3, <1>4, <1>5, <1>6 DEF Types
<1>8. Scheduled'
  BY <1>2, <1>5, <1>6 DEF Scheduled
<1>9. Waiting \subseteq Page
  BY WaitingType
<1>10. Answered'
  <2> SUFFICES ASSUME NEW q \in Waiting
               PROVE  /\ made'[q] = 0 => Len(got'[q]) = 0 /\ q \notin Members(callList')
                      /\ made'[q] > 0 => Len(got'[q]) = made'[q] - 1
                      /\ made'[q] > 0 /\ q \notin Members(callList')
                           => Right(q, made'[q], slot'[q])
    BY <1>6 DEF Answered
  <2>1. CASE q = p
    BY <2>1, <1>2, <1>3, <1>4, <1>5
  <2>2. CASE q # p
    <3>1. /\ made'[q] = made[q] /\ got'[q] = got[q] /\ slot'[q] = slot[q]
          /\ q \in Members(callList') <=> q \in Members(callList)
      BY <2>2, <1>3, <1>4, <1>5, <1>9
    <3> QED BY <3>1 DEF Inv, Answered
  <2> QED BY <2>1, <2>2
<1>11. BatchBound'
  <2>1. Len(callList) \in Nat /\ Len(callList) <= MaxCalls
    BY <1>1, <1>2, AggregatorAssumption DEF Full
  <2> QED BY <2>1, <1>5, AggregatorAssumption DEF BatchBound
<1> QED BY <1>3, <1>7, <1>8, <1>10, <1>11 DEF Inv

\* What a handler of the batch is given is right, and types agree.
LEMMA DeliveredRight ==
  ASSUME Inv, NEW first \in 1..(Len(Calls) + 1), NEW p \in Members(callList)
  PROVE  LET x == Result(first, Item(first, Place(p))) IN
         x \in Results /\ Right(p, made[p], x)
<1> DEFINE n == Len(PreCalls)
           i == Place(p)
           j == Item(first, i)
           x == Result(first, j)
<1>1. /\ PreCalls \in Seq(STRING) /\ callList \in Seq(Page) /\ p \in Page
      /\ made \in [Page -> Nat]
  BY AggregatorAssumption, WaitingType DEF Inv, Types
<1>2. /\ n \in Nat /\ Len(callList) \in Nat /\ Len(Calls) = n + Len(callList)
      /\ \A k \in 1..n : Calls[k] = PreCalls[k] /\ Calls[k] \in STRING
      /\ \A k \in (n + 1)..Len(Calls) : Calls[k] = callList[k - n] /\ Calls[k] \in Page
  BY <1>1 DEF Calls
<1>3. PICK k \in 1..Len(callList) : callList[k] = p
  BY DEF Members
<1>4. k + n \in 1..Len(Calls) /\ Calls[k + n] = p
  <2>1. k + n \in (n + 1)..Len(Calls) /\ (k + n) - n = k
    BY <1>2, <1>3
  <2>2. Calls[k + n] = callList[(k + n) - n]
    BY <1>2, <2>1
  <2> QED BY <1>2, <1>3, <2>1, <2>2
<1>5. i \in 1..Len(Calls) /\ Calls[i] = p
  BY <1>4 DEF Place, Calls
<1>6. j \in 1..Len(Calls) /\ (j = first \/ j = i)
  BY <1>2, <1>5 DEF Item
<1>7. Calls[j] \in Page \cup STRING
  BY <1>2, <1>6
<1>8. x \in Results
  BY <1>1, <1>7 DEF Result, Results
<1>9. x # NoResult
  BY <1>8, AggregatorAssumption DEF Results
<1>10. x.fault \/ (x.of = p /\ x.call = made[p])
  <2>1. CASE j = first
    BY <2>1 DEF Result
  <2>2. CASE j = i
    BY <2>2, <1>1, <1>5 DEF Result
  <2> QED BY <1>6, <2>1, <2>2
<1> QED BY <1>8, <1>9, <1>10 DEF Right

LEMMA MulticallInv ==
  ASSUME Inv, Multicall
  PROVE  Inv'
<1>1. /\ gens = <<>> /\ callList' = <<>> /\ gens' = gensTodo /\ gensTodo' = <<>>
      /\ UNCHANGED <<made, got>>
  BY DEF Multicall, RoundEnds
<1>2. PICK first \in 1..(Len(Calls) + 1) :
        slot' = [p \in Page |-> IF p \in Members(callList)
                                THEN Result(first, Item(first, Place(p)))
                                ELSE slot[p]]
  BY DEF Multicall
<1>3. \A p \in Members(callList) :
        slot'[p] \in Results /\ Right(p, made[p], slot'[p])
  <2> SUFFICES ASSUME NEW p \in Members(callList)
               PROVE  slot'[p] \in Results /\ Right(p, made[p], slot'[p])
    OBVIOUS
  <2>1. p \in Page
    BY WaitingType
  <2>2. slot'[p] = Result(first, Item(first, Place(p)))
    BY <1>2, <2>1
  <2> QED BY <2>2, DeliveredRight
<1>4. \A p \in Page \ Members(callList) : slot'[p] = slot[p]
  BY <1>2
<1>5. slot \in [Page -> Results \cup {NoResult}]
  BY DEF Inv, Types
<1>6. slot' \in [Page -> Results \cup {NoResult}]
  <2>1. \A p \in Page : slot'[p] \in Results \cup {NoResult}
    BY <1>3, <1>4, <1>5
  <2>2. slot' = [p \in Page |-> slot'[p]]
    BY <1>2
  <2> QED BY <2>1, <2>2
<1>7. Types'
  BY <1>1, <1>6 DEF Inv, Types
<1>8. Scheduled' /\ Waiting' = Waiting
  BY <1>1, NoMembers DEF Inv, Scheduled, Waiting
<1>9. Waiting \subseteq Page
  BY WaitingType
<1>10. Answered'
  <2> SUFFICES ASSUME NEW p \in Waiting
               PROVE  /\ made'[p] = 0 => Len(got'[p]) = 0 /\ p \notin Members(callList')
                      /\ made'[p] > 0 => Len(got'[p]) = made'[p] - 1
                      /\ made'[p] > 0 => Right(p, made'[p], slot'[p])
    BY <1>8 DEF Answered
  <2>1. /\ made'[p] = 0 => Len(got'[p]) = 0 /\ p \notin Members(callList')
        /\ made'[p] > 0 => Len(got'[p]) = made'[p] - 1
    BY <1>1, NoMembers DEF Inv, Answered
  <2>2. made[p] > 0 => Right(p, made[p], slot'[p])
    <3>1. CASE p \in Members(callList)
      BY <3>1, <1>3
    <3>2. CASE p \notin Members(callList)
      BY <3>2, <1>4, <1>9 DEF Inv, Answered
    <3> QED BY <3>1, <3>2
  <2> QED BY <2>1, <2>2, <1>1
<1>11. AllRight' /\ BatchBound'
  BY <1>1, NoMembers, AggregatorAssumption DEF Inv, AllRight, BatchBound
<1> QED BY <1>7, <1>8, <1>10, <1>11 DEF Inv
------------------------------------------------------------------------------
\* A handler that has not ended is in one of the scheduler's two lists, once, and the
\* result of its last call is in its slot unless that call is in the batch to come
\* (scheduler; the inductive invariant behind the theorems below).
THEOREM Invariance == Spec => []Inv
<1>1. Inv /\ [Next]_vars => Inv'
  <2> SUFFICES ASSUME Inv, [Next]_vars PROVE Inv'
    OBVIOUS
  <2>1. ASSUME NEW p \in Page, Defer(p) PROVE Inv'
    BY <2>1, DeferInv
  <2>2. ASSUME NEW p \in Page, Yields(p) PROVE Inv'
    BY <2>2, YieldsInv
  <2>3. ASSUME NEW p \in Page, Returns(p) PROVE Inv'
    BY <2>3, LeaveInv DEF Returns
  <2>4. ASSUME NEW p \in Page, Raises(p) PROVE Inv'
    BY <2>4, LeaveInv DEF Raises
  <2>5. CASE Multicall
    BY <2>5, MulticallInv
  <2>6. CASE MulticallFails \/ UNCHANGED vars
    BY <2>6 DEF MulticallFails, vars, Inv, Types, Scheduled, Answered, AllRight,
                BatchBound, Waiting
  <2> QED BY <2>1, <2>2, <2>3, <2>4, <2>5, <2>6 DEF Next
<1> QED BY InitInv, <1>1, PTL DEF Spec

\* No handler is given the value of a call that is not its own, or nothing, for any
\* number of handlers, any max_calls and any pre-calls (RPCYielder.fetch_result).
THEOREM ResultsAreRight == Spec => []RightResult
<1>1. Inv => RightResult
  BY DEF Inv, AllRight, Right, RightResult
<1> QED BY <1>1, Invariance, PTL

\* A batch has at most max_calls + 1 calls of handlers, and a handler that has not ended
\* is in one of the two lists and there once (scheduler, rpc_aggregator.py:68-97).
THEOREM BatchesBounded == Spec => [](BatchBound /\ Scheduled)
<1>1. Inv => BatchBound /\ Scheduled
  BY DEF Inv
<1> QED BY <1>1, Invariance, PTL
==============================================================================
