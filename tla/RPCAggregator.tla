---------------------------- MODULE RPCAggregator ----------------------------
(***************************************************************************)
(* scheduler and RPCYielder of MoinMoin/util/rpc_aggregator.py: the calls  *)
(* of many page handlers go to the other wiki in batches.  A handler is a  *)
(* generator: it is resumed, fetches the result of its last call, and      *)
(* yields the next one, returns or raises.  What it does in between is in  *)
(* PageSync.                                                               *)
(*                                                                         *)
(* A batch is a MultiCall.  Its results are taken one by one from an       *)
(* iterator over MultiCallIterator.__getitem__, and such an iterator does  *)
(* not move on from an item that raises: after a Fault everybody is given  *)
(* that Fault.  One thread runs all of it, so a batch is one step.         *)
(***************************************************************************)
EXTENDS Integers, Sequences, FiniteSets

CONSTANTS
  Page,        \* the handlers, one per page
  PreCalls,    \* the calls of prepare_multicall, which are nobody's
  NoResult,    \* INVALID
  MaxCalls,    \* max_calls
  MaxYields    \* how many calls a handler makes at most

ASSUME AggregatorAssumption ==
  /\ IsFiniteSet(Page)
  /\ MaxCalls \in Nat /\ MaxYields \in Nat
  /\ PreCalls \in Seq(STRING) /\ \A i \in 1..Len(PreCalls) : PreCalls[i] \notin Page
  /\ NoResult \notin [of : Page \cup STRING, call : Nat, fault : BOOLEAN]

VARIABLES
  gens,      \* the handlers this round still has to visit
  gensTodo,  \* those of the next round
  callList,  \* those that wait for the batch
  slot,      \* per handler, _comm_slot
  made,      \* per handler, the number of calls it has yielded
  got,       \* per handler, the results it has fetched
  failed     \* an exception has left the scheduler
vars == <<gens, gensTodo, callList, slot, made, got, failed>>

Members(q) == {q[i] : i \in 1..Len(q)}
Distinct(q) == \A i, j \in 1..Len(q) : q[i] = q[j] => i = j

Init ==
  /\ gens \in [1..Cardinality(Page) -> Page]
  /\ Distinct(gens) /\ Members(gens) = Page
  /\ gensTodo = <<>> /\ callList = <<>>
  /\ slot = [p \in Page |-> NoResult]
  /\ made = [p \in Page |-> 0]
  /\ got = [p \in Page |-> <<>>]
  /\ failed = FALSE

\* Mutant of Full: max_calls is the size of the MultiCall.
FullWithPreCalls(q) == Len(PreCalls) + Len(q) >= MaxCalls

\* The batch may be one call longer than max_calls.
Full(q) == Len(q) > MaxCalls

Visit(p) == ~failed /\ gens # <<>> /\ p = Head(gens) /\ gens' = Tail(gens)

\* The handler has to wait for the next round; its result stays in the slot.
Defer(p) ==
  /\ Visit(p) /\ Full(callList)
  /\ gensTodo' = Append(gensTodo, p)
  /\ UNCHANGED <<callList, slot, made, got, failed>>

\* fetch_call: the handler goes on from its last yield, with fetch_result.
Resume(p) ==
  /\ Visit(p) /\ ~Full(callList)
  /\ got' = IF made[p] = 0 THEN got ELSE [got EXCEPT ![p] = Append(@, slot[p])]
  /\ slot' = [slot EXCEPT ![p] = NoResult]

Yields(p) ==
  /\ Resume(p) /\ made[p] < MaxYields
  /\ made' = [made EXCEPT ![p] = @ + 1]
  /\ callList' = Append(callList, p)
  /\ gensTodo' = Append(gensTodo, p)
  /\ UNCHANGED failed

Returns(p) == Resume(p) /\ UNCHANGED <<callList, gensTodo, made, failed>>

Raises(p) == Resume(p) /\ failed' = TRUE /\ UNCHANGED <<callList, gensTodo, made>>

\* The place of a handler among those that get a result, gens_result.
PlaceInList(p) == CHOOSE i \in 1..Len(callList) : callList[i] = p  \* mutant of Place

Place(p) ==
  LET gensResult == PreCalls \o callList IN
  CHOOSE i \in 1..Len(gensResult) : gensResult[i] = p

\* The number of the result that the i-th of them is given, if `first' is the number of
\* the first Fault: the iterator stays there.
Item(first, i) == IF i < first THEN i ELSE first

\* A result: the call it answers, and whether it is a Fault.
Calls == PreCalls \o callList
Result(first, j) ==
  [of    |-> Calls[j],
   call  |-> IF Calls[j] \in Page THEN made[Calls[j]] ELSE 0,
   fault |-> j = first]

\* The end of a round.  The loop ends when nobody is left.
RoundEnds == ~failed /\ gens = <<>> /\ gensTodo # <<>>

Multicall ==
  /\ RoundEnds
  /\ \E first \in 1..(Len(Calls) + 1) :
       slot' = [p \in Page |->
         IF p \in Members(callList)
         THEN Result(first, Item(first, Place(p)))
         ELSE slot[p]]
  /\ callList' = <<>>
  /\ gens' = gensTodo /\ gensTodo' = <<>>
  /\ UNCHANGED <<made, got, failed>>

\* The batch cannot be sent, or its answer does not come.
MulticallFails ==
  /\ RoundEnds /\ callList # <<>>
  /\ failed' = TRUE
  /\ UNCHANGED <<gens, gensTodo, callList, slot, made, got>>

Next ==
  \/ \E p \in Page : Defer(p) \/ Yields(p) \/ Returns(p) \/ Raises(p)
  \/ Multicall \/ MulticallFails

Spec == Init /\ [][Next]_vars

\* The scheduler's loop goes on as long as there is something to do.
FairSpec == Spec /\ WF_vars(Next)
------------------------------------------------------------------------------
\* What a handler fetches is the result of its own call, its first result that of its
\* first call: no value of another page's call, of a pre-call or of an earlier batch,
\* and never nothing, however often the handler had to wait.  Excepted: a Fault may be
\* that of a call before it in the batch.
RightResult ==
  \A p \in Page : \A n \in 1..Len(got[p]) :
    /\ got[p][n] # NoResult
    /\ got[p][n].fault \/ (got[p][n].of = p /\ got[p][n].call = n)

\* Every handler comes to its end, unless an exception ends all: full batches do not
\* keep a handler waiting for ever.
AllEnd == <>(failed \/ (gens = <<>> /\ gensTodo = <<>>))
==============================================================================
