--------------------------- MODULE ItemCacheProofs ---------------------------
(***************************************************************************)
(* Module ItemCache, for any number of pages, threads, saves and calls.    *)
(*                                                                         *)
(* A step of a saver leaves the threads where they are: it may only mark   *)
(* them and the entries as raced, add a line to the log and let the        *)
(* threads see what it does (Leaves).  So what the invariants say of the   *)
(* threads under such a step follows from what the step does to the page   *)
(* itself, once for all savers; a step of a thread leaves the disk alone.  *)
(***************************************************************************)
EXTENDS ItemCache, FiniteSetTheorems, TLAPS

\* A thread that was only marked.
Marked(r, s) ==
  /\ s \in Reading
  /\ s.pc = r.pc /\ s.page = r.page /\ s.oldPos = r.oldPos /\ s.newPos = r.newPos
  /\ s.items = r.items /\ s.rev = r.rev /\ s.data = r.data
  /\ (r.raced => s.raced) /\ (r.amid => s.amid)

LogGrows == \A n \in DOMAIN log : n \in DOMAIN log' /\ log'[n] = log[n]

\* What a step of a saver leaves alone.
Leaves ==
  /\ th' \in [Thread -> Reading]
  /\ \A t \in Thread : Marked(th[t], th'[t])
  /\ cache' \in [Page -> SUBSET Entry]
  /\ \A p \in Page : \A e \in cache'[p] :
       \E d \in cache[p] : e.data = d.data /\ (d.raced => e.raced)
  /\ \A p \in Page : \A d, e \in cache'[p] : d = e
  /\ UNCHANGED <<logPos, calls>>

\* Whatever is remembered of p, or about to be, is marked.
Excused(p) ==
  /\ \A e \in cache'[p] : e.raced
  /\ \A u \in Thread : Holding(u) /\ th[u].page = p => th'[u].raced

LEMMA NoRevIsNumber == NoRev \in Nat \ {0, 1}
BY SMT DEF NoRev

LEMMA DataTyped ==
  ASSUME NEW rev \in Nat, NEW p \in Page PROVE Data(rev, p) \in Datum
BY DEF Data, Datum

LEMMA TrueTyped ==
  ASSUME DiskInv, NEW p \in Page PROVE TrueOf(p) \subseteq Datum
<1>1. current[p] \in Nat /\ known[p] \in Datum /\ NoRev \in Nat
  BY NoRevIsNumber DEF DiskInv
<1>2. OnDisk(p) \in Datum /\ Settled(p) \in Datum
  BY <1>1, DataTyped DEF OnDisk, RevOf, Settled
<1> QED BY <1>1, <1>2 DEF TrueOf

\* The same after a step.
LEMMA TrueTypedThen ==
  ASSUME DiskInv', NEW p \in Page PROVE TrueOf(p)' \subseteq Datum
<1>1. current'[p] \in Nat /\ known'[p] \in Datum /\ NoRev \in Nat
  BY NoRevIsNumber DEF DiskInv
<1>2. OnDisk(p)' \in Datum /\ Settled(p)' \in Datum
  BY <1>1 DEF OnDisk, RevOf, Settled, Data, Datum
<1> QED BY <1>1, <1>2 DEF TrueOf

\* Marking changes nothing else of a thread.
LEMMA MarkRaced ==
  ASSUME NEW r \in Reading, NEW b \in BOOLEAN
  PROVE  Marked(r, [r EXCEPT !.raced = @ \/ b]) /\ (b => [r EXCEPT !.raced = @ \/ b].raced)
BY DEF Marked, Reading

LEMMA MarkAmid ==
  ASSUME NEW r \in Reading, NEW b \in BOOLEAN
  PROVE  Marked(r, [r EXCEPT !.amid = @ \/ b]) /\ (b => [r EXCEPT !.amid = @ \/ b].amid)
BY DEF Marked, Reading

LEMMA NothingLeaves ==
  ASSUME TypeInv, UNCHANGED process PROVE Leaves
<1>1. \A t \in Thread : th[t] \in Reading
  BY DEF TypeInv, ProcessInv
<1>2. \A t \in Thread : Marked(th[t], th[t])
  BY <1>1 DEF Marked
<1> QED BY <1>2 DEF Leaves, TypeInv, ProcessInv, process

LEMMA EntriesLeave ==
  ASSUME TypeInv, NEW p \in Page, NEW b \in BOOLEAN
  PROVE  /\ Entries(p, b) \in SUBSET Entry
         /\ \A e \in Entries(p, b) : \E d \in cache[p] : e.data = d.data /\ (d.raced => e.raced)
         /\ \A d, e \in Entries(p, b) : d = e
         /\ b => \A e \in Entries(p, b) : e.raced
<1>1. cache[p] \in SUBSET Entry /\ \A d, e \in cache[p] : d = e
  BY DEF TypeInv, ProcessInv
<1>2. \A e \in cache[p] : [data |-> e.data, raced |-> e.raced \/ b] \in Entry
  BY <1>1 DEF Entry
<1> QED BY <1>1, <1>2 DEF Entries, Entry

LEMMA UnloggedLeaves ==
  ASSUME TypeInv, NEW ps \in SUBSET Page, Unlogged(ps)
  PROVE  Leaves /\ \A p \in ps : Excused(p)
<1> DEFINE h(t) == Holding(t) /\ th[t].page \in ps
<1>1. /\ cache' = [p \in Page |-> Entries(p, p \in ps)]
      /\ th' = [t \in Thread |-> [th[t] EXCEPT !.raced = @ \/ h(t)]]
      /\ UNCHANGED <<logPos, calls>>
  BY DEF Unlogged
<1>2. \A t \in Thread : th[t] \in Reading /\ h(t) \in BOOLEAN
  BY DEF TypeInv, ProcessInv
<1>3. \A t \in Thread : Marked(th[t], th'[t]) /\ (h(t) => th'[t].raced)
  BY <1>1, <1>2, MarkRaced
<1>4. \A p \in Page : cache'[p] = Entries(p, p \in ps)
  BY <1>1
<1>5. ASSUME NEW p \in Page
      PROVE  /\ cache'[p] \in SUBSET Entry
             /\ \A e \in cache'[p] : \E d \in cache[p] : e.data = d.data /\ (d.raced => e.raced)
             /\ \A d, e \in cache'[p] : d = e
             /\ p \in ps => \A e \in cache'[p] : e.raced
  <2> DEFINE b == p \in ps
  <2>1. b \in BOOLEAN /\ cache'[p] = Entries(p, b)
    BY <1>4
  <2> HIDE DEF b
  <2>2. /\ cache'[p] \in SUBSET Entry
        /\ \A e \in cache'[p] : \E d \in cache[p] : e.data = d.data /\ (d.raced => e.raced)
        /\ \A d, e \in cache'[p] : d = e
        /\ b => \A e \in cache'[p] : e.raced
    BY <2>1, EntriesLeave
  <2> QED BY <2>2 DEF b
<1>6. Leaves
  <2>1. th' \in [Thread -> Reading]
    BY <1>1, <1>3 DEF Marked
  <2>2. cache' \in [Page -> SUBSET Entry]
    BY <1>1, <1>5
  <2> QED BY <1>1, <1>3, <1>5, <2>1, <2>2 DEF Leaves
<1>7. ASSUME NEW p \in ps PROVE Excused(p)
  <2>1. p \in Page
    OBVIOUS
  <2> QED BY <1>3, <1>5, <2>1 DEF Excused
<1> QED BY <1>6, <1>7

\* What Leaves says of the process is all that its types need of a saver.
LEMMA LeavesTyped ==
  ASSUME TypeInv, Leaves, DiskInv', LogGrows, Watch PROVE ProcessInv'
<1>1. th' \in [Thread -> Reading]
  BY DEF Leaves, Marked
<1>2. Len(log) <= Len(log')
  BY DEF LogGrows, TypeInv, DiskInv
<1>3. \A t \in Thread : /\ th'[t].oldPos <= Len(log') /\ th'[t].newPos <= Len(log')
                        /\ AtWork(t)' => th'[t].page \in Page
                        /\ th'[t].pc \in {"put", "done"} => th'[t].data \in Datum
  <2> TAKE t \in Thread
  <2>1. /\ th[t] \in Reading /\ th[t].oldPos <= Len(log) /\ th[t].newPos <= Len(log)
        /\ AtWork(t) => th[t].page \in Page
        /\ th[t].pc \in {"put", "done"} => th[t].data \in Datum
    BY DEF TypeInv, ProcessInv
  <2>2. Marked(th[t], th'[t])
    BY DEF Leaves
  <2>3. Len(log) \in Nat /\ Len(log') \in Nat
    BY DEF TypeInv, DiskInv
  <2>4. th[t].oldPos \in Int /\ th[t].newPos \in Int
    BY <2>1 DEF Reading, Position, NoPos
  <2> QED BY <1>2, <2>1, <2>2, <2>3, <2>4 DEF Marked, AtWork
<1>4. seen' \in [Thread -> SUBSET Datum]
  <2>1. ASSUME NEW t \in Thread, AtWork(t)
        PROVE  seen[t] \in SUBSET Datum /\ TrueOf(th[t].page)' \in SUBSET Datum
    <3>1. th'[t].page \in Page
      BY <1>3, <2>1 DEF Leaves, Marked, AtWork
    <3>2. \A p \in Page : TrueOf(p)' \subseteq Datum
      BY TrueTypedThen
    <3> QED BY <3>1, <3>2 DEF TypeInv, ProcessInv
  <2> QED BY <2>1 DEF Watch
<1>5. logPos' \in Position /\ logPos' <= Len(log') /\ calls' \in Nat
  BY <1>2 DEF Leaves, TypeInv, ProcessInv, DiskInv, Position, NoPos
<1> QED BY <1>1, <1>3, <1>4, <1>5 DEF ProcessInv, Leaves
------------------------------------------------------------------------------
(* Types *)

LEMMA InitTyped == Init => TypeInv
<1> SUFFICES ASSUME Init PROVE TypeInv
  OBVIOUS
<1> USE ConstantsAssumption, NoRevIsNumber
<1>1. PICK b \in Bounds : saves = b.saves /\ kinds = b.kinds /\ calls = b.calls
  BY DEF Init
<1>2. saves \in 0..NoRev - 2 /\ kinds \subseteq AllKinds \cup {Failure} /\ calls \in Nat
  BY <1>1
<1>3. \A p \in Page : /\ current[p] = IF p \in Existing THEN 1 ELSE NoRev
                      /\ texts[p] = IF p \in Existing THEN {1} ELSE {}
                      /\ stage[p] = "idle" /\ kind[p] = "save" /\ from[p] = NoPage
  BY DEF Init
<1>4. NumberInv
  BY <1>2, <1>3 DEF NumberInv
<1>5. DiskInv
  <2>1. known \in [Page -> Datum]
    <3>1. \A p \in Page : OnDisk(p) \in Datum
      BY <1>3, DataTyped DEF OnDisk, RevOf
    <3> QED BY <3>1 DEF Init
  <2>2. current \in [Page -> Nat] /\ texts \in [Page -> SUBSET (Nat \ {0, NoRev})]
    BY DEF Init
  <2>3. /\ stage \in [Page -> Stages] /\ kind \in [Page -> AllKinds]
        /\ from \in [Page -> Page \cup {NoPage}] /\ log \in Seq(SUBSET Page)
    BY DEF Init, Stages, AllKinds
  <2> QED BY <1>2, <2>1, <2>2, <2>3 DEF DiskInv
<1>6. ProcessInv
  <2>1. \A t \in Thread : th[t] = Idle
    BY DEF Init
  <2>2. Idle \in Reading /\ Idle.pc = "idle" /\ Idle.oldPos = NoPos /\ Idle.newPos = NoPos
    BY DEF Idle, Reading, Position
  <2>3. log = <<>> /\ logPos = NoPos /\ Len(log) = 0
    BY DEF Init
  <2> QED BY <1>2, <2>1, <2>2, <2>3 DEF ProcessInv, Init, AtWork, Position, NoPos
<1> QED BY <1>4, <1>5, <1>6 DEF TypeInv

\* The page is read where it is taken, and its number is raised once.
LEMMA TakeTyped ==
  ASSUME TypeInv, NEW p \in Page, Take(p) PROVE DiskInv' /\ NumberInv' /\ LogGrows
<1> USE NoRevIsNumber DEF TypeInv
<1>1. DiskInv'
  BY DEF Take, DiskInv, Stages, AllKinds
<1>2. LogGrows
  BY DEF Take, LogGrows
<1>3. NumberInv'
  BY DEF Take, NumberInv, DiskInv
<1> QED BY <1>1, <1>2, <1>3

LEMMA WriteTyped ==
  ASSUME TypeInv, NEW p \in Page, Write(p) PROVE DiskInv' /\ NumberInv' /\ LogGrows
<1> USE NoRevIsNumber DEF TypeInv
<1>0. current[p] \in Nat /\ current[p] # NoRev /\ current[p] + 1 < NoRev /\ saves \in Nat
  BY DEF Write, DiskInv, NumberInv
<1>1. NewRev(p) \in Nat \ {0, NoRev} /\ NewRev(p) <= current[p] + 1
  <2>1. kind[p] = "deprecated" => current[p] # 0
    BY DEF Write, NumberInv
  <2> QED BY <1>0, <2>1 DEF NewRev
<1>2. DiskInv'
  BY <1>1 DEF Write, DiskInv, Stages
<1>3. LogGrows
  BY DEF Write, LogGrows
<1>4. NumberInv'
  BY <1>0, <1>1 DEF Write, NumberInv, DiskInv
<1> QED BY <1>2, <1>3, <1>4
\* What a change makes of a page is a datum.
LEMMA GoneTyped ==
  ASSUME DiskInv, NEW p \in Page PROVE Gone(p) \in Datum /\ Settled(p) \in Datum
BY NoRevIsNumber, DataTyped DEF Gone, Settled, DiskInv

LEMMA LogTyped ==
  ASSUME TypeInv, NEW p \in Page, Log(p)
  PROVE  /\ DiskInv' /\ NumberInv' /\ LogGrows /\ About(p) \in SUBSET Page
         /\ Len(log') = Len(log) + 1 /\ log'[Len(log')] = About(p)
<1> USE NoRevIsNumber DEF TypeInv
<1>1. About(p) \in SUBSET Page
  BY DEF About, DiskInv
<1>2. log' = Append(log, About(p)) /\ log' \in Seq(SUBSET Page)
  BY <1>1 DEF Log, DiskInv
<1>3. known' \in [Page -> Datum]
  BY GoneTyped DEF Log, DiskInv
<1>4. DiskInv'
  BY <1>2, <1>3 DEF Log, DiskInv, Stages
<1>5. LogGrows /\ Len(log') = Len(log) + 1 /\ log'[Len(log')] = About(p)
  BY <1>1, <1>2 DEF LogGrows, DiskInv
<1>6. NumberInv'
  BY DEF Log, NumberInv, DiskInv
<1> QED BY <1>1, <1>4, <1>5, <1>6

LEMMA PutBackTyped ==
  ASSUME TypeInv, NEW p \in Page, PutBack(p) PROVE DiskInv' /\ NumberInv' /\ LogGrows
<1> USE NoRevIsNumber DEF TypeInv
<1>1. DiskInv'
  BY DEF PutBack, DiskInv, Stages, AllKinds
<1>2. LogGrows
  BY DEF PutBack, LogGrows
<1>3. NumberInv'
  BY DEF PutBack, NumberInv, DiskInv
<1> QED BY <1>1, <1>2, <1>3

LEMMA PutBackUnloggedTyped ==
  ASSUME TypeInv, NEW p \in Page, PutBackUnlogged(p)
  PROVE  DiskInv' /\ NumberInv' /\ LogGrows /\ About(p) \in SUBSET Page
<1> USE NoRevIsNumber DEF TypeInv
<1>0. About(p) \in SUBSET Page
  BY DEF About, DiskInv
<1>1. PICK rev \in {current[p]} \cup IF stage[p] = "taken" THEN {NewRev(p)} ELSE {} :
        current' = [current EXCEPT ![p] = rev]
  BY DEF PutBackUnlogged
<1>2. /\ current[p] \in Nat /\ current[p] # NoRev /\ saves \in Nat
      /\ stage[p] = "taken" => current[p] + 1 < NoRev
  BY DEF PutBackUnlogged, DiskInv, NumberInv
<1>3. rev \in Nat /\ (stage[p] # "taken" => rev = current[p]) /\ rev <= current[p] + 1
  BY <1>1, <1>2 DEF NewRev
<1>4. current' \in [Page -> Nat]
  BY <1>1, <1>3 DEF DiskInv
<1>5. known' \in [Page -> Datum]
  <2>1. \A q \in Page : Settled(q)' \in Datum
    BY <1>4 DEF Settled, Data, Datum
  <2> QED BY <2>1, GoneTyped DEF PutBackUnlogged, DiskInv
<1>6. DiskInv'
  BY <1>4, <1>5 DEF PutBackUnlogged, DiskInv, Stages, AllKinds
<1>7. LogGrows
  BY DEF PutBackUnlogged, LogGrows
<1>8. NumberInv'
  BY <1>1, <1>2, <1>3 DEF PutBackUnlogged, NumberInv, DiskInv
<1> QED BY <1>0, <1>6, <1>7, <1>8

LEMMA RenameTyped ==
  ASSUME TypeInv, NEW p \in Page, NEW q \in Page, Rename(p, q)
  PROVE  DiskInv' /\ NumberInv' /\ LogGrows /\ p # q
<1> USE NoRevIsNumber DEF TypeInv
<1>1. DiskInv'
  <2>1. current' \in [Page -> Nat] /\ texts' \in [Page -> SUBSET (Nat \ {0, NoRev})]
    BY DEF Rename, DiskInv
  <2>2. stage' \in [Page -> Stages] /\ from' \in [Page -> Page \cup {NoPage}]
    BY DEF Rename, DiskInv, Stages
  <2>3. saves' \in Nat /\ UNCHANGED <<kind, log, kinds, known>>
    BY DEF Rename, DiskInv
  <2> QED BY <2>1, <2>2, <2>3 DEF DiskInv
<1>2. LogGrows /\ p # q
  BY DEF Rename, LogGrows
<1>3. NumberInv'
  BY <1>2 DEF Rename, NumberInv, DiskInv
<1> QED BY <1>1, <1>2, <1>3

\* A rename marks those who still hold a number of the old page.
LEMMA RenameLeaves ==
  ASSUME TypeInv, NEW p \in Page, NEW q \in Page, Rename(p, q)
  PROVE  Leaves /\ (HeldNumber(q) => \A t \in Thread : th[t].page = q => th'[t].amid)
<1> DEFINE h(t) == th[t].page = q /\ HeldNumber(q)
<1>1. /\ th' = [t \in Thread |-> [th[t] EXCEPT !.amid = @ \/ h(t)]]
      /\ UNCHANGED <<logPos, calls, cache>>
  BY DEF Rename
<1>2. \A t \in Thread : th[t] \in Reading /\ h(t) \in BOOLEAN
  BY DEF TypeInv, ProcessInv
<1>3. \A t \in Thread : Marked(th[t], th'[t]) /\ (h(t) => th'[t].amid)
  BY <1>1, <1>2, MarkAmid
<1>4. Leaves
  <2>1. th' \in [Thread -> Reading]
    BY <1>1, <1>3 DEF Marked
  <2> QED BY <1>1, <1>3, <2>1 DEF Leaves, TypeInv, ProcessInv
<1> QED BY <1>3, <1>4

\* All steps of savers.
LEMMA SaverTyped ==
  ASSUME TypeInv, NEW p \in Page, Saver(p)
  PROVE  TypeInv' /\ Leaves /\ LogGrows /\ Watch
<1>1. DiskInv' /\ NumberInv' /\ Leaves /\ LogGrows /\ Watch
  <2>1. CASE Take(p)
    BY <2>1, TakeTyped, NothingLeaves DEF Take
  <2>2. CASE Write(p)
    BY <2>2, WriteTyped, NothingLeaves DEF Write
  <2>3. CASE Log(p)
    BY <2>3, LogTyped, NothingLeaves DEF Log
  <2>4. CASE PutBack(p)
    BY <2>4, PutBackTyped, NothingLeaves DEF PutBack
  <2>5. CASE PutBackUnlogged(p)
    BY <2>5, PutBackUnloggedTyped, UnloggedLeaves DEF PutBackUnlogged
  <2>6. CASE \E q \in Page : Rename(p, q)
    <3>1. PICK q \in Page : Rename(p, q)
      BY <2>6
    <3>2. DiskInv' /\ NumberInv' /\ LogGrows
      BY <3>1, RenameTyped
    <3>3. Leaves
      BY <3>1, RenameLeaves
    <3>4. Watch
      BY <3>1 DEF Rename
    <3> QED BY <3>2, <3>3, <3>4
  <2> QED BY <2>1, <2>2, <2>3, <2>4, <2>5, <2>6 DEF Saver
<1> QED BY <1>1, LeavesTyped DEF TypeInv
\* A step of a thread leaves the disk alone.
Rereads == UNCHANGED <<disk, known>>

LEMMA RereadsTyped ==
  ASSUME TypeInv, Rereads PROVE DiskInv' /\ NumberInv' /\ LogGrows
BY DEF TypeInv, DiskInv, NumberInv, Rereads, disk, LogGrows

\* What the types say of one thread.
LEMMA ThreadTyped ==
  ASSUME TypeInv, NEW t \in Thread
  PROVE  /\ th[t] \in Reading /\ th[t].oldPos <= Len(log) /\ th[t].newPos <= Len(log)
         /\ th[t].oldPos \in Int /\ th[t].newPos \in Int /\ Len(log) \in Nat
         /\ logPos \in Int /\ logPos \in Position /\ logPos <= Len(log)
         /\ (AtWork(t) => th[t].page \in Page)
         /\ (th[t].pc \in {"put", "done"} => th[t].data \in Datum)
         /\ seen[t] \in SUBSET Datum
BY DEF TypeInv, ProcessInv, DiskInv, Reading, Position, NoPos

\* One thread moves; it is at work on the same page, or is done with it.
LEMMA OneTyped ==
  ASSUME TypeInv, Rereads, NEW t \in Thread, NEW r,
         th' = [th EXCEPT ![t] = r], r \in Reading,
         r.oldPos <= Len(log), r.newPos <= Len(log),
         r.pc # "idle" => r.page \in Page,
         r.pc \in {"put", "done"} => r.data \in Datum,
         logPos' \in Position, logPos' <= Len(log), calls' \in Nat,
         cache' \in [Page -> SUBSET Entry], \A p \in Page : \A d, e \in cache'[p] : d = e,
         seen' \in [Thread -> SUBSET Datum]
  PROVE  TypeInv'
<1>1. DiskInv' /\ NumberInv' /\ log' = log
  BY RereadsTyped DEF Rereads, disk
<1>2. th' \in [Thread -> Reading] /\ th'[t] = r /\ \A u \in Thread \ {t} : th'[u] = th[u]
  BY DEF TypeInv, ProcessInv
<1>3. \A u \in Thread : /\ th'[u].oldPos <= Len(log') /\ th'[u].newPos <= Len(log')
                        /\ AtWork(u)' => th'[u].page \in Page
                        /\ th'[u].pc \in {"put", "done"} => th'[u].data \in Datum
  BY <1>1, <1>2 DEF TypeInv, ProcessInv, AtWork
<1> QED BY <1>1, <1>2, <1>3 DEF TypeInv, ProcessInv

\* A thread reads the news: it may mark the others, and what is remembered.
LEMMA NewsMoves ==
  ASSUME TypeInv, NEW t \in Thread, News(t)
  PROVE  /\ Rereads /\ UNCHANGED <<calls, logPos, seen>> /\ th[t].pc = "news"
         /\ th' \in [Thread -> Reading]
         /\ th'[t].pc = "forget" /\ th'[t].page = th[t].page /\ th'[t].amid = th[t].amid
         /\ th'[t].oldPos = th[t].oldPos /\ th'[t].newPos = Len(log)
         /\ th'[t].items = ItemsAfter(th[t].oldPos)
         /\ \A u \in Thread \ {t} :
              /\ Marked(th[u], th'[u])
              /\ Holding(u) /\ Unnoticed(th[u].page) # {} => th'[u].raced
         /\ cache' \in [Page -> SUBSET Entry]
         /\ \A p \in Page :
              /\ \A e \in cache'[p] :
                   /\ \E d \in cache[p] : e.data = d.data /\ (d.raced => e.raced)
                   /\ th[t].oldPos = NoPos /\ LinesAbout(p, logPos) # {} => e.raced
              /\ \A d, e \in cache'[p] : d = e
<1> DEFINE r == [th[t] EXCEPT !.pc = "forget", !.newPos = Len(log),
                              !.items = ItemsAfter(th[t].oldPos)]
           late(u) == Holding(u) /\ Unnoticed(th[u].page) # {}
           passed(p) == th[t].oldPos = NoPos /\ LinesAbout(p, logPos) # {}
<1>1. /\ th' = [u \in Thread |-> IF u = t THEN r ELSE [th[u] EXCEPT !.raced = @ \/ late(u)]]
      /\ cache' = [p \in Page |-> Entries(p, passed(p))]
      /\ Rereads /\ UNCHANGED <<calls, logPos, seen>> /\ th[t].pc = "news"
  BY DEF News, After, Rereads
<1>2. ItemsAfter(th[t].oldPos) \in SUBSET Page
  <2>1. \A n \in 1..Len(log) : log[n] \in SUBSET Page
    BY DEF TypeInv, DiskInv
  <2>2. \A n \in (th[t].oldPos + 1)..Len(log) : th[t].oldPos # NoPos => n \in 1..Len(log)
    BY ThreadTyped DEF Position, NoPos, Reading
  <2> QED BY <2>1, <2>2 DEF ItemsAfter
<1>3. /\ r \in Reading /\ r.oldPos = th[t].oldPos /\ r.newPos = Len(log) /\ r.page = th[t].page
      /\ r.pc = "forget" /\ r.amid = th[t].amid /\ r.items = ItemsAfter(th[t].oldPos)
  BY <1>2, ThreadTyped DEF Reading, Position
<1>4. \A u \in Thread \ {t} : Marked(th[u], th'[u]) /\ (late(u) => th'[u].raced)
  <2> TAKE u \in Thread \ {t}
  <2>1. th[u] \in Reading /\ late(u) \in BOOLEAN /\ th'[u] = [th[u] EXCEPT !.raced = @ \/ late(u)]
    BY <1>1, ThreadTyped
  <2> HIDE DEF late
  <2> QED BY <2>1, MarkRaced
<1>5. th'[t] = r /\ th' \in [Thread -> Reading]
  BY <1>1, <1>3, <1>4 DEF Marked
<1>6. ASSUME NEW p \in Page
      PROVE  /\ cache'[p] \in SUBSET Entry /\ \A d, e \in cache'[p] : d = e
             /\ \A e \in cache'[p] :
                  /\ \E d \in cache[p] : e.data = d.data /\ (d.raced => e.raced)
                  /\ passed(p) => e.raced
  <2> DEFINE b == passed(p)
  <2>1. b \in BOOLEAN /\ cache'[p] = Entries(p, b)
    BY <1>1
  <2> HIDE DEF b
  <2>2. /\ cache'[p] \in SUBSET Entry /\ \A d, e \in cache'[p] : d = e
        /\ \A e \in cache'[p] : \E d \in cache[p] : e.data = d.data /\ (d.raced => e.raced)
        /\ b => \A e \in cache'[p] : e.raced
    BY <2>1, EntriesLeave
  <2> QED BY <2>2 DEF b
<1>7. cache' \in [Page -> SUBSET Entry]
  BY <1>1, <1>6
<1> HIDE DEF r
<1> QED BY <1>1, <1>3, <1>4, <1>5, <1>6, <1>7

LEMMA NewsTyped ==
  ASSUME TypeInv, NEW t \in Thread, News(t) PROVE TypeInv'
<1>1. DiskInv' /\ NumberInv' /\ log' = log
  BY NewsMoves, RereadsTyped DEF Rereads, disk
<1>2. \A u \in Thread : /\ th'[u].oldPos <= Len(log') /\ th'[u].newPos <= Len(log')
                        /\ AtWork(u)' => th'[u].page \in Page
                        /\ th'[u].pc \in {"put", "done"} => th'[u].data \in Datum
  <2> TAKE u \in Thread
  <2>1. CASE u = t
    <3>1. th[t].page \in Page
      BY NewsMoves, ThreadTyped DEF AtWork
    <3> QED BY <2>1, <3>1, <1>1, NewsMoves, ThreadTyped DEF AtWork
  <2>2. CASE u # t
    BY <2>2, <1>1, NewsMoves, ThreadTyped DEF Marked, AtWork
  <2> QED BY <2>1, <2>2
<1> QED BY <1>1, <1>2, NewsMoves DEF TypeInv, ProcessInv

LEMMA GetRevTyped ==
  ASSUME TypeInv, NEW t \in Thread, NEW p \in Page, GetRev(t, p) PROVE TypeInv'
<1> DEFINE r == [Idle EXCEPT !.pc = "news", !.page = p, !.oldPos = logPos, !.amid = Coming(p)]
<1>1. /\ th' = [th EXCEPT ![t] = r] /\ calls > 0 /\ calls' = calls - 1
      /\ seen' = [seen EXCEPT ![t] = TrueOf(p)] /\ Rereads /\ UNCHANGED <<logPos, cache>>
  BY DEF GetRev, Rereads
<1>2. Coming(p) \in BOOLEAN
  BY DEF Coming
<1>3. /\ r \in Reading /\ r.oldPos = logPos /\ r.newPos = NoPos
      /\ r.page = p /\ r.pc = "news"
  BY <1>2, ThreadTyped, NoRevIsNumber DEF Idle, Reading, Position
<1>4. TrueOf(p) \in SUBSET Datum
  BY TrueTyped DEF TypeInv
<1>5. r.newPos <= Len(log) /\ r.oldPos <= Len(log)
  BY <1>3, ThreadTyped DEF NoPos
<1>6. /\ seen' \in [Thread -> SUBSET Datum] /\ calls' \in Nat /\ logPos' \in Position
      /\ logPos' <= Len(log) /\ cache' \in [Page -> SUBSET Entry]
      /\ \A q \in Page : \A d, e \in cache'[q] : d = e
  BY <1>1, <1>4 DEF TypeInv, ProcessInv
<1> HIDE DEF r
<1> QED BY <1>1, <1>3, <1>5, <1>6, OneTyped

\* The steps of a thread between reading the log and returning.
LEMMA MovesTyped ==
  ASSUME TypeInv, NEW t \in Thread,
         \/ Forget(t) \/ Move(t) \/ Lookup(t) \/ ReadCurrent(t) \/ ReadExists(t)
         \/ PutItem(t) \/ Return(t)
  PROVE  TypeInv'
<1> USE ThreadTyped, NoRevIsNumber
<1>1. Rereads
  BY DEF Forget, Move, Lookup, ReadCurrent, ReadExists, PutItem, Return, Rereads
<1>2. /\ logPos \in Position /\ logPos <= Len(log) /\ calls \in Nat
      /\ cache \in [Page -> SUBSET Entry] /\ \A p \in Page : \A d, e \in cache[p] : d = e
      /\ seen \in [Thread -> SUBSET Datum]
  BY DEF TypeInv, ProcessInv
<1>3. CASE Forget(t)
  <2> DEFINE r == [th[t] EXCEPT !.pc = "move"]
  <2>1. /\ th' = [th EXCEPT ![t] = r] /\ UNCHANGED <<calls, logPos, seen>>
        /\ cache' = [p \in Page |-> IF p \in Removed(th[t].items) THEN {} ELSE cache[p]]
        /\ th[t].page \in Page
    BY <1>3 DEF Forget, After, AtWork
  <2>2. /\ r \in Reading /\ r.pc = "move" /\ r.page = th[t].page
        /\ r.oldPos = th[t].oldPos /\ r.newPos = th[t].newPos
    BY DEF Reading
  <2>3. cache' \in [Page -> SUBSET Entry] /\ \A p \in Page : \A d, e \in cache'[p] : d = e
    BY <1>2, <2>1
  <2> HIDE DEF r
  <2> QED BY <1>1, <1>2, <2>1, <2>2, <2>3, OneTyped
<1>4. CASE Move(t)
  <2> DEFINE r == [th[t] EXCEPT !.pc = "lookup"]
  <2>1. /\ th' = [th EXCEPT ![t] = r] /\ UNCHANGED <<calls, cache, seen>>
        /\ logPos' = th[t].newPos /\ th[t].page \in Page
    BY <1>4 DEF Move, After, AtWork
  <2>2. /\ r \in Reading /\ r.pc = "lookup" /\ r.page = th[t].page
        /\ r.oldPos = th[t].oldPos /\ r.newPos = th[t].newPos
    BY DEF Reading
  <2>3. logPos' \in Position /\ logPos' <= Len(log)
    BY <2>1 DEF Reading
  <2> HIDE DEF r
  <2> QED BY <1>1, <1>2, <2>1, <2>2, <2>3, OneTyped
<1>5. CASE Lookup(t)
  <2> DEFINE looking == [th[t] EXCEPT !.oldPos = NoPos, !.newPos = NoPos, !.items = {}]
  <2>1. /\ UNCHANGED <<calls, logPos, cache, seen>> /\ th[t].page \in Page
    BY <1>5 DEF Lookup, AtWork
  <2>2. PICK r : /\ th' = [th EXCEPT ![t] = r]
                 /\ \/ r = [looking EXCEPT !.pc = "current"]
                    \/ \E e \in cache[th[t].page] :
                         r = [looking EXCEPT !.pc = "done", !.data = e.data, !.raced = e.raced]
    BY <1>5 DEF Lookup
  <2>3. /\ r \in Reading /\ r.page = th[t].page /\ r.oldPos = NoPos /\ r.newPos = NoPos
        /\ r.pc \in {"current", "done"} /\ (r.pc = "done" => r.data \in Datum)
    <3>1. CASE r = [looking EXCEPT !.pc = "current"]
      BY <3>1 DEF Reading, Position
    <3>2. CASE \E e \in cache[th[t].page] :
                 r = [looking EXCEPT !.pc = "done", !.data = e.data, !.raced = e.raced]
      <4>1. PICK e \in Entry :
              r = [looking EXCEPT !.pc = "done", !.data = e.data, !.raced = e.raced]
        BY <3>2, <1>2, <2>1
      <4>2. e.data \in Datum /\ e.raced \in BOOLEAN
        BY DEF Entry
      <4> QED BY <4>1, <4>2 DEF Reading, Position
    <3> QED BY <2>2, <3>1, <3>2
  <2>4. r.oldPos <= Len(log) /\ r.newPos <= Len(log)
    BY <2>3 DEF NoPos
  <2> QED BY <1>1, <1>2, <2>1, <2>2, <2>3, <2>4, OneTyped
<1>6. CASE ReadCurrent(t)
  <2> DEFINE b == AwayAndNoticed(th[t].page)
             r == [th[t] EXCEPT !.pc = "exists", !.rev = RevOf(th[t].page), !.raced = @ \/ b]
  <2>0. UNCHANGED <<calls, logPos, cache, seen>> /\ th[t].page \in Page
    BY <1>6 DEF ReadCurrent, AtWork
  <2>1. /\ th' = [th EXCEPT ![t] = r] /\ UNCHANGED <<calls, logPos, cache, seen>>
        /\ th[t].page \in Page
    <3>1. th' = [th EXCEPT ![t].pc = "exists", ![t].rev = RevOf(th[t].page),
                           ![t].raced = @ \/ b]
      BY <1>6 DEF ReadCurrent
    <3>2. th \in [Thread -> Reading]
      BY DEF TypeInv, ProcessInv
    <3> HIDE DEF b
    <3>3. th' = [th EXCEPT ![t] = r]
      BY <3>1, <3>2 DEF Reading
    <3> QED BY <2>0, <3>3
  <2>2. RevOf(th[t].page) \in Nat /\ b \in BOOLEAN
    BY <2>1 DEF RevOf, AwayAndNoticed, TypeInv, DiskInv
  <2> HIDE DEF b
  <2>3. /\ r \in Reading /\ r.pc = "exists" /\ r.page = th[t].page
        /\ r.oldPos = th[t].oldPos /\ r.newPos = th[t].newPos
    BY <2>2 DEF Reading
  <2> HIDE DEF r
  <2> QED BY <1>1, <1>2, <2>1, <2>3, OneTyped
<1>7. CASE ReadExists(t)
  <2> DEFINE d == Data(th[t].rev, th[t].page)
             r == [th[t] EXCEPT !.pc = "put", !.rev = NoRev, !.data = d]
  <2>1. /\ th' = [th EXCEPT ![t] = r] /\ UNCHANGED <<calls, logPos, cache, seen>>
        /\ th[t].page \in Page
    BY <1>7 DEF ReadExists, AtWork
  <2>2. d \in Datum
    BY <2>1, DataTyped DEF Reading
  <2> HIDE DEF d
  <2>3. /\ r \in Reading /\ r.pc = "put" /\ r.page = th[t].page /\ r.data \in Datum
        /\ r.oldPos = th[t].oldPos /\ r.newPos = th[t].newPos
    BY <2>2 DEF Reading
  <2> HIDE DEF r
  <2> QED BY <1>1, <1>2, <2>1, <2>3, OneTyped
<1>8. CASE PutItem(t)
  <2> DEFINE r == [th[t] EXCEPT !.pc = "done"]
             entry == [data |-> th[t].data, raced |-> th[t].raced]
  <2>1. /\ th' = [th EXCEPT ![t] = r] /\ UNCHANGED <<calls, logPos, seen>>
        /\ cache' = [cache EXCEPT ![th[t].page] = {entry}]
        /\ th[t].page \in Page /\ th[t].data \in Datum
    BY <1>8 DEF PutItem, AtWork
  <2>2. entry \in Entry
    BY <2>1 DEF Entry, Reading
  <2> HIDE DEF entry
  <2>3. /\ r \in Reading /\ r.pc = "done" /\ r.page = th[t].page /\ r.data \in Datum
        /\ r.oldPos = th[t].oldPos /\ r.newPos = th[t].newPos
    BY <2>1 DEF Reading
  <2>4. cache' \in [Page -> SUBSET Entry] /\ \A p \in Page : \A d, e \in cache'[p] : d = e
    BY <1>2, <2>1, <2>2
  <2> HIDE DEF r
  <2> QED BY <1>1, <1>2, <2>1, <2>3, <2>4, OneTyped
<1>9. CASE Return(t)
  <2>1. /\ th' = [th EXCEPT ![t] = Idle] /\ UNCHANGED <<calls, logPos, cache>>
        /\ seen' = [seen EXCEPT ![t] = {}]
    BY <1>9 DEF Return
  <2>2. /\ Idle \in Reading /\ Idle.pc = "idle"
        /\ Idle.oldPos <= Len(log) /\ Idle.newPos <= Len(log)
    BY DEF Idle, Reading, Position, NoPos
  <2>3. seen' \in [Thread -> SUBSET Datum]
    BY <1>2, <2>1
  <2> QED BY <1>1, <1>2, <2>1, <2>2, <2>3, OneTyped
<1> QED BY <1>3, <1>4, <1>5, <1>6, <1>7, <1>8, <1>9
LEMMA ReaderTyped ==
  ASSUME TypeInv, NEW t \in Thread, Reader(t) PROVE TypeInv'
BY GetRevTyped, NewsTyped, MovesTyped DEF Reader

LEMMA NextTyped == TypeInv /\ [Next]_vars => TypeInv'
<1> SUFFICES ASSUME TypeInv, [Next]_vars PROVE TypeInv'
  OBVIOUS
<1>1. CASE \E p \in Page : Saver(p)
  BY <1>1, SaverTyped
<1>2. CASE \E t \in Thread : Reader(t)
  BY <1>2, ReaderTyped
<1>3. CASE UNCHANGED vars
  BY <1>3 DEF TypeInv, DiskInv, ProcessInv, NumberInv, AtWork, vars, disk, process
<1> QED BY <1>1, <1>2, <1>3 DEF Next

\* Whatever the readers and the savers do, the disk, the caches and the threads
\* stay within their types and the numbers within what the saves can reach.
THEOREM TypeInvariant == Spec => []TypeInv
BY InitTyped, NextTyped, PTL DEF Spec

\* Positions in the log stay positions in the log, and what is remembered of a page
\* stays a revision and whether it exists (Page.get_rev, ItemCache).
THEOREM TypeCorrect == Spec => []TypeOK
<1>1. TypeInv => TypeOK
  <2> SUFFICES ASSUME TypeInv PROVE TypeOK
    OBVIOUS
  <2>1. ASSUME NEW p \in Page PROVE Cardinality(cache[p]) <= 1
    <3>0. \A d, e \in cache[p] : d = e
      BY DEF TypeInv, ProcessInv
    <3>1. CASE cache[p] = {}
      BY <3>1, FS_EmptySet
    <3>2. CASE \E e : cache[p] = {e}
      <4>1. PICK e : cache[p] = {e}
        BY <3>2
      <4> QED BY <4>1, FS_Singleton
    <3> QED BY <3>0, <3>1, <3>2
  <2>2. \A p \in Page : \A e \in cache[p] : e.data \in Datum /\ e.raced \in BOOLEAN
    BY DEF TypeInv, ProcessInv, Entry
  <2>3. logPos \in NoPos..Len(log) /\ log \in Seq(SUBSET Page)
    BY DEF TypeInv, ProcessInv, DiskInv, Position, NoPos
  <2>4. \A t \in Thread : th[t].items \subseteq Page /\ seen[t] \subseteq Datum
    BY ThreadTyped DEF Reading
  <2> QED BY <2>1, <2>2, <2>3, <2>4 DEF TypeOK, TypeInv, DiskInv
<1> QED BY <1>1, TypeInvariant, PTL
------------------------------------------------------------------------------
(* FreshInv *)

\* What the steps of savers leave of the lines still to be read.
LEMMA LinesStay ==
  ASSUME TypeInv, Leaves, LogGrows, NEW p \in Page
  PROVE  (Pending(p) => Pending(p)') /\ (Unnoticed(p) # {} => Unnoticed(p)' # {})
<1>1. \A n \in LinesAbout(p, logPos) : n \in LinesAbout(p, logPos)'
  BY DEF Leaves, LogGrows, LinesAbout
<1>2. \A t \in Thread : /\ th'[t].pc = th[t].pc /\ th'[t].items = th[t].items
                        /\ th'[t].oldPos = th[t].oldPos /\ th'[t].newPos = th[t].newPos
  BY DEF Leaves, Marked
<1>3. Pending(p) => Pending(p)'
  BY <1>1, <1>2 DEF Pending, Heeds
<1>4. Unnoticed(p) # {} => Unnoticed(p)' # {}
  BY <1>1, <1>2 DEF Unnoticed
<1> QED BY <1>3, <1>4

\* A new line is behind every position.
LEMMA NewLine ==
  ASSUME TypeInv, Leaves, NEW p \in Page, log' \in Seq(SUBSET Page),
         Len(log') = Len(log) + 1, p \in log'[Len(log')]
  PROVE  Pending(p)' /\ Unnoticed(p)' # {}
<1> DEFINE n == Len(log')
<1>1. /\ n \in DOMAIN log' /\ n > logPos'
      /\ \A t \in Thread : n > th'[t].oldPos /\ n > th'[t].newPos
  <2>1. n \in DOMAIN log' /\ n > logPos'
    BY ThreadTyped DEF Leaves, TypeInv, DiskInv, ProcessInv, Position, NoPos
  <2>2. ASSUME NEW t \in Thread PROVE n > th'[t].oldPos /\ n > th'[t].newPos
    <3>1. th'[t].oldPos = th[t].oldPos /\ th'[t].newPos = th[t].newPos
      BY DEF Leaves, Marked
    <3> QED BY <3>1, ThreadTyped
  <2> QED BY <2>1, <2>2
<1>2. n \in LinesAbout(p, logPos)'
  BY <1>1 DEF LinesAbout
<1> HIDE DEF n
<1> QED BY <1>1, <1>2 DEF Pending, Heeds, Unnoticed

\* A line nobody has noticed is one that is still to come for everybody.
LEMMA UnnoticedPends ==
  ASSUME NEW p \in Page, Unnoticed(p) # {} PROVE Pending(p)
BY DEF Unnoticed, Pending, Heeds

\* What a saver's step has to do to each page.
Upheld(p) ==
  \/ Coming(p)'
  \/ ~Coming(p) /\ known'[p] = known[p]
  \/ Pending(p)' /\ Unnoticed(p)' # {}
  \/ Excused(p)

LEMMA UpheldKeeps ==
  ASSUME TypeInv, EntryInv, HoldInv, Leaves, LogGrows, \A p \in Page : Upheld(p)
  PROVE  EntryInv' /\ HoldInv'
<1>1. ASSUME NEW p \in Page, NEW e \in cache'[p]
      PROVE  e.raced \/ e.data = known'[p] \/ Coming(p)' \/ Pending(p)'
  <2>1. PICK d \in cache[p] : e.data = d.data /\ (d.raced => e.raced)
    BY DEF Leaves
  <2>2. d.raced \/ d.data = known[p] \/ Coming(p) \/ Pending(p)
    BY DEF EntryInv
  <2> QED BY <2>1, <2>2, LinesStay DEF Upheld, Excused
<1>2. ASSUME NEW u \in Thread, Holding(u)', NEW p, p = th'[u].page
      PROVE  \/ th'[u].raced \/ Coming(p)' \/ Unnoticed(p)' # {}
             \/ IF th'[u].pc = "exists" THEN th'[u].rev = known'[p].rev
                                        ELSE th'[u].data = known'[p]
  <2>1. /\ th'[u].pc = th[u].pc /\ th'[u].page = th[u].page /\ th'[u].rev = th[u].rev
        /\ th'[u].data = th[u].data /\ (th[u].raced => th'[u].raced)
    BY DEF Leaves, Marked
  <2>2. Holding(u) /\ p \in Page
    BY <1>2, <2>1, ThreadTyped DEF Holding, AtWork
  <2>3. \/ th[u].raced \/ Coming(p) \/ Unnoticed(p) # {}
        \/ IF th[u].pc = "exists" THEN th[u].rev = known[p].rev ELSE th[u].data = known[p]
    BY <1>2, <2>1, <2>2 DEF HoldInv
  <2> QED BY <1>2, <2>1, <2>2, <2>3, LinesStay DEF Upheld, Excused
<1> QED BY <1>1, <1>2 DEF EntryInv, HoldInv

\* The steps of savers that only begin or end the change of a page.
LEMMA TakeFresh ==
  ASSUME TypeInv, KnownInv, NEW p \in Page, Take(p)
  PROVE  KnownInv' /\ \A q \in Page : Upheld(q)
<1>1. /\ stage' = [stage EXCEPT ![p] = "taken"] /\ UNCHANGED <<texts, from, known>>
      /\ \A q \in Page \ {p} : current'[q] = current[q]
  BY DEF Take, TypeInv, DiskInv
<1>2. Coming(p)'
  BY <1>1 DEF Coming, TypeInv, DiskInv
<1>3. \A q \in Page \ {p} : Coming(q)' = Coming(q) /\ Settled(q)' = Settled(q)
  BY <1>1 DEF Coming, Settled, Data, TypeInv, DiskInv
<1> QED BY <1>1, <1>2, <1>3 DEF KnownInv, Upheld

LEMMA WriteFresh ==
  ASSUME TypeInv, KnownInv, NEW p \in Page, Write(p)
  PROVE  KnownInv' /\ \A q \in Page : Upheld(q)
<1>1. /\ stage' = [stage EXCEPT ![p] = "written"] /\ UNCHANGED <<from, known>>
      /\ \A q \in Page \ {p} : current'[q] = current[q] /\ texts'[q] = texts[q]
  BY DEF Write, TypeInv, DiskInv
<1>2. Coming(p)'
  BY <1>1 DEF Coming, TypeInv, DiskInv
<1>3. \A q \in Page \ {p} : Coming(q)' = Coming(q) /\ Settled(q)' = Settled(q)
  BY <1>1 DEF Coming, Settled, Data, TypeInv, DiskInv
<1> QED BY <1>1, <1>2, <1>3 DEF KnownInv, Upheld

LEMMA PutBackFresh ==
  ASSUME TypeInv, KnownInv, NEW p \in Page, PutBack(p)
  PROVE  KnownInv' /\ \A q \in Page : Upheld(q)
<1>1. /\ stage[p] = "logged" /\ stage' = [stage EXCEPT ![p] = "idle"]
      /\ UNCHANGED <<current, texts, from, known>>
  BY DEF PutBack
<1>2. \A q \in Page : Coming(q)' = Coming(q) /\ Settled(q)' = Settled(q)
  BY <1>1 DEF Coming, Settled, Data, TypeInv, DiskInv
<1> QED BY <1>1, <1>2 DEF KnownInv, Upheld

\* The line is about the pages that have changed, and says what became of them.
LEMMA LogFresh ==
  ASSUME TypeInv, KnownInv, Leaves, NEW p \in Page, Log(p)
  PROVE  KnownInv' /\ \A q \in Page : Upheld(q)
<1>1. /\ stage[p] = "written" /\ stage' = [stage EXCEPT ![p] = "logged"]
      /\ from' = [from EXCEPT ![p] = NoPage] /\ UNCHANGED <<current, texts>>
      /\ known' = [q \in Page |-> IF q = p THEN Settled(q)
                                  ELSE IF q = from[p] THEN Gone(q) ELSE known[q]]
  BY DEF Log
<1>2. \A q \in Page : Settled(q)' = Settled(q)
  BY <1>1 DEF Settled, Data
<1>3. ASSUME NEW q \in Page \ About(p)
      PROVE  Coming(q)' = Coming(q) /\ known'[q] = known[q]
  <2>1. q # p /\ q # from[p] /\ q # NoPage
    BY ConstantsAssumption DEF About
  <2>2. stage'[q] = stage[q] /\ \A r \in Page : (from'[r] = q) = (from[r] = q)
    BY <1>1, <2>1 DEF TypeInv, DiskInv
  <2> QED BY <1>1, <2>1, <2>2 DEF Coming
<1>4. ASSUME NEW q \in About(p) \cap Page
      PROVE  Coming(q)' \/ known'[q] = Settled(q)
  <2>1. q = p \/ q = from[p]
    BY DEF About
  <2> QED BY <1>1, <2>1 DEF Gone, Coming, TypeInv, DiskInv
<1>5. KnownInv'
  BY <1>2, <1>3, <1>4 DEF KnownInv
<1>6. \A q \in About(p) \cap Page : Pending(q)' /\ Unnoticed(q)' # {}
  BY LogTyped, NewLine DEF DiskInv
<1>7. ASSUME NEW q \in Page PROVE Upheld(q)
  BY <1>3, <1>6 DEF Upheld
<1> QED BY <1>5, <1>7

\* Without a line, everybody who knows the pages is marked.
LEMMA PutBackUnloggedFresh ==
  ASSUME TypeInv, KnownInv, NEW p \in Page, PutBackUnlogged(p)
  PROVE  KnownInv' /\ \A q \in Page : Upheld(q)
<1>1. /\ stage[p] \in {"taken", "written"} /\ stage' = [stage EXCEPT ![p] = "idle"]
      /\ from' = [from EXCEPT ![p] = NoPage] /\ UNCHANGED texts
      /\ known' = [q \in Page |-> IF q = p THEN Settled(q)'
                                  ELSE IF q = from[p] THEN Gone(q) ELSE known[q]]
      /\ Unlogged(About(p))
  BY DEF PutBackUnlogged
<1>2. \A q \in Page \ {p} : Settled(q)' = Settled(q)
  BY DEF PutBackUnlogged, Settled, Data, TypeInv, DiskInv
<1>3. ASSUME NEW q \in Page \ About(p)
      PROVE  Coming(q)' = Coming(q) /\ known'[q] = known[q]
  <2>1. q # p /\ q # from[p] /\ q # NoPage
    BY ConstantsAssumption DEF About
  <2>2. stage'[q] = stage[q] /\ \A r \in Page : (from'[r] = q) = (from[r] = q)
    BY <1>1, <2>1 DEF TypeInv, DiskInv
  <2> QED BY <1>1, <2>1, <2>2 DEF Coming
<1>4. ASSUME NEW q \in About(p) \cap Page
      PROVE  Coming(q)' \/ known'[q] = Settled(q)'
  <2>1. q = p \/ (q = from[p] /\ q # p)
    BY DEF About
  <2>2. CASE q = p
    BY <1>1, <2>2
  <2>3. CASE q = from[p] /\ q # p
    <3>1. stage'[q] = stage[q] /\ known'[q] = Gone(q) /\ Settled(q)' = Settled(q)
      BY <1>1, <1>2, <2>3 DEF TypeInv, DiskInv
    <3> QED BY <3>1 DEF Gone, Coming
  <2> QED BY <2>1, <2>2, <2>3
<1>5. KnownInv'
  <2> SUFFICES ASSUME NEW q \in Page PROVE Coming(q)' \/ known'[q] = Settled(q)'
    BY DEF KnownInv
  <2>1. CASE q \in About(p)
    BY <1>4, <2>1
  <2>2. CASE q \notin About(p)
    <3>1. q # p
      BY <2>2 DEF About
    <3> QED BY <1>2, <1>3, <2>2, <3>1 DEF KnownInv
  <2> QED BY <2>1, <2>2
<1>6. \A q \in About(p) \cap Page : Excused(q)
  BY <1>1, UnloggedLeaves, PutBackUnloggedTyped
<1>7. ASSUME NEW q \in Page PROVE Upheld(q)
  BY <1>3, <1>6 DEF Upheld
<1> QED BY <1>5, <1>7

LEMMA RenameFresh ==
  ASSUME TypeInv, KnownInv, NEW p \in Page, NEW q \in Page, Rename(p, q)
  PROVE  KnownInv' /\ \A r \in Page : Upheld(r)
<1>1. /\ stage[q] = "idle" /\ stage' = [stage EXCEPT ![q] = "renamed"]
      /\ from' = [from EXCEPT ![q] = p] /\ UNCHANGED known /\ p # q
      /\ \A r \in Page \ {p, q} : current'[r] = current[r] /\ texts'[r] = texts[r]
  BY RenameTyped DEF Rename, TypeInv, DiskInv
<1>2. Coming(p)' /\ Coming(q)'
  BY <1>1 DEF Coming, TypeInv, DiskInv
<1>3. ASSUME NEW r \in Page \ {p, q}
      PROVE  (Coming(r) => Coming(r)') /\ (Coming(r)' => Coming(r)) /\ Settled(r)' = Settled(r)
  <2>1. from[q] = NoPage
    BY <1>1 DEF TypeInv, NumberInv
  <2>2. stage'[r] = stage[r] /\ \A x \in Page : (from'[x] = r) = (from[x] = r)
    BY <1>1, <2>1, ConstantsAssumption DEF TypeInv, DiskInv
  <2> QED BY <1>1, <2>2 DEF Coming, Settled, Data
<1>4. ASSUME NEW r \in Page PROVE Upheld(r) /\ (Coming(r)' \/ known'[r] = Settled(r)')
  BY <1>1, <1>2, <1>3 DEF KnownInv, Upheld
<1> QED BY <1>4 DEF KnownInv

LEMMA SaverFresh ==
  ASSUME TypeInv, FreshInv, NEW p \in Page, Saver(p) PROVE FreshInv'
<1>0. Leaves /\ LogGrows
  BY SaverTyped
<1>1. KnownInv' /\ \A q \in Page : Upheld(q)
  BY <1>0, TakeFresh, WriteFresh, LogFresh, PutBackFresh, PutBackUnloggedFresh, RenameFresh
     DEF FreshInv, Saver
<1> QED BY <1>0, <1>1, UpheldKeeps DEF FreshInv
\* The steps of threads leave what is true of the pages alone.
LEMMA RereadsKnown ==
  ASSUME Rereads
  PROVE  /\ UNCHANGED <<log, known>> /\ (KnownInv => KnownInv')
         /\ \A p \in Page : /\ Coming(p)' = Coming(p) /\ Settled(p)' = Settled(p)
                            /\ TrueOf(p)' = TrueOf(p)
                            /\ \A rev : Data(rev, p)' = Data(rev, p)
<1>1. UNCHANGED <<current, texts, stage, from, log, known>>
  BY DEF Rereads, disk
<1>2. \A p \in Page : /\ Coming(p)' = Coming(p) /\ Settled(p)' = Settled(p)
                      /\ TrueOf(p)' = TrueOf(p)
                      /\ \A rev : Data(rev, p)' = Data(rev, p)
  BY <1>1 DEF Coming, Settled, TrueOf, OnDisk, RevOf, InPlace, Data
<1>3. KnownInv => KnownInv'
  BY <1>1, <1>2 DEF KnownInv
<1> QED BY <1>1, <1>2, <1>3

\* Line n is behind what r has read and began with.
Ahead(n, r) == n > r.oldPos /\ n > r.newPos

\* Lines stay to be read if the thread that moves leaves them to be read.
LEMMA OneMoves ==
  ASSUME TypeInv, Rereads, NEW t \in Thread, NEW r, th' = [th EXCEPT ![t] = r],
         logPos' = logPos, NEW p \in Page
  PROVE  /\ (\A n \in LinesAbout(p, logPos) : Ahead(n, th[t]) => Ahead(n, r))
            => (Unnoticed(p) # {} => Unnoticed(p)' # {})
         /\ (\A n \in LinesAbout(p, logPos) : Heeds(th[t], n, p) => Heeds(r, n, p))
            => (Pending(p) => Pending(p)')
<1>1. LinesAbout(p, logPos)' = LinesAbout(p, logPos)
  BY RereadsKnown DEF LinesAbout
<1>2. th'[t] = r /\ \A u \in Thread \ {t} : th'[u] = th[u]
  BY DEF TypeInv, ProcessInv
<1>3. ASSUME \A n \in LinesAbout(p, logPos) : Ahead(n, th[t]) => Ahead(n, r),
             NEW n \in Unnoticed(p)
      PROVE  n \in Unnoticed(p)'
  <2>1. n \in LinesAbout(p, logPos) /\ \A u \in Thread : Ahead(n, th[u])
    BY DEF Unnoticed, Ahead
  <2>2. \A u \in Thread : Ahead(n, th'[u])
    BY <1>2, <1>3, <2>1
  <2> QED BY <1>1, <2>1, <2>2 DEF Unnoticed, Ahead
<1>4. ASSUME \A n \in LinesAbout(p, logPos) : Heeds(th[t], n, p) => Heeds(r, n, p),
             NEW n \in LinesAbout(p, logPos), \A u \in Thread : Heeds(th[u], n, p)
      PROVE  Pending(p)'
  <2>1. \A u \in Thread : Heeds(th'[u], n, p)
    BY <1>2, <1>4
  <2>2. n \in LinesAbout(p, logPos)'
    BY <1>1
  <2>3. \A u \in Thread : Heeds(th[u], n, p)'
    BY <2>1 DEF Heeds
  <2> QED BY <2>2, <2>3 DEF Pending
<1> QED BY <1>3, <1>4 DEF Pending
\* A thread that has looked at the disk holds what will do in the cache.
HeldWell(r) ==
  \/ r.raced \/ Coming(r.page) \/ Unnoticed(r.page) # {}
  \/ IF r.pc = "exists" THEN r.rev = known[r.page].rev ELSE r.data = known[r.page]

LEMMA ReaderKeeps ==
  ASSUME TypeInv, FreshInv, Rereads, NEW t \in Thread, NEW r, th' = [th EXCEPT ![t] = r],
         logPos' = logPos,
         \A p \in Page : \A n \in LinesAbout(p, logPos) : Ahead(n, th[t]) => Ahead(n, r),
         \A p \in Page :
           cache'[p] = {} \/ \A n \in LinesAbout(p, logPos) : Heeds(th[t], n, p) => Heeds(r, n, p),
         \A p \in Page : \A e \in cache'[p] :
           \/ e \in cache[p]
           \/ e.raced \/ e.data = known[p] \/ Coming(p) \/ Unnoticed(p) # {},
         r.pc \in {"exists", "put"} => r.page \in Page /\ HeldWell(r)
  PROVE  FreshInv'
<1>1. /\ KnownInv' /\ known' = known /\ \A p \in Page : Coming(p)' = Coming(p)
  BY RereadsKnown DEF FreshInv
<1>2. \A p \in Page : Unnoticed(p) # {} => Unnoticed(p)' # {}
  BY OneMoves
<1>3. ASSUME NEW p \in Page, NEW e \in cache'[p]
      PROVE  e.raced \/ e.data = known'[p] \/ Coming(p)' \/ Pending(p)'
  <2>1. Pending(p) => Pending(p)'
    BY OneMoves
  <2>2. e.raced \/ e.data = known[p] \/ Coming(p) \/ Pending(p)
    BY UnnoticedPends DEF FreshInv, EntryInv
  <2> QED BY <1>1, <2>1, <2>2
<1>4. th'[t] = r /\ \A u \in Thread \ {t} : th'[u] = th[u]
  BY DEF TypeInv, ProcessInv
<1>5. ASSUME NEW u \in Thread, Holding(u)', NEW p, p = th'[u].page
      PROVE  \/ th'[u].raced \/ Coming(p)' \/ Unnoticed(p)' # {}
             \/ IF th'[u].pc = "exists" THEN th'[u].rev = known'[p].rev
                                        ELSE th'[u].data = known'[p]
  <2>1. CASE u = t
    BY <1>1, <1>2, <1>4, <1>5, <2>1 DEF Holding, HeldWell
  <2>2. CASE u # t
    <3>1. Holding(u) /\ th'[u] = th[u] /\ p \in Page /\ p = th[u].page
      BY <1>4, <1>5, <2>2, ThreadTyped DEF Holding, AtWork
    <3>2. \/ th[u].raced \/ Coming(p) \/ Unnoticed(p) # {}
          \/ IF th[u].pc = "exists" THEN th[u].rev = known[p].rev ELSE th[u].data = known[p]
      BY <3>1 DEF FreshInv, HoldInv
    <3> QED BY <1>1, <1>2, <3>1, <3>2
  <2> QED BY <2>1, <2>2
<1> QED BY <1>1, <1>3, <1>5 DEF FreshInv, EntryInv, HoldInv

LEMMA GetRevFresh ==
  ASSUME TypeInv, FreshInv, NEW t \in Thread, NEW p \in Page, GetRev(t, p) PROVE FreshInv'
<1> DEFINE r == [Idle EXCEPT !.pc = "news", !.page = p, !.oldPos = logPos, !.amid = Coming(p)]
<1>1. th' = [th EXCEPT ![t] = r] /\ Rereads /\ UNCHANGED <<logPos, cache>>
  BY DEF GetRev, Rereads
<1>2. r.pc = "news" /\ r.oldPos = logPos /\ r.newPos = NoPos
  BY DEF Idle
<1>3. \A q \in Page : \A n \in LinesAbout(q, logPos) : Ahead(n, r) /\ Heeds(r, n, q)
  BY <1>2 DEF LinesAbout, Ahead, Heeds, TypeInv, DiskInv, NoPos
<1> HIDE DEF r
<1> QED BY <1>1, <1>2, <1>3, ReaderKeeps

LEMMA ForgetFresh ==
  ASSUME TypeInv, FreshInv, NEW t \in Thread, Forget(t) PROVE FreshInv'
<1> DEFINE r == [th[t] EXCEPT !.pc = "move"]
<1>1. /\ th[t].pc = "forget" /\ th' = [th EXCEPT ![t] = r] /\ Rereads /\ UNCHANGED logPos
      /\ cache' = [p \in Page |-> IF p \in Removed(th[t].items) THEN {} ELSE cache[p]]
  BY DEF Forget, After, Rereads
<1>2. r.pc = "move" /\ r.oldPos = th[t].oldPos /\ r.newPos = th[t].newPos
  BY ThreadTyped DEF Reading
<1>3. \A p \in Page : cache'[p] = {} \/ (p \notin th[t].items /\ cache'[p] = cache[p])
  BY <1>1 DEF Removed
<1>4. \A p \in Page : \A n : p \notin th[t].items /\ Heeds(th[t], n, p) => Heeds(r, n, p)
  BY <1>1, <1>2 DEF Heeds
<1>5. \A n : Ahead(n, th[t]) => Ahead(n, r)
  BY <1>2 DEF Ahead
<1> HIDE DEF r
<1> QED BY <1>1, <1>2, <1>3, <1>4, <1>5, ReaderKeeps

LEMMA LookupFresh ==
  ASSUME TypeInv, FreshInv, NEW t \in Thread, Lookup(t) PROVE FreshInv'
<1>1. Rereads /\ UNCHANGED <<logPos, cache>>
  BY DEF Lookup, Rereads
<1>2. PICK r : /\ th' = [th EXCEPT ![t] = r] /\ r.pc \in {"current", "done"}
               /\ r.oldPos = NoPos /\ r.newPos = NoPos
  <2> DEFINE looking == [th[t] EXCEPT !.oldPos = NoPos, !.newPos = NoPos, !.items = {}]
  <2>1. PICK r : /\ th' = [th EXCEPT ![t] = r]
                 /\ \/ r = [looking EXCEPT !.pc = "current"]
                    \/ \E e \in cache[th[t].page] :
                         r = [looking EXCEPT !.pc = "done", !.data = e.data, !.raced = e.raced]
    BY DEF Lookup
  <2>2. r.pc \in {"current", "done"} /\ r.oldPos = NoPos /\ r.newPos = NoPos
    BY <2>1, ThreadTyped DEF Reading
  <2> QED BY <2>1, <2>2
<1>3. \A p \in Page : \A n \in LinesAbout(p, logPos) : Ahead(n, r) /\ Heeds(r, n, p)
  BY <1>2 DEF LinesAbout, Ahead, Heeds, TypeInv, DiskInv, NoPos
<1> QED BY <1>1, <1>2, <1>3, ReaderKeeps

\* `current` is read: away, it is marked if the line is read already.
LEMMA ReadCurrentFresh ==
  ASSUME TypeInv, FreshInv, NEW t \in Thread, ReadCurrent(t) PROVE FreshInv'
<1> DEFINE p == th[t].page
<1>1. /\ th[t].pc = "current" /\ Rereads /\ UNCHANGED <<logPos, cache>>
  BY DEF ReadCurrent, Rereads
<1>2. p \in Page /\ th[t] \in Reading
  BY <1>1, ThreadTyped DEF AtWork
<1>3. PICK r : /\ th' = [th EXCEPT ![t] = r] /\ r.pc = "exists" /\ r.page = p
               /\ r.oldPos = th[t].oldPos /\ r.newPos = th[t].newPos /\ r.rev = RevOf(p)
               /\ AwayAndNoticed(p) => r.raced
  <2> DEFINE b == AwayAndNoticed(p)
             r == [th[t] EXCEPT !.pc = "exists", !.rev = RevOf(p), !.raced = @ \/ b]
  <2>1. th' = [th EXCEPT ![t].pc = "exists", ![t].rev = RevOf(p), ![t].raced = @ \/ b]
    BY DEF ReadCurrent
  <2>2. th \in [Thread -> Reading]
    BY DEF TypeInv, ProcessInv
  <2>3. b \in BOOLEAN
    BY DEF AwayAndNoticed
  <2> HIDE DEF b, p
  <2>4. th' = [th EXCEPT ![t] = r]
    BY <2>1, <2>2 DEF Reading
  <2>5. /\ r.pc = "exists" /\ r.page = th[t].page /\ r.rev = RevOf(p) /\ (b => r.raced)
        /\ r.oldPos = th[t].oldPos /\ r.newPos = th[t].newPos
    BY <1>2, <2>3 DEF Reading
  <2> QED BY <2>4, <2>5 DEF b, p
<1>4. HeldWell(r)
  <2>1. CASE stage[p] \in {"renamed", "taken", "written"}
    BY <1>3, <2>1 DEF HeldWell, Coming
  <2>2. CASE stage[p] = "logged"
    BY <1>3, <2>2 DEF HeldWell, AwayAndNoticed
  <2>3. CASE stage[p] = "idle"
    <3>1. RevOf(p) = Settled(p).rev
      BY <2>3 DEF RevOf, InPlace, Settled, Data
    <3> QED BY <1>2, <1>3, <3>1 DEF HeldWell, FreshInv, KnownInv
  <2>4. stage[p] \in Stages
    BY <1>2 DEF TypeInv, DiskInv
  <2> QED BY <2>1, <2>2, <2>3, <2>4 DEF Stages
<1>5. \A n : Ahead(n, th[t]) => Ahead(n, r)
  BY <1>3 DEF Ahead
<1>6. \A n, q : Heeds(r, n, q)
  BY <1>3 DEF Heeds
<1> HIDE DEF p
<1> QED BY <1>1, <1>2, <1>3, <1>4, <1>5, <1>6, ReaderKeeps

LEMMA ReadExistsFresh ==
  ASSUME TypeInv, FreshInv, NEW t \in Thread, ReadExists(t) PROVE FreshInv'
<1> DEFINE p == th[t].page
           r == [th[t] EXCEPT !.pc = "put", !.rev = NoRev, !.data = Data(th[t].rev, p)]
<1>1. /\ th[t].pc = "exists" /\ Rereads /\ UNCHANGED <<logPos, cache>>
  BY DEF ReadExists, Rereads
<1>2. p \in Page /\ th[t] \in Reading
  BY <1>1, ThreadTyped DEF AtWork
<1>3. th' = [th EXCEPT ![t] = r]
  <2>1. th' = [th EXCEPT ![t].pc = "put", ![t].rev = NoRev, ![t].data = Data(th[t].rev, p)]
    BY DEF ReadExists
  <2>2. th \in [Thread -> Reading]
    BY DEF TypeInv, ProcessInv
  <2> HIDE DEF p
  <2> QED BY <2>1, <2>2 DEF Reading
<1>4. /\ r.pc = "put" /\ r.page = p /\ r.data = Data(th[t].rev, p) /\ r.raced = th[t].raced
      /\ r.oldPos = th[t].oldPos /\ r.newPos = th[t].newPos
  BY <1>2 DEF Reading
<1> HIDE DEF r
<1>5. HeldWell(r)
  <2>1. HeldWell(th[t])
    BY <1>1 DEF FreshInv, HoldInv, HeldWell, Holding
  <2>2. th[t].rev = known[p].rev /\ ~Coming(p) => Data(th[t].rev, p) = known[p]
    <3> HIDE DEF p
    <3>1. ~Coming(p) => known[p] = Data(current[p], p)
      BY <1>2 DEF FreshInv, KnownInv, Settled
    <3>2. Data(current[p], p).rev = current[p]
      BY DEF Data
    <3> QED BY <3>1, <3>2
  <2> QED BY <1>1, <1>4, <2>1, <2>2 DEF HeldWell
<1>6. \A n : Ahead(n, th[t]) => Ahead(n, r)
  BY <1>4 DEF Ahead
<1>7. \A n, q : Heeds(r, n, q)
  BY <1>4 DEF Heeds
<1> HIDE DEF p
<1> QED BY <1>1, <1>2, <1>3, <1>4, <1>5, <1>6, <1>7, ReaderKeeps

LEMMA PutItemFresh ==
  ASSUME TypeInv, FreshInv, NEW t \in Thread, PutItem(t) PROVE FreshInv'
<1> DEFINE p == th[t].page
           r == [th[t] EXCEPT !.pc = "done"]
           entry == [data |-> th[t].data, raced |-> th[t].raced]
<1>1. /\ th[t].pc = "put" /\ th' = [th EXCEPT ![t] = r] /\ Rereads /\ UNCHANGED logPos
      /\ cache' = [cache EXCEPT ![p] = {entry}]
  BY DEF PutItem, Rereads
<1>2. p \in Page /\ th[t] \in Reading
  BY <1>1, ThreadTyped DEF AtWork
<1>3. r.pc = "done" /\ r.oldPos = th[t].oldPos /\ r.newPos = th[t].newPos
  BY <1>2 DEF Reading
<1>4. \/ entry.raced \/ Coming(p) \/ Unnoticed(p) # {}
      \/ entry.data = known[p]
  BY <1>1 DEF FreshInv, HoldInv, Holding
<1>5. \A q \in Page : \A e \in cache'[q] : e \in cache[q] \/ (q = p /\ e = entry)
  BY <1>1, <1>2 DEF TypeInv, ProcessInv
<1>6. \A n : Ahead(n, th[t]) => Ahead(n, r)
  BY <1>3 DEF Ahead
<1>7. \A n, q : Heeds(r, n, q)
  BY <1>3 DEF Heeds
<1> HIDE DEF p, r, entry
<1> QED BY <1>1, <1>3, <1>4, <1>5, <1>6, <1>7, ReaderKeeps

LEMMA ReturnFresh ==
  ASSUME TypeInv, FreshInv, NEW t \in Thread, Return(t) PROVE FreshInv'
<1>1. th' = [th EXCEPT ![t] = Idle] /\ Rereads /\ UNCHANGED <<logPos, cache>>
  BY DEF Return, Rereads
<1>2. Idle.pc = "idle" /\ Idle.oldPos = NoPos /\ Idle.newPos = NoPos
  BY DEF Idle
<1>3. \A p \in Page : \A n \in LinesAbout(p, logPos) : Ahead(n, Idle) /\ Heeds(Idle, n, p)
  BY <1>2, ThreadTyped DEF LinesAbout, Ahead, Heeds, TypeInv, DiskInv, ProcessInv, Position, NoPos
<1> QED BY <1>1, <1>2, <1>3, ReaderKeeps
\* A thread that reads the log will remove what the lines still to come are about, or
\* has passed over them and marked it.
LEMMA NewsRemoves ==
  ASSUME TypeInv, NEW t \in Thread, News(t), NEW p \in Page, NEW e \in cache'[p], Pending(p)
  PROVE  e.raced \/ (p \in th'[t].items /\ Pending(p)')
<1>1. UNCHANGED <<log, logPos>> /\ \A u \in Thread \ {t} : Marked(th[u], th'[u])
  BY NewsMoves, RereadsKnown
<1>2. PICK n \in LinesAbout(p, logPos) : \A u \in Thread : Heeds(th[u], n, p)
  BY DEF Pending
<1>3. n > th[t].oldPos /\ n \in 1..Len(log) /\ p \in log[n]
  BY <1>2, NewsMoves DEF Heeds, LinesAbout, TypeInv, DiskInv
<1>4. CASE th[t].oldPos = NoPos
  BY <1>2, <1>4, NewsMoves
<1>5. CASE th[t].oldPos # NoPos
  <2>1. p \in ItemsAfter(th[t].oldPos)
    BY <1>3, <1>5, ThreadTyped DEF ItemsAfter
  <2>2. Heeds(th'[t], n, p)
    BY <2>1, NewsMoves DEF Heeds
  <2>3. \A u \in Thread : Heeds(th'[u], n, p)
    BY <1>1, <1>2, <2>2 DEF Heeds, Marked
  <2>4. n \in LinesAbout(p, logPos)' /\ \A u \in Thread : Heeds(th[u], n, p)'
    BY <1>1, <1>2, <2>3 DEF LinesAbout, Heeds
  <2> QED BY <2>1, <2>4, NewsMoves DEF Pending
<1> QED BY <1>4, <1>5

\* The others are marked if they looked at the disk before the lines.
LEMMA NewsFresh ==
  ASSUME TypeInv, FreshInv, NEW t \in Thread, News(t) PROVE FreshInv'
<1>1. /\ KnownInv' /\ UNCHANGED <<log, logPos, known>>
      /\ \A p \in Page : Coming(p)' = Coming(p)
  BY NewsMoves, RereadsKnown DEF FreshInv
<1>2. \A u \in Thread \ {t} : Marked(th[u], th'[u])
  BY NewsMoves
<1>3. ASSUME NEW p \in Page, NEW e \in cache'[p]
      PROVE  e.raced \/ e.data = known'[p] \/ Coming(p)' \/ Pending(p)'
  <2>1. PICK d \in cache[p] : e.data = d.data /\ (d.raced => e.raced)
    BY NewsMoves
  <2>2. d.raced \/ d.data = known[p] \/ Coming(p) \/ Pending(p)
    BY DEF FreshInv, EntryInv
  <2> QED BY <1>1, <2>1, <2>2, NewsRemoves
<1>4. ASSUME NEW u \in Thread, Holding(u)', NEW p, p = th'[u].page
      PROVE  \/ th'[u].raced \/ Coming(p)' \/ Unnoticed(p)' # {}
             \/ IF th'[u].pc = "exists" THEN th'[u].rev = known'[p].rev
                                        ELSE th'[u].data = known'[p]
  <2>1. u # t
    BY <1>4, NewsMoves DEF Holding
  <2>2. /\ th'[u].pc = th[u].pc /\ th'[u].page = th[u].page /\ th'[u].rev = th[u].rev
        /\ th'[u].data = th[u].data /\ (th[u].raced => th'[u].raced)
    BY <1>2, <2>1 DEF Marked
  <2>3. Holding(u) /\ p \in Page /\ p = th[u].page
    BY <1>4, <2>2, ThreadTyped DEF Holding, AtWork
  <2>4. \/ th[u].raced \/ Coming(p) \/ Unnoticed(p) # {}
        \/ IF th[u].pc = "exists" THEN th[u].rev = known[p].rev ELSE th[u].data = known[p]
    BY <2>3 DEF FreshInv, HoldInv
  <2>5. Unnoticed(p) # {} => th'[u].raced
    BY <2>1, <2>3, NewsMoves
  <2> QED BY <1>1, <2>2, <2>3, <2>4, <2>5
<1> QED BY <1>1, <1>3, <1>4 DEF FreshInv, EntryInv, HoldInv

\* The position moves on to where this thread has read: what it has not read is
\* still to come, and it has removed what it has read.
LEMMA MoveLines ==
  ASSUME TypeInv, NEW t \in Thread, Move(t), NEW p \in Page
  PROVE  (Unnoticed(p) # {} => Unnoticed(p)' # {}) /\ (Pending(p) => Pending(p)')
<1> DEFINE r == [th[t] EXCEPT !.pc = "lookup"]
<1>1. /\ th[t].pc = "move" /\ th' = [th EXCEPT ![t] = r] /\ logPos' = th[t].newPos
      /\ UNCHANGED log
  BY DEF Move, After, disk
<1>2. r.pc = "lookup" /\ r.oldPos = th[t].oldPos /\ r.newPos = th[t].newPos
  BY ThreadTyped DEF Reading
<1>3. th'[t] = r /\ \A u \in Thread \ {t} : th'[u] = th[u]
  BY <1>1 DEF TypeInv, ProcessInv
<1> HIDE DEF r
<1>4. ASSUME NEW n \in LinesAbout(p, logPos), n > th[t].newPos
      PROVE  n \in LinesAbout(p, logPos)'
  BY <1>1, <1>4 DEF LinesAbout
<1>5. ASSUME Unnoticed(p) # {} PROVE Unnoticed(p)' # {}
  <2>1. PICK n \in Unnoticed(p) : TRUE
    BY <1>5
  <2>2. n \in LinesAbout(p, logPos) /\ \A u \in Thread : n > th[u].oldPos /\ n > th[u].newPos
    BY <2>1 DEF Unnoticed
  <2>3. \A u \in Thread : n > th'[u].oldPos /\ n > th'[u].newPos
    BY <1>2, <1>3, <2>2
  <2> QED BY <1>4, <2>2, <2>3 DEF Unnoticed
<1>6. ASSUME Pending(p) PROVE Pending(p)'
  <2>1. PICK n \in LinesAbout(p, logPos) : \A u \in Thread : Heeds(th[u], n, p)
    BY <1>6 DEF Pending
  <2>2. n > th[t].newPos
    BY <1>1, <2>1 DEF Heeds
  <2>3. \A u \in Thread : Heeds(th[u], n, p)'
    BY <1>2, <1>3, <2>1 DEF Heeds
  <2> QED BY <1>4, <2>2, <2>3 DEF Pending
<1> QED BY <1>5, <1>6

LEMMA MoveFresh ==
  ASSUME TypeInv, FreshInv, NEW t \in Thread, Move(t) PROVE FreshInv'
<1> DEFINE r == [th[t] EXCEPT !.pc = "lookup"]
<1>1. th' = [th EXCEPT ![t] = r] /\ Rereads /\ UNCHANGED cache
  BY DEF Move, After, Rereads
<1>2. r.pc = "lookup"
  BY ThreadTyped DEF Reading
<1>3. KnownInv' /\ UNCHANGED known /\ \A p \in Page : Coming(p)' = Coming(p)
  BY <1>1, RereadsKnown DEF FreshInv
<1>4. th'[t] = r /\ \A u \in Thread \ {t} : th'[u] = th[u]
  BY <1>1 DEF TypeInv, ProcessInv
<1> HIDE DEF r
<1>5. ASSUME NEW u \in Thread, Holding(u)', NEW p, p = th'[u].page
      PROVE  \/ th'[u].raced \/ Coming(p)' \/ Unnoticed(p)' # {}
             \/ IF th'[u].pc = "exists" THEN th'[u].rev = known'[p].rev
                                        ELSE th'[u].data = known'[p]
  <2>1. u # t
    BY <1>2, <1>4, <1>5 DEF Holding
  <2>2. Holding(u) /\ th'[u] = th[u] /\ p \in Page /\ p = th[u].page
    BY <1>4, <1>5, <2>1, ThreadTyped DEF Holding, AtWork
  <2>3. \/ th[u].raced \/ Coming(p) \/ Unnoticed(p) # {}
        \/ IF th[u].pc = "exists" THEN th[u].rev = known[p].rev ELSE th[u].data = known[p]
    BY <2>2 DEF FreshInv, HoldInv
  <2> QED BY <1>3, <2>2, <2>3, MoveLines
<1>6. EntryInv'
  BY <1>1, <1>3, MoveLines DEF FreshInv, EntryInv
<1> QED BY <1>3, <1>5, <1>6 DEF FreshInv, HoldInv

LEMMA ReaderFresh ==
  ASSUME TypeInv, FreshInv, NEW t \in Thread, Reader(t) PROVE FreshInv'
BY GetRevFresh, NewsFresh, ForgetFresh, MoveFresh, LookupFresh, ReadCurrentFresh,
   ReadExistsFresh, PutItemFresh, ReturnFresh DEF Reader

LEMMA InitFresh == Init => FreshInv
<1> SUFFICES ASSUME Init PROVE FreshInv
  OBVIOUS
<1>1. \A p \in Page : cache[p] = {} /\ known[p] = OnDisk(p) /\ stage[p] = "idle"
  BY DEF Init
<1>2. \A t \in Thread : ~Holding(t)
  BY DEF Init, Holding, Idle
<1>3. \A p \in Page : OnDisk(p) = Settled(p)
  BY <1>1 DEF OnDisk, RevOf, InPlace, Settled
<1> QED BY <1>1, <1>2, <1>3 DEF FreshInv, KnownInv, EntryInv, HoldInv

LEMMA UnchangedFresh ==
  ASSUME FreshInv, UNCHANGED vars PROVE FreshInv'
<1>1. UNCHANGED <<current, texts, stage, from, log, logPos, cache, th, known>>
  BY DEF vars, disk, process
<1>2. \A p : /\ Coming(p)' = Coming(p) /\ Settled(p)' = Settled(p)
             /\ Pending(p)' = Pending(p) /\ Unnoticed(p)' = Unnoticed(p)
  BY <1>1 DEF Coming, Settled, Data, Pending, Unnoticed, LinesAbout, Heeds
<1>3. \A u : Holding(u)' = Holding(u)
  BY <1>1 DEF Holding
<1> QED BY <1>1, <1>2, <1>3 DEF FreshInv, KnownInv, EntryInv, HoldInv

\* What a page's cache holds, and what a thread has read and is about to put there, is
\* what the last finished save left, unless it raced a save, one is under way, or a
\* line of the edit log that will drop it is still to be read (get_rev and
\* EditLog.news; the inductive invariant behind FreshUnlessRaced).
THEOREM FreshInvariant == Spec => [](TypeInv /\ FreshInv)
<1>1. TypeInv /\ FreshInv /\ [Next]_vars => FreshInv'
  BY SaverFresh, ReaderFresh, UnchangedFresh DEF Next
<1> QED BY <1>1, InitTyped, InitFresh, NextTyped, PTL DEF Spec

\* What the cache remembers of a page is what the last change made of it as long as
\* no line about the page is to be read or written, unless it is marked: whatever
\* the threads of Page.get_rev and the savers do in between, ItemCache.refresh
\* removes an entry before the position moves past the line that makes it old.
THEOREM CacheIsFresh == Spec => []FreshUnlessRaced
<1>1. TypeInv /\ FreshInv => FreshUnlessRaced
  BY DEF FreshInv, EntryInv, FreshUnlessRaced, Pending
<1> QED BY <1>1, FreshInvariant, PTL
------------------------------------------------------------------------------
(* RecentInv *)

\* A saver's step lets the threads see what it makes of what they hold, unless
\* they are amid a save after it.
LEMMA SaverShows ==
  ASSUME TypeInv, NEW x \in Page, Saver(x), NEW u \in Thread, th[u].pc = "exists",
         NEW p \in Page, p = th[u].page, NEW rev, rev = th[u].rev
  PROVE  \/ Data(rev, p)'.exists = Data(rev, p).exists
         \/ \E s \in TrueOf(p)' : s.exists = Data(rev, p)'.exists
         \/ \A t \in Thread : th[t].page = p => th'[t].amid
<1> USE DEF Data
<1>0. current \in [Page -> Nat] /\ texts \in [Page -> SUBSET (Nat \ {0, NoRev})]
  BY DEF TypeInv, DiskInv
<1>1. CASE texts'[p] = texts[p]
  BY <1>1
<1>2. CASE Write(x) /\ x = p
  <2>1. /\ current'[p] = NewRev(p) /\ texts'[p] \subseteq texts[p] \cup {NewRev(p)}
        /\ texts[p] \subseteq texts'[p]
    BY <1>0, <1>2 DEF Write
  <2>2. Settled(p)' = [rev |-> NewRev(p), exists |-> NewRev(p) # NoRev /\ NewRev(p) \in texts'[p]]
    BY <2>1 DEF Settled
  <2>3. Settled(p)' \in TrueOf(p)'
    BY DEF TrueOf
  <2> QED BY <2>1, <2>2, <2>3
<1>3. CASE Write(x) /\ x # p
  BY <1>0, <1>1, <1>3 DEF Write
<1>4. CASE \E q \in Page : Rename(x, q)
  <2>1. PICK q \in Page : Rename(x, q)
    BY <1>4
  <2>2. /\ x # q /\ current' = [current EXCEPT ![x] = NoRev, ![q] = current[x]]
        /\ texts' = [texts EXCEPT ![x] = {}, ![q] = texts[x]]
    BY <2>1, RenameTyped DEF Rename
  <2>3. CASE p = x
    <3>1. texts'[p] = {} /\ current'[p] = NoRev
      BY <1>0, <2>2, <2>3
    <3>2. Settled(p)'.exists = FALSE /\ Data(rev, p)'.exists = FALSE
      BY <3>1 DEF Settled
    <3>3. Settled(p)' \in TrueOf(p)'
      BY DEF TrueOf
    <3> QED BY <3>2, <3>3
  <2>4. CASE p = q /\ rev # NoRev
    <3>1. HeldNumber(q)
      BY <2>4 DEF HeldNumber
    <3> QED BY <2>1, <2>4, <3>1, RenameLeaves
  <2>5. CASE p = q /\ rev = NoRev
    BY <2>5
  <2>6. CASE p # x /\ p # q
    BY <1>0, <1>1, <2>2, <2>6
  <2> QED BY <2>3, <2>4, <2>5, <2>6
<1>5. CASE Take(x) \/ Log(x) \/ PutBack(x) \/ PutBackUnlogged(x)
  BY <1>1, <1>5 DEF Take, Log, PutBack, PutBackUnlogged
<1> QED BY <1>2, <1>3, <1>4, <1>5 DEF Saver

\* What somebody found stays likely for those who see what happens to it.
LEMMA SaverLikely ==
  ASSUME TypeInv, NEW x \in Page, Saver(x), NEW t \in Thread, AtWork(t),
         NEW u \in Thread, Holding(u), th[u].page = th[t].page, ~th'[t].amid,
         Likely(seen[t], Found(th[u]))
  PROVE  Likely(seen'[t], Found(th[u])')
<1> SUFFICES ASSUME NEW p, p = th[t].page, NEW rev, rev = th[u].rev
             PROVE  Likely(seen'[t], Found(th[u])')
  OBVIOUS
<1>0. Leaves /\ Watch
  BY SaverTyped
<1>1. p \in Page /\ seen'[t] = seen[t] \cup TrueOf(p)'
  <2>1. th[t].page \in Page
    BY ThreadTyped
  <2>2. seen'[t] = seen[t] \cup TrueOf(th[t].page)'
    BY <1>0 DEF Watch
  <2>3. th'[t].page = th[t].page
    BY <1>0 DEF Leaves, Marked
  <2> QED BY <2>1, <2>2, <2>3
<1>2. th'[u].pc = th[u].pc /\ th'[u].page = p /\ th'[u].rev = rev /\ th'[u].data = th[u].data
  BY <1>0 DEF Leaves, Marked
<1>3. CASE th[u].pc = "put"
  <2>1. Found(th[u])' = th[u].data /\ Found(th[u]) = th[u].data
    BY <1>2, <1>3 DEF Found
  <2> QED BY <1>1, <2>1 DEF Likely
<1>4. CASE th[u].pc = "exists"
  <2>1. Found(th[u]) = Data(rev, p) /\ Data(rev, p).rev = rev
    BY <1>4 DEF Found, Data
  <2>2. Found(th[u])' = Data(rev, p)' /\ Data(rev, p)'.rev = rev
    BY <1>2, <1>4 DEF Found, Data
  <2>3. \/ Data(rev, p)'.exists = Data(rev, p).exists
        \/ \E s \in TrueOf(p)' : s.exists = Data(rev, p)'.exists
    BY <1>1, <1>4, SaverShows
  <2> QED BY <1>1, <2>1, <2>2, <2>3 DEF Likely
<1> QED BY <1>3, <1>4 DEF Holding
LEMMA SaverRecent ==
  ASSUME TypeInv, RecentInv, NEW x \in Page, Saver(x) PROVE RecentInv'
<1>0. Leaves /\ LogGrows /\ Watch
  BY SaverTyped
<1>1. ASSUME NEW t \in Thread
      PROVE  /\ th'[t].pc = th[t].pc /\ th'[t].page = th[t].page /\ th'[t].items = th[t].items
             /\ th'[t].data = th[t].data
             /\ (th[t].raced => th'[t].raced) /\ (th[t].amid => th'[t].amid)
  BY <1>0 DEF Leaves, Marked
<1>2. ASSUME NEW t \in Thread, AtWork(t), NEW p, p = th[t].page
      PROVE  p \in Page /\ seen'[t] = seen[t] \cup TrueOf(p)'
  <2>1. seen'[t] = seen[t] \cup TrueOf(th[t].page)'
    BY <1>0, <1>2 DEF Watch
  <2> QED BY <1>1, <1>2, <2>1, ThreadTyped
<1>3. SeenInv'
  <2> SUFFICES ASSUME NEW t \in Thread, AtWork(t)', NEW p, p = th'[t].page
               PROVE  TrueOf(p)' \subseteq seen'[t]
    BY DEF SeenInv
  <2>1. AtWork(t) /\ p = th[t].page
    BY <1>1 DEF AtWork
  <2> QED BY <1>2, <2>1
<1>4. ASSUME NEW t \in Thread, AtWork(t), NEW d, Likely(seen[t], d)
      PROVE  Likely(seen'[t], d)
  <2>1. seen[t] \subseteq seen'[t]
    BY <1>2, <1>4
  <2> QED BY <1>4, <2>1 DEF Likely
<1>5. OwnInv'
  <2>1. ASSUME NEW t \in Thread, Holding(t)', ~th'[t].amid
        PROVE  Likely(seen'[t], Found(th[t])')
    <3>1. Holding(t) /\ AtWork(t) /\ ~th[t].amid
      BY <1>1, <2>1 DEF Holding, AtWork
    <3> QED BY <2>1, <3>1, SaverLikely DEF RecentInv, OwnInv
  <2>2. ASSUME NEW t \in Thread, th'[t].pc = "done"
        PROVE  th'[t].raced \/ th'[t].amid \/ Likely(seen'[t], th'[t].data)
    <3>1. AtWork(t) /\ th[t].pc = "done"
      BY <1>1, <2>2 DEF AtWork
    <3> QED BY <1>1, <1>4, <3>1 DEF RecentInv, OwnInv
  <2>3. ASSUME NEW t \in Thread, Likely(seen'[t], Found(th[t])')
        PROVE  Likely(seen[t], Found(th[t]))'
    BY <2>3 DEF Likely
  <2>4. ASSUME NEW t \in Thread, Likely(seen'[t], th'[t].data)
        PROVE  Likely(seen[t], th[t].data)'
    BY <2>4 DEF Likely
  <2> QED BY <2>1, <2>2, <2>3, <2>4 DEF OwnInv
<1>6. ASSUME NEW t \in Thread, Before(t)', ~th'[t].amid
      PROVE  Before(t) /\ ~th[t].amid /\ AtWork(t) /\ th[t].page \in Page
  <2>1. Before(t) /\ ~th[t].amid /\ AtWork(t)
    BY <1>1, <1>6 DEF Before, AtWork
  <2> QED BY <2>1, ThreadTyped
<1>7. CachedInv'
  <2> SUFFICES ASSUME NEW t \in Thread, Before(t)', ~th'[t].amid, NEW p, p = th'[t].page,
                      NEW e \in cache'[p]
               PROVE  \/ e.raced \/ Likely(seen'[t], e.data)
                      \/ th'[t].pc = "news" /\ Pending(p)'
                      \/ th'[t].pc = "forget" /\ p \in th'[t].items
    BY DEF CachedInv, Likely
  <2>1. Before(t) /\ ~th[t].amid /\ AtWork(t) /\ p \in Page /\ p = th[t].page
    BY <1>1, <1>6
  <2>2. PICK d \in cache[p] : e.data = d.data /\ (d.raced => e.raced)
    BY <1>0, <2>1 DEF Leaves
  <2>3. \/ d.raced \/ Likely(seen[t], d.data)
        \/ th[t].pc = "news" /\ Pending(p)
        \/ th[t].pc = "forget" /\ p \in th[t].items
    BY <2>1 DEF RecentInv, CachedInv
  <2> QED BY <1>0, <1>1, <1>4, <2>1, <2>2, <2>3, LinesStay
<1>8. OthersInv'
  <2> SUFFICES ASSUME NEW t \in Thread, NEW u \in Thread, Before(t)', ~th'[t].amid, Holding(u)',
                      NEW p, p = th'[t].page, th'[u].page = p
               PROVE  \/ th'[u].raced \/ Likely(seen'[t], Found(th[u])')
                      \/ th'[t].pc = "news" /\ Unnoticed(p)' # {}
    BY DEF OthersInv, Likely
  <2>1. Before(t) /\ ~th[t].amid /\ AtWork(t) /\ p \in Page /\ p = th[t].page
    BY <1>1, <1>6
  <2>2. Holding(u) /\ th[u].page = p
    BY <1>1 DEF Holding
  <2>3. \/ th[u].raced \/ Likely(seen[t], Found(th[u]))
        \/ th[t].pc = "news" /\ Unnoticed(p) # {}
    BY <2>1, <2>2 DEF RecentInv, OthersInv
  <2>4. Likely(seen[t], Found(th[u])) => Likely(seen'[t], Found(th[u])')
    BY <2>1, <2>2, SaverLikely
  <2> QED BY <1>0, <1>1, <2>1, <2>3, <2>4, LinesStay
<1> QED BY <1>3, <1>5, <1>7, <1>8 DEF RecentInv
\* What thread t finds with its step to r is likely for itself.
FindsWell(t, r) ==
  /\ r.pc # "idle" => r.page \in Page /\ TrueOf(r.page) \subseteq seen'[t]
  /\ r.pc \in {"exists", "put"} => r.amid \/ Likely(seen'[t], Found(r))
  /\ r.pc = "done" => r.raced \/ r.amid \/ Likely(seen'[t], r.data)

\* What the others may take over from it.
GivesWell(t, r) ==
  \A v \in Thread \ {t} :
    Before(v) /\ ~th[v].amid =>
      /\ r.pc \in {"exists", "put"} /\ r.page = th[v].page =>
           \/ r.raced \/ Likely(seen[v], Found(r))
           \/ th[v].pc = "news" /\ Unnoticed(th[v].page) # {}
      /\ \A e \in cache'[th[v].page] :
           \/ e \in cache[th[v].page]
           \/ e.raced \/ Likely(seen[v], e.data)
           \/ th[v].pc = "news" /\ Pending(th[v].page)

\* What it may take over from the cache and from the others.
TakesWell(t, r) ==
  r.pc \in {"news", "forget", "move", "lookup"} /\ ~r.amid =>
    /\ \A e \in cache'[r.page] :
         \/ e.raced \/ Likely(seen'[t], e.data)
         \/ r.pc = "news" /\ Pending(r.page)
         \/ r.pc = "forget" /\ r.page \in r.items
    /\ \A u \in Thread \ {t} :
         Holding(u) /\ th[u].page = r.page =>
           \/ th[u].raced \/ Likely(seen'[t], Found(th[u]))
           \/ r.pc = "news" /\ Unnoticed(r.page) # {}

\* Lines that are still to come do so after the step.
LinesWell ==
  \A p \in Page : /\ Unnoticed(p) # {} => Unnoticed(p)' # {}
                  /\ cache'[p] # {} /\ Pending(p) => Pending(p)'

LEMMA GivesNothing ==
  ASSUME TypeInv, NEW t \in Thread, NEW r, r.pc \notin {"exists", "put"},
         \A p \in Page : cache'[p] \subseteq cache[p]
  PROVE  GivesWell(t, r)
<1>1. \A v \in Thread : Before(v) => th[v].page \in Page
  BY ThreadTyped DEF Before, AtWork
<1> QED BY <1>1 DEF GivesWell

LEMMA OneRecent ==
  ASSUME TypeInv, RecentInv, Rereads, NEW t \in Thread, NEW r, th' = [th EXCEPT ![t] = r],
         \A v \in Thread \ {t} : seen'[v] = seen[v],
         LinesWell, FindsWell(t, r), GivesWell(t, r), TakesWell(t, r)
  PROVE  RecentInv'
<1> USE DEF LinesWell, FindsWell, GivesWell, TakesWell
<1>1. th'[t] = r /\ \A u \in Thread \ {t} : th'[u] = th[u]
  BY DEF TypeInv, ProcessInv
<1>2. \A p \in Page : TrueOf(p)' = TrueOf(p) /\ \A rev : Data(rev, p)' = Data(rev, p)
  BY RereadsKnown
<1>3. ASSUME NEW u \in Thread, Holding(u)' PROVE Found(th[u])' = Found(th'[u])
  <2>1. th'[u].page \in Page
    BY <1>1, <1>3, ThreadTyped DEF Holding, AtWork
  <2>2. \A d, p : p \in Page /\ p = th'[u].page => Data(th[u].rev, th[u].page)' = Data(th'[u].rev, p)
    BY <1>2 DEF Data
  <2> QED BY <2>1, <2>2 DEF Found
<1>4. SeenInv'
  <2> SUFFICES ASSUME NEW v \in Thread, AtWork(v)', NEW p, p = th'[v].page
               PROVE  TrueOf(p)' \subseteq seen'[v]
    BY DEF SeenInv
  <2>1. CASE v = t
    BY <1>1, <1>2, <2>1 DEF AtWork
  <2>2. CASE v # t
    <3>1. AtWork(v) /\ p = th[v].page /\ p \in Page
      BY <1>1, <2>2, ThreadTyped DEF AtWork
    <3> QED BY <1>2, <2>2, <3>1 DEF RecentInv, SeenInv
  <2> QED BY <2>1, <2>2
<1>5. OwnInv'
  <2>1. ASSUME NEW v \in Thread, Holding(v)', ~th'[v].amid
        PROVE  Likely(seen'[v], Found(th'[v]))
    BY <1>1, <2>1 DEF Holding, RecentInv, OwnInv
  <2>2. ASSUME NEW v \in Thread, th'[v].pc = "done"
        PROVE  th'[v].raced \/ th'[v].amid \/ Likely(seen'[v], th'[v].data)
    BY <1>1, <2>2 DEF RecentInv, OwnInv
  <2>3. ASSUME NEW v \in Thread, Likely(seen'[v], Found(th[v])')
        PROVE  Likely(seen[v], Found(th[v]))'
    BY <2>3 DEF Likely
  <2>4. ASSUME NEW v \in Thread, Likely(seen'[v], th'[v].data)
        PROVE  Likely(seen[v], th[v].data)'
    BY <2>4 DEF Likely
  <2> QED BY <1>3, <2>1, <2>2, <2>3, <2>4 DEF OwnInv
<1>6. CachedInv'
  <2> SUFFICES ASSUME NEW v \in Thread, Before(v)', ~th'[v].amid, NEW p, p = th'[v].page,
                      NEW e \in cache'[p]
               PROVE  \/ e.raced \/ Likely(seen'[v], e.data)
                      \/ th'[v].pc = "news" /\ Pending(p)'
                      \/ th'[v].pc = "forget" /\ p \in th'[v].items
    BY DEF CachedInv, Likely
  <2>1. CASE v = t
    <3>1. /\ p = r.page /\ r.pc \in {"news", "forget", "move", "lookup"} /\ ~r.amid
          /\ p \in Page
      BY <1>1, <2>1 DEF Before
    <3> QED BY <1>1, <2>1, <3>1
  <2>2. CASE v # t
    <3>1. Before(v) /\ ~th[v].amid /\ p \in Page /\ p = th[v].page
      BY <1>1, <2>2, ThreadTyped DEF Before, AtWork
    <3>2. \/ e.raced \/ Likely(seen[v], e.data)
          \/ th[v].pc = "news" /\ Pending(p)
          \/ th[v].pc = "forget" /\ p \in th[v].items
      BY <2>2, <3>1 DEF RecentInv, CachedInv
    <3> QED BY <1>1, <2>2, <3>1, <3>2
  <2> QED BY <2>1, <2>2
<1>7. OthersInv'
  <2> SUFFICES ASSUME NEW v \in Thread, NEW u \in Thread, Before(v)', ~th'[v].amid, Holding(u)',
                      NEW p, p = th'[v].page, th'[u].page = p
               PROVE  \/ th'[u].raced \/ Likely(seen'[v], Found(th'[u]))
                      \/ th'[v].pc = "news" /\ Unnoticed(p)' # {}
    BY <1>3 DEF OthersInv, Likely
  <2>1. u # v
    BY DEF Before, Holding
  <2>2. CASE v = t
    <3>1. /\ p = r.page /\ r.pc \in {"news", "forget", "move", "lookup"} /\ ~r.amid
          /\ p \in Page
      BY <1>1, <2>2 DEF Before
    <3>2. Holding(u) /\ th'[u] = th[u] /\ th[u].page = p
      BY <1>1, <2>1, <2>2 DEF Holding
    <3> QED BY <1>1, <2>1, <2>2, <3>1, <3>2
  <2>3. CASE v # t
    <3>1. Before(v) /\ ~th[v].amid /\ p \in Page /\ p = th[v].page
      BY <1>1, <2>3, ThreadTyped DEF Before, AtWork
    <3>2. CASE u = t
      BY <1>1, <2>3, <3>1, <3>2 DEF Holding
    <3>3. CASE u # t
      <4>1. Holding(u) /\ th'[u] = th[u] /\ th[u].page = p
        BY <1>1, <3>3 DEF Holding
      <4> QED BY <1>1, <2>3, <3>1, <4>1 DEF RecentInv, OthersInv
    <3> QED BY <3>2, <3>3
  <2> QED BY <2>2, <2>3
<1> QED BY <1>4, <1>5, <1>6, <1>7 DEF RecentInv
\* A call that is not amid a save finds what the last change made of the page.
LEMMA GetRevRecent ==
  ASSUME TypeInv, FreshInv, RecentInv, NEW t \in Thread, NEW p \in Page, GetRev(t, p)
  PROVE  RecentInv'
<1> DEFINE r == [Idle EXCEPT !.pc = "news", !.page = p, !.oldPos = logPos, !.amid = Coming(p)]
<1>1. /\ th' = [th EXCEPT ![t] = r] /\ Rereads /\ UNCHANGED <<logPos, cache>>
      /\ seen' = [seen EXCEPT ![t] = TrueOf(p)]
  BY DEF GetRev, Rereads
<1>2. /\ r.pc = "news" /\ r.page = p /\ r.oldPos = logPos /\ r.newPos = NoPos
      /\ r.amid = Coming(p)
  BY DEF Idle
<1>3. \A q \in Page : \A n \in LinesAbout(q, logPos) : Ahead(n, r) /\ Heeds(r, n, q)
  BY <1>2 DEF LinesAbout, Ahead, Heeds, TypeInv, DiskInv, NoPos
<1> HIDE DEF r
<1>4. LinesWell
  BY <1>1, <1>3, OneMoves DEF LinesWell
<1>5. seen'[t] = TrueOf(p) /\ \A v \in Thread \ {t} : seen'[v] = seen[v]
  BY <1>1 DEF TypeInv, ProcessInv
<1>6. ~Coming(p) => known[p] = Data(current[p], p) /\ Data(current[p], p).rev = current[p]
  BY DEF FreshInv, KnownInv, Settled, Data
<1>7. Likely(seen'[t], known[p])
  BY <1>5 DEF TrueOf, Likely
<1>8. ASSUME ~Coming(p), NEW u \in Thread \ {t}, Holding(u), th[u].page = p
      PROVE  th[u].raced \/ Likely(seen'[t], Found(th[u])) \/ Unnoticed(p) # {}
  <2>1. \/ th[u].raced \/ Unnoticed(p) # {}
        \/ IF th[u].pc = "exists" THEN th[u].rev = known[p].rev ELSE th[u].data = known[p]
    BY <1>8 DEF FreshInv, HoldInv
  <2>2. th[u].pc = "exists" /\ th[u].rev = known[p].rev => Found(th[u]) = known[p]
    BY <1>6, <1>8 DEF Found
  <2>3. th[u].pc # "exists" => Found(th[u]) = th[u].data
    BY DEF Found
  <2> QED BY <1>7, <2>1, <2>2, <2>3
<1>9. ASSUME ~Coming(p), NEW e \in cache[p]
      PROVE  e.raced \/ Likely(seen'[t], e.data) \/ Pending(p)
  BY <1>7, <1>9 DEF FreshInv, EntryInv
<1>10. FindsWell(t, r) /\ GivesWell(t, r)
  BY <1>1, <1>2, <1>5 DEF FindsWell, GivesWell
<1>11. TakesWell(t, r)
  BY <1>1, <1>2, <1>8, <1>9 DEF TakesWell
<1> QED BY <1>1, <1>4, <1>5, <1>10, <1>11, OneRecent

\* The entry of the page is removed if there was a line about it.
LEMMA ForgetRecent ==
  ASSUME TypeInv, RecentInv, NEW t \in Thread, Forget(t) PROVE RecentInv'
<1> DEFINE r == [th[t] EXCEPT !.pc = "move"]
<1>1. /\ th[t].pc = "forget" /\ th' = [th EXCEPT ![t] = r] /\ Rereads
      /\ UNCHANGED <<logPos, seen>>
      /\ cache' = [p \in Page |-> IF p \in Removed(th[t].items) THEN {} ELSE cache[p]]
  BY DEF Forget, After, Rereads
<1>2. /\ r.pc = "move" /\ r.oldPos = th[t].oldPos /\ r.newPos = th[t].newPos
      /\ r.page = th[t].page /\ r.amid = th[t].amid /\ th[t].page \in Page
  BY <1>1, ThreadTyped DEF Reading, AtWork
<1> HIDE DEF r
<1>3. \A p \in Page : cache'[p] = {} \/ (p \notin th[t].items /\ cache'[p] = cache[p])
  BY <1>1 DEF Removed
<1>4. LinesWell
  <2> SUFFICES ASSUME NEW p \in Page
               PROVE  /\ Unnoticed(p) # {} => Unnoticed(p)' # {}
                      /\ cache'[p] # {} /\ Pending(p) => Pending(p)'
    BY DEF LinesWell
  <2>1. \A n : Ahead(n, th[t]) => Ahead(n, r)
    BY <1>2 DEF Ahead
  <2>2. p \notin th[t].items => \A n : Heeds(th[t], n, p) => Heeds(r, n, p)
    BY <1>1, <1>2 DEF Heeds
  <2> QED BY <1>1, <1>3, <2>1, <2>2, OneMoves
<1>5. Before(t) /\ AtWork(t)
  BY <1>1 DEF Before, AtWork
<1>6. TrueOf(th[t].page) \subseteq seen[t]
  BY <1>5 DEF RecentInv, SeenInv
<1>7. ~th[t].amid => \A e \in cache'[th[t].page] : e.raced \/ Likely(seen[t], e.data)
  BY <1>1, <1>2, <1>3, <1>5 DEF RecentInv, CachedInv
<1>8. ~th[t].amid => \A u \in Thread : Holding(u) /\ th[u].page = th[t].page =>
                       th[u].raced \/ Likely(seen[t], Found(th[u]))
  BY <1>1, <1>5 DEF RecentInv, OthersInv
<1>9. FindsWell(t, r) /\ GivesWell(t, r)
  BY <1>1, <1>2, <1>3, <1>6, GivesNothing DEF FindsWell
<1>10. TakesWell(t, r)
  BY <1>1, <1>2, <1>7, <1>8 DEF TakesWell
<1> QED BY <1>1, <1>4, <1>9, <1>10, OneRecent

LEMMA LookupRecent ==
  ASSUME TypeInv, RecentInv, NEW t \in Thread, Lookup(t) PROVE RecentInv'
<1>1. Rereads /\ UNCHANGED <<logPos, cache, seen>> /\ th[t].pc = "lookup"
  BY DEF Lookup, Rereads
<1>2. PICK r : /\ th' = [th EXCEPT ![t] = r] /\ r.oldPos = NoPos /\ r.newPos = NoPos
               /\ r.page = th[t].page /\ r.amid = th[t].amid
               /\ \/ r.pc = "current"
                  \/ /\ r.pc = "done"
                     /\ \E e \in cache[th[t].page] : r.data = e.data /\ (e.raced => r.raced)
  <2> DEFINE looking == [th[t] EXCEPT !.oldPos = NoPos, !.newPos = NoPos, !.items = {}]
  <2>1. PICK r : /\ th' = [th EXCEPT ![t] = r]
                 /\ \/ r = [looking EXCEPT !.pc = "current"]
                    \/ \E e \in cache[th[t].page] :
                         r = [looking EXCEPT !.pc = "done", !.data = e.data, !.raced = e.raced]
    BY DEF Lookup
  <2>2. th[t] \in Reading
    BY ThreadTyped
  <2>3. CASE r = [looking EXCEPT !.pc = "current"]
    <3>1. /\ r.pc = "current" /\ r.page = th[t].page /\ r.amid = th[t].amid
          /\ r.oldPos = NoPos /\ r.newPos = NoPos
      BY <2>2, <2>3 DEF Reading
    <3> QED BY <2>1, <3>1
  <2>4. CASE \E e \in cache[th[t].page] :
               r = [looking EXCEPT !.pc = "done", !.data = e.data, !.raced = e.raced]
    <3>1. PICK e \in cache[th[t].page] :
            r = [looking EXCEPT !.pc = "done", !.data = e.data, !.raced = e.raced]
      BY <2>4
    <3>2. /\ r.pc = "done" /\ r.data = e.data /\ r.raced = e.raced /\ r.page = th[t].page
          /\ r.amid = th[t].amid /\ r.oldPos = NoPos /\ r.newPos = NoPos
      BY <2>2, <3>1 DEF Reading
    <3> QED BY <2>1, <3>2
  <2> QED BY <2>1, <2>3, <2>4
<1>3. \A p \in Page : \A n \in LinesAbout(p, logPos) : Ahead(n, r) /\ Heeds(r, n, p)
  BY <1>2 DEF LinesAbout, Ahead, Heeds, TypeInv, DiskInv, NoPos
<1>4. LinesWell
  BY <1>1, <1>2, <1>3, OneMoves DEF LinesWell
<1>5. Before(t) /\ AtWork(t) /\ th[t].page \in Page
  BY <1>1, ThreadTyped DEF Before, AtWork
<1>6. TrueOf(th[t].page) \subseteq seen[t]
  BY <1>5 DEF RecentInv, SeenInv
<1>7. r.pc = "done" => r.raced \/ r.amid \/ Likely(seen[t], r.data)
  BY <1>1, <1>2, <1>5 DEF RecentInv, CachedInv
<1>8. FindsWell(t, r) /\ GivesWell(t, r) /\ TakesWell(t, r)
  BY <1>1, <1>2, <1>5, <1>6, <1>7 DEF FindsWell, GivesWell, TakesWell
<1> QED BY <1>1, <1>2, <1>4, <1>8, OneRecent
\* `current` is what is true of the page, for the thread and for all who look on.
LEMMA ReadCurrentRecent ==
  ASSUME TypeInv, RecentInv, NEW t \in Thread, ReadCurrent(t) PROVE RecentInv'
<1>1. th[t].pc = "current" /\ Rereads /\ UNCHANGED <<logPos, cache, seen>>
  BY DEF ReadCurrent, Rereads
<1>2. th[t].page \in Page /\ AtWork(t)
  BY <1>1, ThreadTyped DEF AtWork
<1>3. PICK r : /\ th' = [th EXCEPT ![t] = r] /\ r.pc = "exists" /\ r.page = th[t].page
               /\ r.oldPos = th[t].oldPos /\ r.newPos = th[t].newPos
               /\ r.rev = RevOf(th[t].page)
  <2> DEFINE b == AwayAndNoticed(th[t].page)
             r == [th[t] EXCEPT !.pc = "exists", !.rev = RevOf(th[t].page), !.raced = @ \/ b]
  <2>1. th' = [th EXCEPT ![t].pc = "exists", ![t].rev = RevOf(th[t].page),
                         ![t].raced = @ \/ b]
    BY DEF ReadCurrent
  <2>2. th \in [Thread -> Reading] /\ th[t] \in Reading
    BY DEF TypeInv, ProcessInv
  <2> HIDE DEF b
  <2>3. th' = [th EXCEPT ![t] = r]
    BY <2>1, <2>2 DEF Reading
  <2>4. /\ r.pc = "exists" /\ r.page = th[t].page /\ r.rev = RevOf(th[t].page)
        /\ r.oldPos = th[t].oldPos /\ r.newPos = th[t].newPos
    BY <2>2 DEF Reading
  <2> QED BY <2>3, <2>4
<1>4. LinesWell
  <2>1. \A n : Ahead(n, th[t]) => Ahead(n, r)
    BY <1>3 DEF Ahead
  <2>2. \A n, q : Heeds(r, n, q)
    BY <1>3 DEF Heeds
  <2> QED BY <1>1, <1>3, <2>1, <2>2, OneMoves DEF LinesWell
<1>5. Found(r) = OnDisk(r.page) /\ Found(r) \in TrueOf(r.page)
  BY <1>3 DEF Found, OnDisk, TrueOf
<1>6. ASSUME NEW v \in Thread, AtWork(v), th[v].page = r.page
      PROVE  Likely(seen[v], Found(r)) /\ TrueOf(r.page) \subseteq seen[v]
  BY <1>5, <1>6 DEF RecentInv, SeenInv, Likely
<1>7. FindsWell(t, r) /\ TakesWell(t, r)
  BY <1>1, <1>2, <1>3, <1>6 DEF FindsWell, TakesWell
<1>8. GivesWell(t, r)
  BY <1>1, <1>3, <1>6 DEF GivesWell, Before, AtWork
<1> QED BY <1>1, <1>3, <1>4, <1>7, <1>8, OneRecent

LEMMA ReadExistsRecent ==
  ASSUME TypeInv, RecentInv, NEW t \in Thread, ReadExists(t) PROVE RecentInv'
<1>1. th[t].pc = "exists" /\ Rereads /\ UNCHANGED <<logPos, cache, seen>>
  BY DEF ReadExists, Rereads
<1>2. th[t].page \in Page /\ AtWork(t) /\ Holding(t)
  BY <1>1, ThreadTyped DEF AtWork, Holding
<1>3. PICK r : /\ th' = [th EXCEPT ![t] = r] /\ r.pc = "put" /\ r.page = th[t].page
               /\ r.oldPos = th[t].oldPos /\ r.newPos = th[t].newPos
               /\ r.data = Data(th[t].rev, th[t].page)
               /\ r.raced = th[t].raced /\ r.amid = th[t].amid
  <2> DEFINE d == Data(th[t].rev, th[t].page)
             r == [th[t] EXCEPT !.pc = "put", !.rev = NoRev, !.data = d]
  <2>1. th' = [th EXCEPT ![t].pc = "put", ![t].rev = NoRev, ![t].data = d]
    BY DEF ReadExists
  <2>2. th \in [Thread -> Reading] /\ th[t] \in Reading
    BY DEF TypeInv, ProcessInv
  <2> HIDE DEF d
  <2>3. th' = [th EXCEPT ![t] = r]
    BY <2>1, <2>2 DEF Reading
  <2>4. /\ r.pc = "put" /\ r.page = th[t].page /\ r.data = d
        /\ r.oldPos = th[t].oldPos /\ r.newPos = th[t].newPos
        /\ r.raced = th[t].raced /\ r.amid = th[t].amid
    BY <2>2 DEF Reading
  <2> QED BY <2>3, <2>4 DEF d
<1>4. LinesWell
  <2>1. \A n : Ahead(n, th[t]) => Ahead(n, r)
    BY <1>3 DEF Ahead
  <2>2. \A n, q : Heeds(r, n, q)
    BY <1>3 DEF Heeds
  <2> QED BY <1>1, <1>3, <2>1, <2>2, OneMoves DEF LinesWell
<1>5. Found(r) = Found(th[t])
  BY <1>1, <1>3 DEF Found
<1>6. TrueOf(r.page) \subseteq seen[t] /\ (r.amid \/ Likely(seen[t], Found(r)))
  BY <1>2, <1>3, <1>5 DEF RecentInv, SeenInv, OwnInv
<1>7. FindsWell(t, r) /\ TakesWell(t, r)
  BY <1>1, <1>2, <1>3, <1>6 DEF FindsWell, TakesWell
<1>8. GivesWell(t, r)
  BY <1>1, <1>2, <1>3, <1>5 DEF GivesWell, RecentInv, OthersInv
<1> QED BY <1>1, <1>3, <1>4, <1>7, <1>8, OneRecent

LEMMA PutItemRecent ==
  ASSUME TypeInv, RecentInv, NEW t \in Thread, PutItem(t) PROVE RecentInv'
<1> DEFINE r == [th[t] EXCEPT !.pc = "done"]
           entry == [data |-> th[t].data, raced |-> th[t].raced]
<1>1. /\ th[t].pc = "put" /\ th' = [th EXCEPT ![t] = r] /\ Rereads /\ UNCHANGED <<logPos, seen>>
      /\ cache' = [cache EXCEPT ![th[t].page] = {entry}]
  BY DEF PutItem, Rereads
<1>2. th[t].page \in Page /\ AtWork(t) /\ Holding(t)
  BY <1>1, ThreadTyped DEF AtWork, Holding
<1>3. /\ r.pc = "done" /\ r.page = th[t].page /\ r.data = th[t].data
      /\ r.oldPos = th[t].oldPos /\ r.newPos = th[t].newPos
      /\ r.raced = th[t].raced /\ r.amid = th[t].amid
  BY ThreadTyped DEF Reading
<1>4. \A q \in Page : \A e \in cache'[q] : e \in cache[q] \/ (q = th[t].page /\ e = entry)
  BY <1>1 DEF TypeInv, ProcessInv
<1>5. entry.data = Found(th[t]) /\ entry.raced = th[t].raced /\ r.data = Found(th[t])
  BY <1>1, <1>3 DEF Found
<1> HIDE DEF r, entry
<1>6. LinesWell
  <2>1. \A n : Ahead(n, th[t]) => Ahead(n, r)
    BY <1>3 DEF Ahead
  <2>2. \A n, q : Heeds(r, n, q)
    BY <1>3 DEF Heeds
  <2> QED BY <1>1, <2>1, <2>2, OneMoves DEF LinesWell
<1>7. TrueOf(r.page) \subseteq seen[t] /\ (r.amid \/ Likely(seen[t], r.data))
  BY <1>2, <1>3, <1>5 DEF RecentInv, SeenInv, OwnInv
<1>8. FindsWell(t, r) /\ TakesWell(t, r)
  BY <1>1, <1>2, <1>3, <1>7 DEF FindsWell, TakesWell
<1>9. ASSUME NEW v \in Thread \ {t}, Before(v), ~th[v].amid, NEW e \in cache'[th[v].page]
      PROVE  \/ e \in cache[th[v].page]
             \/ e.raced \/ Likely(seen[v], e.data)
             \/ th[v].pc = "news" /\ Pending(th[v].page)
  <2>1. th[v].page \in Page
    BY <1>9, ThreadTyped DEF Before, AtWork
  <2>2. CASE th[v].page = th[t].page /\ e = entry
    <3>1. \/ th[t].raced \/ Likely(seen[v], Found(th[t]))
          \/ th[v].pc = "news" /\ Unnoticed(th[v].page) # {}
      BY <1>2, <1>9, <2>2 DEF RecentInv, OthersInv
    <3> QED BY <1>5, <2>1, <2>2, <3>1, UnnoticedPends
  <2> QED BY <1>4, <2>1, <2>2
<1>10. GivesWell(t, r)
  BY <1>3, <1>9 DEF GivesWell
<1> QED BY <1>1, <1>6, <1>8, <1>10, OneRecent

LEMMA ReturnRecent ==
  ASSUME TypeInv, RecentInv, NEW t \in Thread, Return(t) PROVE RecentInv'
<1>1. /\ th' = [th EXCEPT ![t] = Idle] /\ Rereads /\ UNCHANGED <<logPos, cache>>
      /\ seen' = [seen EXCEPT ![t] = {}]
  BY DEF Return, Rereads
<1>2. Idle.pc = "idle" /\ Idle.oldPos = NoPos /\ Idle.newPos = NoPos
  BY DEF Idle
<1>3. \A p \in Page : \A n \in LinesAbout(p, logPos) : Ahead(n, Idle) /\ Heeds(Idle, n, p)
  BY <1>2, ThreadTyped DEF LinesAbout, Ahead, Heeds, TypeInv, DiskInv, ProcessInv, Position, NoPos
<1>4. LinesWell
  BY <1>1, <1>3, OneMoves DEF LinesWell
<1>5. FindsWell(t, Idle) /\ TakesWell(t, Idle) /\ GivesWell(t, Idle)
  BY <1>1, <1>2, GivesNothing DEF FindsWell, TakesWell
<1>6. \A v \in Thread \ {t} : seen'[v] = seen[v]
  BY <1>1 DEF TypeInv, ProcessInv
<1> QED BY <1>1, <1>4, <1>5, <1>6, OneRecent
LEMMA MoveRecent ==
  ASSUME TypeInv, RecentInv, NEW t \in Thread, Move(t) PROVE RecentInv'
<1> DEFINE r == [th[t] EXCEPT !.pc = "lookup"]
<1>1. th[t].pc = "move" /\ th' = [th EXCEPT ![t] = r] /\ Rereads /\ UNCHANGED <<cache, seen>>
  BY DEF Move, After, Rereads
<1>2. r.pc = "lookup" /\ r.page = th[t].page /\ r.amid = th[t].amid
  BY ThreadTyped DEF Reading
<1> HIDE DEF r
<1>3. LinesWell
  BY MoveLines DEF LinesWell
<1>4. Before(t) /\ AtWork(t) /\ th[t].page \in Page
  BY <1>1, ThreadTyped DEF Before, AtWork
<1>5. TrueOf(th[t].page) \subseteq seen[t]
  BY <1>4 DEF RecentInv, SeenInv
<1>6. FindsWell(t, r) /\ GivesWell(t, r)
  BY <1>1, <1>2, <1>4, <1>5, GivesNothing DEF FindsWell
<1>7. TakesWell(t, r)
  BY <1>1, <1>2, <1>4 DEF TakesWell, RecentInv, CachedInv, OthersInv
<1> QED BY <1>1, <1>3, <1>6, <1>7, OneRecent

\* An entry with a line to come is going to be removed or is marked, and so is
\* whoever looked at the disk before such a line.
LEMMA NewsRecent ==
  ASSUME TypeInv, RecentInv, NEW t \in Thread, News(t) PROVE RecentInv'
<1>1. /\ Rereads /\ UNCHANGED <<log, logPos, seen>> /\ th[t].pc = "news" /\ th'[t].pc = "forget"
      /\ th'[t].items = ItemsAfter(th[t].oldPos)
  BY NewsMoves, RereadsKnown
<1>2. \A p \in Page : TrueOf(p)' = TrueOf(p) /\ \A rev : Data(rev, p)' = Data(rev, p)
  BY <1>1, RereadsKnown
<1>3. ASSUME NEW u \in Thread \ {t}
      PROVE  /\ th'[u].pc = th[u].pc /\ th'[u].page = th[u].page /\ th'[u].items = th[u].items
             /\ th'[u].data = th[u].data /\ th'[u].rev = th[u].rev
             /\ th'[u].oldPos = th[u].oldPos /\ th'[u].newPos = th[u].newPos
             /\ (th[u].raced => th'[u].raced) /\ (th[u].amid => th'[u].amid)
             /\ (Holding(u) /\ Unnoticed(th[u].page) # {} => th'[u].raced)
  BY NewsMoves DEF Marked
<1>4. th'[t].page = th[t].page /\ th'[t].amid = th[t].amid
  BY NewsMoves
<1>5. ASSUME NEW u \in Thread
      PROVE  th'[u].page = th[u].page /\ (th[u].amid => th'[u].amid)
             /\ (AtWork(u)' => AtWork(u)) /\ (Before(u)' => Before(u) /\ AtWork(u))
             /\ (Holding(u)' => Holding(u) /\ u # t /\ AtWork(u))
  BY <1>1, <1>3, <1>4 DEF AtWork, Before, Holding
<1>6. ASSUME NEW u \in Thread, Holding(u)' PROVE Found(th[u])' = Found(th[u])
  <2>1. u # t /\ th[u].page \in Page
    BY <1>5, <1>6, ThreadTyped
  <2>2. th'[u].pc = th[u].pc /\ th'[u].page = th[u].page /\ th'[u].rev = th[u].rev
        /\ th'[u].data = th[u].data
    BY <1>3, <2>1
  <2>3. \A p \in Page : \A rev : Data(rev, p)' = Data(rev, p)
    BY <1>2
  <2>4. texts' = texts
    BY <1>1 DEF Rereads, disk
  <2> QED BY <2>2, <2>4 DEF Found, Data
<1>7. SeenInv'
  <2> SUFFICES ASSUME NEW v \in Thread, AtWork(v)', NEW p, p = th'[v].page
               PROVE  TrueOf(p)' \subseteq seen'[v]
    BY DEF SeenInv
  <2>1. AtWork(v) /\ p = th[v].page /\ p \in Page
    BY <1>5, ThreadTyped
  <2> QED BY <1>1, <1>2, <2>1 DEF RecentInv, SeenInv
<1>8. OwnInv'
  <2>1. ASSUME NEW v \in Thread, Holding(v)', ~th'[v].amid
        PROVE  Likely(seen'[v], Found(th[v]))
    BY <1>1, <1>5, <2>1 DEF RecentInv, OwnInv
  <2>2. ASSUME NEW v \in Thread, th'[v].pc = "done"
        PROVE  th'[v].raced \/ th'[v].amid \/ Likely(seen'[v], th'[v].data)
    BY <1>1, <1>3, <2>2 DEF RecentInv, OwnInv
  <2>3. ASSUME NEW v \in Thread, Likely(seen'[v], Found(th[v])')
        PROVE  Likely(seen[v], Found(th[v]))'
    BY <2>3 DEF Likely
  <2>4. ASSUME NEW v \in Thread, Likely(seen'[v], th'[v].data)
        PROVE  Likely(seen[v], th[v].data)'
    BY <2>4 DEF Likely
  <2> QED BY <1>6, <2>1, <2>2, <2>3, <2>4 DEF OwnInv
<1>9. CachedInv'
  <2> SUFFICES ASSUME NEW v \in Thread, Before(v)', ~th'[v].amid, NEW p, p = th'[v].page,
                      NEW e \in cache'[p]
               PROVE  \/ e.raced \/ Likely(seen'[v], e.data)
                      \/ th'[v].pc = "news" /\ Pending(p)'
                      \/ th'[v].pc = "forget" /\ p \in th'[v].items
    BY DEF CachedInv, Likely
  <2>1. Before(v) /\ ~th[v].amid /\ p \in Page /\ p = th[v].page
    BY <1>5, ThreadTyped
  <2>2. PICK d \in cache[p] : e.data = d.data /\ (d.raced => e.raced)
    BY <2>1, NewsMoves
  <2>3. \/ d.raced \/ Likely(seen[v], d.data)
        \/ th[v].pc = "news" /\ Pending(p)
        \/ th[v].pc = "forget" /\ p \in th[v].items
    BY <2>1 DEF RecentInv, CachedInv
  <2>4. Pending(p) => e.raced \/ (p \in th'[t].items /\ Pending(p)')
    BY <2>1, NewsRemoves
  <2> QED BY <1>1, <1>3, <2>2, <2>3, <2>4
<1>10. OthersInv'
  <2> SUFFICES ASSUME NEW v \in Thread, NEW u \in Thread, Before(v)', ~th'[v].amid, Holding(u)',
                      NEW p, p = th'[v].page, th'[u].page = p
               PROVE  \/ th'[u].raced \/ Likely(seen'[v], Found(th[u]))
    BY <1>6 DEF OthersInv, Likely
  <2>1. Before(v) /\ ~th[v].amid /\ Holding(u) /\ u # t /\ th[v].page = p /\ th[u].page = p
    BY <1>5
  <2>2. \/ th[u].raced \/ Likely(seen[v], Found(th[u]))
        \/ Unnoticed(p) # {}
    BY <2>1 DEF RecentInv, OthersInv
  <2> QED BY <1>1, <1>3, <2>1, <2>2
<1> QED BY <1>7, <1>8, <1>9, <1>10 DEF RecentInv

LEMMA ReaderRecent ==
  ASSUME TypeInv, FreshInv, RecentInv, NEW t \in Thread, Reader(t) PROVE RecentInv'
BY GetRevRecent, NewsRecent, ForgetRecent, MoveRecent, LookupRecent, ReadCurrentRecent,
   ReadExistsRecent, PutItemRecent, ReturnRecent DEF Reader

LEMMA InitRecent == Init => RecentInv
<1> SUFFICES ASSUME Init PROVE RecentInv
  OBVIOUS
<1>1. \A t \in Thread : th[t].pc = "idle"
  BY DEF Init, Idle
<1> QED BY <1>1 DEF RecentInv, SeenInv, OwnInv, CachedInv, OthersInv, AtWork, Holding, Before

LEMMA UnchangedRecent ==
  ASSUME RecentInv, UNCHANGED vars PROVE RecentInv'
<1>1. UNCHANGED <<current, texts, stage, log, logPos, cache, th, known, seen>>
  BY DEF vars, disk, process
<1>2. /\ UNCHANGED <<cache, th, seen>>
      /\ \A p : /\ TrueOf(p)' = TrueOf(p) /\ Pending(p)' = Pending(p)
                /\ Unnoticed(p)' = Unnoticed(p)
  BY <1>1 DEF TrueOf, OnDisk, RevOf, InPlace, Settled, Data, Pending, Unnoticed, LinesAbout, Heeds
<1>3. \A u : /\ Holding(u)' = Holding(u) /\ Before(u)' = Before(u) /\ AtWork(u)' = AtWork(u)
             /\ Found(th[u])' = Found(th[u])
  BY <1>1 DEF Holding, Before, AtWork, Found, Data
<1>4. SeenInv'
  BY <1>2, <1>3 DEF RecentInv, SeenInv
<1>5. OwnInv'
  BY <1>2, <1>3 DEF RecentInv, OwnInv, Likely
<1>6. CachedInv'
  BY <1>2, <1>3 DEF RecentInv, CachedInv, Likely
<1>7. OthersInv'
  BY <1>2, <1>3 DEF RecentInv, OthersInv, Likely
<1> QED BY <1>4, <1>5, <1>6, <1>7 DEF RecentInv

\* What a call not amid a save has read, what it may find in the cache and what other
\* threads will put there before it looks was the page's state at some moment of the
\* call, if it did not race a save (the inductive invariant behind ReturnsRecent).
THEOREM RecentInvariant == Spec => [](TypeInv /\ FreshInv /\ RecentInv)
<1>1. TypeInv /\ FreshInv /\ RecentInv /\ [Next]_vars => RecentInv'
  BY SaverRecent, ReaderRecent, UnchangedRecent DEF Next
<1> QED BY <1>1, InitRecent, FreshInvariant, PTL DEF Spec

\* Unless it raced with a save or another thread's refresh, was called while a save
\* of its page was under way, or holds a number of a page that was renamed away while
\* another takes its name, each of the two things a call of Page.get_rev returns, the
\* number and whether the revision exists, was true of the page since the call.
THEOREM ReturnsAreRecent == Spec => []ReturnsRecent
<1>1. RecentInv => ReturnsRecent
  BY DEF RecentInv, OwnInv, Likely, ReturnsRecent
<1> QED BY <1>1, RecentInvariant, PTL
=============================================================================
