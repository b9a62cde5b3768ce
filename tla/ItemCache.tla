----------------------------- MODULE ItemCache -----------------------------
(***************************************************************************)
(* The cache request.cfg.cache.meta of MoinMoin/Page.py, as Page.get_rev   *)
(* uses it: the threads of one server process remember in it the current   *)
(* revision of each page and whether it exists, and drop what they         *)
(* remember of a page when the global edit-log has a new line about it.    *)
(*                                                                         *)
(* Pages are saved by any process; the steps of a save are those a reader  *)
(* can tell apart (PageStore has all of them).  Processes share nothing    *)
(* but the disk, so the others appear here as the savers only.             *)
(***************************************************************************)
EXTENDS Integers, Sequences, FiniteSets

CONSTANTS
  Page,      \* names of pages
  Thread,    \* request threads of the process
  Existing,  \* the pages there are in the beginning
  Bounds     \* bounds to choose from: how many saves and renames are started,
             \* of what kinds, and how often get_rev is called

NoRev  == 99999999   \* get_current_from_pagedir: no `current` file
NoPage == "no page"
NoPos  == -1         \* log_pos = None

\* A plain save, one that deletes the page, one of a page that was deprecated,
\* and one of an import script, which makes no new revision.
AllKinds == {"save", "delete", "deprecated", "import"}

\* A save of any kind may fail, if this is among its kinds.
Failure == "failure"

\* No page is saved so often that its number becomes the one that means "none".
ASSUME ConstantsAssumption ==
  /\ Existing \subseteq Page /\ NoPage \notin Page
  /\ Bounds \subseteq
       [saves : 0..NoRev - 2, kinds : SUBSET (AllKinds \cup {Failure}), calls : Nat]

VARIABLES
  current,   \* per page, the number in `current`, NoRev without a directory
  texts,     \* per page, the revisions that have a file
  stage,     \* per page, how far a save of it has got
  kind,      \* per page, the kind of that save
  from,      \* per page, the old name while it is being renamed
  log,       \* the global edit-log: per line, the pages it is about
  saves,     \* how many saves and renames may still be started
  kinds,     \* what kinds of saves there are
  logPos,    \* ItemCache.log_pos
  calls,     \* how often get_rev may still be called
  cache,     \* ItemCache.cache: per page, what is remembered, if anything
  th,        \* per thread, where its get_rev is, and its variables
  known,     \* observed: per page, what its last finished change made of it
  seen       \* observed: per thread, what was true of its page since it began

disk    == <<current, texts, stage, kind, from, log, saves, kinds>>
process == <<logPos, calls, cache, th>>
vars    == <<disk, process, known, seen>>

Stages == {"idle", "renamed", "taken", "written", "logged"}

\* `current` is in its place.
InPlace(p) == stage[p] \in {"idle", "renamed"}

\* What a read from the disk at one moment returns.
RevOf(p) == IF InPlace(p) THEN current[p] ELSE NoRev
Data(rev, p) == [rev |-> rev, exists |-> rev # NoRev /\ rev \in texts[p]]
OnDisk(p) == Data(RevOf(p), p)

\* What is so when `current` is back.
Settled(p) == Data(current[p], p)

\* What a rename has made of the old name, which a new page may use already.
Gone(p) == IF stage[p] \in {"taken", "written"} THEN Data(NoRev, p) ELSE Settled(p)

Idle == [pc |-> "idle", page |-> NoPage, oldPos |-> NoPos, newPos |-> NoPos,
         items |-> {}, rev |-> NoRev, data |-> <<>>,
         raced |-> FALSE, amid |-> FALSE]

Init ==
  /\ current = [p \in Page |-> IF p \in Existing THEN 1 ELSE NoRev]
  /\ texts = [p \in Page |-> IF p \in Existing THEN {1} ELSE {}]
  /\ stage = [p \in Page |-> "idle"]
  /\ kind = [p \in Page |-> "save"]
  /\ from = [p \in Page |-> NoPage]
  /\ log = <<>>
  /\ logPos = NoPos
  /\ \E b \in Bounds : saves = b.saves /\ kinds = b.kinds /\ calls = b.calls
  /\ cache = [p \in Page |-> {}]
  /\ th = [t \in Thread |-> Idle]
  /\ known = [p \in Page |-> OnDisk(p)]
  /\ seen = [t \in Thread |-> {}]

------------------------------------------------------------------------------
(***************************************************************************)
(* Observations: what a request may have seen of its page, and which       *)
(* entries no line of the edit-log will ever remove.                       *)
(***************************************************************************)
AtWork(t) == th[t].pc # "idle"

\* What holds of p, or is about to.
TrueOf(p) == {OnDisk(p), known[p], Settled(p)}

\* The steps of savers let every request see what they do.
Watch ==
  seen' = [t \in Thread |->
             IF AtWork(t) THEN seen[t] \cup TrueOf(th[t].page)' ELSE {}]

Entries(p, flag) == {[data |-> e.data, raced |-> e.raced \/ flag] : e \in cache[p]}

\* Threads that have looked at the disk but not yet put what they found there.
Holding(t) == th[t].pc \in {"exists", "put"}

\* A change of the pages ps that is not in the log.
Unlogged(ps) ==
  /\ cache' = [p \in Page |-> Entries(p, p \in ps)]
  /\ th' = [t \in Thread |->
              [th[t] EXCEPT !.raced = @ \/ (Holding(t) /\ th[t].page \in ps)]]
  /\ UNCHANGED <<logPos, calls>>

LinesAbout(p, after) == {n \in DOMAIN log : n > after /\ p \in log[n]}

\* The lines about p that no thread at work has read, nor began behind.
Unnoticed(p) ==
  {n \in LinesAbout(p, logPos) : \A t \in Thread : n > th[t].oldPos /\ n > th[t].newPos}

\* Somebody holds a number that was read under the name p, in a directory that
\* has been renamed since.
HeldNumber(p) ==
  \E t \in Thread : th[t].pc = "exists" /\ th[t].page = p /\ th[t].rev # NoRev

------------------------------------------------------------------------------
(* The savers: PageEditor._write_file, renamePage *)

Take(p) ==
  /\ \/ stage[p] = "idle" /\ saves > 0 /\ saves' = saves - 1
     \/ stage[p] = "renamed" /\ UNCHANGED saves
  /\ stage' = [stage EXCEPT ![p] = "taken"]
  /\ \E k \in IF stage[p] = "renamed" THEN {"save"} ELSE kinds \ {Failure} :
       /\ k = "delete" => texts[p] # {}
       /\ k = "deprecated" => current[p] \in texts[p]
       /\ kind' = [kind EXCEPT ![p] = k]
  /\ current' = [current EXCEPT ![p] = IF @ = NoRev THEN 0 ELSE @]
  /\ UNCHANGED <<texts, from, log, kinds, process, known>>
  /\ Watch

\* Mutant of NewRev: an import makes no revision of a new page either.
NewRevKept(p) ==
  IF kind[p] \in {"deprecated", "import"} THEN current[p] ELSE current[p] + 1

\* The number and the text are written while `current` is away.
NewRev(p) ==
  IF kind[p] = "deprecated" \/ (kind[p] = "import" /\ current[p] # 0)
  THEN current[p]
  ELSE current[p] + 1

Write(p) ==
  /\ stage[p] = "taken"
  /\ stage' = [stage EXCEPT ![p] = "written"]
  /\ current' = [current EXCEPT ![p] = NewRev(p)]
  /\ texts' = [texts EXCEPT ![p] =
                 IF kind[p] = "delete" THEN @ ELSE @ \cup {NewRev(p)}]
  /\ UNCHANGED <<kind, from, log, saves, kinds, process, known>>
  /\ Watch

\* The pages the line of p's save is about.
About(p) == IF from[p] = NoPage THEN {p} ELSE {p, from[p]}

Log(p) ==
  /\ stage[p] = "written" /\ kind[p] # "import"
  /\ stage' = [stage EXCEPT ![p] = "logged"]
  /\ log' = Append(log, About(p))
  /\ from' = [from EXCEPT ![p] = NoPage]
  /\ known' = [q \in Page |-> IF q = p THEN Settled(q)
                            ELSE IF q = from[p] THEN Gone(q) ELSE known[q]]
  /\ UNCHANGED <<current, texts, kind, saves, kinds, process>>
  /\ Watch

PutBack(p) ==
  /\ stage[p] = "logged"
  /\ stage' = [stage EXCEPT ![p] = "idle"]
  /\ kind' = [kind EXCEPT ![p] = "save"]
  /\ UNCHANGED <<current, texts, from, log, saves, kinds, process, known>>
  /\ Watch

\* The same without a line: a save by an import script, or one that failed.
PutBackUnlogged(p) ==
  /\ \/ stage[p] = "written" /\ kind[p] = "import"
     \/ stage[p] \in {"taken", "written"} /\ Failure \in kinds
  /\ stage' = [stage EXCEPT ![p] = "idle"]
  /\ kind' = [kind EXCEPT ![p] = "save"]
  /\ from' = [from EXCEPT ![p] = NoPage]
  /\ \E rev \in {current[p]} \cup IF stage[p] = "taken" THEN {NewRev(p)} ELSE {} :
       current' = [current EXCEPT ![p] = rev]
  /\ UNCHANGED <<texts, log, saves, kinds>>
  /\ known' = [q \in Page |-> IF q = p THEN Settled(q)'
                            ELSE IF q = from[p] THEN Gone(q) ELSE known[q]]
  /\ Unlogged(About(p))
  /\ Watch

\* renamePage moves the directory, then saves under the new name.  If q was a
\* page before, a thread may look for a number of the old one among the revisions
\* of the new one; then this counts as a call amid a save.
Rename(p, q) ==
  /\ saves > 0 /\ saves' = saves - 1
  /\ stage[p] = "idle" /\ current[p] # NoRev
  /\ stage[q] = "idle" /\ current[q] = NoRev
  /\ \A r \in Page : from[r] # p
  /\ stage' = [stage EXCEPT ![q] = "renamed"]
  /\ from' = [from EXCEPT ![q] = p]
  /\ current' = [current EXCEPT ![p] = NoRev, ![q] = current[p]]
  /\ texts' = [texts EXCEPT ![p] = {}, ![q] = texts[p]]
  /\ th' = [t \in Thread |->
              [th[t] EXCEPT !.amid = @ \/ (th[t].page = q /\ HeldNumber(q))]]
  /\ UNCHANGED <<kind, log, kinds, logPos, calls, cache, known>>
  /\ Watch

------------------------------------------------------------------------------
(* The threads: Page.get_rev, ItemCache.getItem, refresh and putItem *)

\* Mutant of After: the position moves on before the entries are removed.
AfterMovesFirst(pc) ==
  CASE pc = "news" -> "move" [] pc = "move" -> "forget" [] pc = "forget" -> "lookup"

\* refresh sets log_pos last, then getItem looks into the cache.
After(pc) ==
  CASE pc = "news" -> "forget" [] pc = "forget" -> "move" [] pc = "move" -> "lookup"

\* A save of the page has begun whose line is not written yet.
Coming(p) ==
  \/ stage[p] \in {"renamed", "taken", "written"}
  \/ \E q \in Page : from[q] = p

GetRev(t, p) ==
  /\ th[t].pc = "idle" /\ calls > 0 /\ calls' = calls - 1
  /\ th' = [th EXCEPT ![t] = [Idle EXCEPT !.pc = "news", !.page = p,
                                       !.oldPos = logPos, !.amid = Coming(p)]]
  /\ seen' = [seen EXCEPT ![t] = TrueOf(p)]
  /\ UNCHANGED <<disk, logPos, cache, known>>

\* EditLog.news: the first time, everything in the log is passed over.
ItemsAfter(pos) ==
  IF pos = NoPos THEN {} ELSE UNION {log[n] : n \in (pos + 1)..Len(log)}

\* Threads that hold what they read before this line of the log; and if this
\* thread passes over lines, what the others have put in the cache.
News(t) ==
  LET PassedOver(p) == th[t].oldPos = NoPos /\ LinesAbout(p, logPos) # {}
      Late(u) == Holding(u) /\ Unnoticed(th[u].page) # {}
  IN  /\ th[t].pc = "news"
      /\ th' = [u \in Thread |->
                  IF u = t
                  THEN [th[t] EXCEPT !.pc = After("news"), !.newPos = Len(log),
                                     !.items = ItemsAfter(th[t].oldPos)]
                  ELSE [th[u] EXCEPT !.raced = @ \/ Late(u)]]
      /\ cache' = [p \in Page |-> Entries(p, PassedOver(p))]
      /\ UNCHANGED <<disk, calls, logPos, known, seen>>

\* Mutant of Removed: only one of the pages a line is about.
RemovedOne(items) == IF items = {} THEN {} ELSE {CHOOSE p \in items : TRUE}

Removed(items) == items

Forget(t) ==
  /\ th[t].pc = "forget"
  /\ cache' = [p \in Page |-> IF p \in Removed(th[t].items) THEN {} ELSE cache[p]]
  /\ th' = [th EXCEPT ![t].pc = After("forget")]
  /\ UNCHANGED <<disk, calls, logPos, known, seen>>

Move(t) ==
  /\ th[t].pc = "move"
  /\ logPos' = th[t].newPos
  /\ th' = [th EXCEPT ![t].pc = After("move")]
  /\ UNCHANGED <<disk, calls, cache, known, seen>>

Lookup(t) ==
  LET Looking == [th[t] EXCEPT !.oldPos = NoPos, !.newPos = NoPos, !.items = {}]
  IN  /\ th[t].pc = "lookup"
      /\ \/ /\ cache[th[t].page] = {}
            /\ th' = [th EXCEPT ![t] = [Looking EXCEPT !.pc = "current"]]
         \/ \E e \in cache[th[t].page] :
              th' = [th EXCEPT ![t] = [Looking EXCEPT !.pc = "done", !.data = e.data,
                                                      !.raced = e.raced]]
      /\ UNCHANGED <<disk, calls, logPos, cache, known, seen>>

\* `current` is away, and the line that will make up for it has been read.
AwayAndNoticed(p) == stage[p] = "logged" /\ Unnoticed(p) = {}

ReadCurrent(t) ==
  /\ th[t].pc = "current"
  /\ th' = [th EXCEPT ![t].pc = "exists", ![t].rev = RevOf(th[t].page),
                      ![t].raced = @ \/ AwayAndNoticed(th[t].page)]
  /\ UNCHANGED <<disk, calls, logPos, cache, known, seen>>

ReadExists(t) ==
  /\ th[t].pc = "exists"
  /\ th' = [th EXCEPT ![t].pc = "put", ![t].rev = NoRev,
                      ![t].data = Data(th[t].rev, th[t].page)]
  /\ UNCHANGED <<disk, calls, logPos, cache, known, seen>>

PutItem(t) ==
  /\ th[t].pc = "put"
  /\ cache' = [cache EXCEPT ![th[t].page] =
                 {[data |-> th[t].data, raced |-> th[t].raced]}]
  /\ th' = [th EXCEPT ![t].pc = "done"]
  /\ UNCHANGED <<disk, calls, logPos, known, seen>>

Return(t) ==
  /\ th[t].pc = "done"
  /\ th' = [th EXCEPT ![t] = Idle]
  /\ seen' = [seen EXCEPT ![t] = {}]
  /\ UNCHANGED <<disk, calls, logPos, cache, known>>

Saver(p) ==
  \/ Take(p) \/ Write(p) \/ Log(p) \/ PutBack(p) \/ PutBackUnlogged(p)
  \/ \E q \in Page : Rename(p, q)

Reader(t) ==
  \/ \E p \in Page : GetRev(t, p)
  \/ News(t) \/ Forget(t) \/ Move(t) \/ Lookup(t)
  \/ ReadCurrent(t) \/ ReadExists(t) \/ PutItem(t) \/ Return(t)

Next == (\E p \in Page : Saver(p)) \/ (\E t \in Thread : Reader(t))

Spec == Init /\ [][Next]_vars
------------------------------------------------------------------------------
(***************************************************************************)
(* Properties.                                                             *)
(***************************************************************************)
\* Positions in the log are positions in the log, and what is remembered is a
\* revision and whether it exists.
Datum == [rev : Nat, exists : BOOLEAN]

TypeOK ==
  /\ \A p \in Page :
       /\ current[p] \in Nat /\ texts[p] \subseteq Nat \ {0, NoRev}
       /\ stage[p] \in Stages /\ kind[p] \in AllKinds
       /\ from[p] \in Page \cup {NoPage}
       /\ Cardinality(cache[p]) <= 1
       /\ \A e \in cache[p] : e.data \in Datum /\ e.raced \in BOOLEAN
       /\ known[p] \in Datum
  /\ log \in Seq(SUBSET Page)
  /\ logPos \in NoPos..Len(log)
  /\ \A t \in Thread : th[t].items \subseteq Page /\ seen[t] \subseteq Datum

\* What is remembered of a page is what the last change made of it, as long as
\* no line about the page is still to be read or written; unless it comes from a
\* read that raced with a save or with the refresh of another thread.
FreshUnlessRaced ==
  \A p \in Page : \A e \in cache[p] :
    \/ e.raced
    \/ e.data = known[p]
    \/ Coming(p)
    \/ LinesAbout(p, logPos) # {}

\* Unless it raced or was called amid a save, each of the two things get_rev
\* returns was true of the page at some time since it was called.  (They are read
\* one after the other, so that they may be of different revisions, and of
\* different pages if another page was renamed to the name in between, see Rename.)
ReturnsRecent ==
  \A t \in Thread :
    th[t].pc = "done" =>
      \/ th[t].raced \/ th[t].amid
      \/ /\ \E s \in seen[t] : s.rev = th[t].data.rev
         /\ \E s \in seen[t] : s.exists = th[t].data.exists
------------------------------------------------------------------------------
(***************************************************************************)
(* Inductive strengthenings, used by ItemCacheProofs.                      *)
(***************************************************************************)
Entry == [data : Datum, raced : BOOLEAN]

Position == Nat \cup {NoPos}

Reading ==
  [pc : {"idle", "news", "forget", "move", "lookup", "current", "exists", "put", "done"},
   page : Page \cup {NoPage}, oldPos : Position, newPos : Position,
   items : SUBSET Page, rev : Nat, data : Datum \cup {<<>>},
   raced : BOOLEAN, amid : BOOLEAN]

DiskInv ==
  /\ current \in [Page -> Nat] /\ texts \in [Page -> SUBSET (Nat \ {0, NoRev})]
  /\ stage \in [Page -> Stages] /\ kind \in [Page -> AllKinds]
  /\ from \in [Page -> Page \cup {NoPage}]
  /\ log \in Seq(SUBSET Page)
  /\ saves \in Nat /\ kinds \subseteq AllKinds \cup {Failure}
  /\ known \in [Page -> Datum]

ProcessInv ==
  /\ logPos \in Position /\ logPos <= Len(log) /\ calls \in Nat
  /\ cache \in [Page -> SUBSET Entry]
  /\ \A p \in Page : \A d, e \in cache[p] : d = e
  /\ th \in [Thread -> Reading]
  /\ seen \in [Thread -> SUBSET Datum]
  /\ \A t \in Thread :
       /\ th[t].oldPos <= Len(log) /\ th[t].newPos <= Len(log)
       /\ AtWork(t) => th[t].page \in Page
       /\ th[t].pc \in {"put", "done"} => th[t].data \in Datum

\* Only a save that has begun and not yet raised the number counts for more than
\* those that may still begin.
NumberInv ==
  /\ saves < NoRev
  /\ \A p \in Page :
       /\ current[p] # NoRev =>
            current[p] + saves + (IF stage[p] \in {"renamed", "taken"} THEN 1 ELSE 0) < NoRev
       /\ stage[p] # "idle" => current[p] # NoRev
       /\ stage[p] = "taken" /\ kind[p] = "deprecated" => current[p] # 0
       /\ current[p] = NoRev => texts[p] = {}
       /\ from[p] # NoPage => stage[p] \in {"renamed", "taken", "written"} /\ from[p] # p

TypeInv == DiskInv /\ ProcessInv /\ NumberInv

\* The last finished change is what the disk shows, unless another has begun.
KnownInv == \A p \in Page : Coming(p) \/ known[p] = Settled(p)

\* Thread r will remove p before it moves logPos past line n.
Heeds(r, n, p) ==
  /\ r.pc = "news" => n > r.oldPos
  /\ r.pc = "forget" => n > r.newPos \/ p \in r.items
  /\ r.pc = "move" => n > r.newPos

Pending(p) == \E n \in LinesAbout(p, logPos) : \A t \in Thread : Heeds(th[t], n, p)

EntryInv ==
  \A p \in Page : \A e \in cache[p] :
    e.raced \/ e.data = known[p] \/ Coming(p) \/ Pending(p)

\* A thread that has looked at the disk will not put an old entry into the cache
\* after its line has been read, without being marked.
HoldInv ==
  \A u \in Thread :
    LET p == th[u].page IN
    Holding(u) =>
      \/ th[u].raced \/ Coming(p) \/ Unnoticed(p) # {}
      \/ IF th[u].pc = "exists" THEN th[u].rev = known[p].rev ELSE th[u].data = known[p]

FreshInv == KnownInv /\ EntryInv /\ HoldInv

SeenInv == \A t \in Thread : AtWork(t) => TrueOf(th[t].page) \subseteq seen[t]

\* Each part of d is among what a thread has seen.
Likely(sights, d) ==
  /\ \E s \in sights : s.rev = d.rev
  /\ \E s \in sights : s.exists = d.exists

\* What a thread that has looked at the disk is going to return or remember.
Found(r) == IF r.pc = "exists" THEN Data(r.rev, r.page) ELSE r.data

\* What a call that is not amid a save reads itself, what it may find in the cache,
\* and what others will put there before it looks.
OwnInv ==
  \A t \in Thread :
    /\ Holding(t) => th[t].amid \/ Likely(seen[t], Found(th[t]))
    /\ th[t].pc = "done" => th[t].raced \/ th[t].amid \/ Likely(seen[t], th[t].data)

Before(t) == th[t].pc \in {"news", "forget", "move", "lookup"}

CachedInv ==
  \A t \in Thread : Before(t) /\ ~th[t].amid =>
    \A e \in cache[th[t].page] :
      \/ e.raced \/ Likely(seen[t], e.data)
      \/ th[t].pc = "news" /\ Pending(th[t].page)
      \/ th[t].pc = "forget" /\ th[t].page \in th[t].items

OthersInv ==
  \A t, u \in Thread :
    Before(t) /\ ~th[t].amid /\ Holding(u) /\ th[u].page = th[t].page =>
      \/ th[u].raced \/ Likely(seen[t], Found(th[u]))
      \/ th[t].pc = "news" /\ Unnoticed(th[t].page) # {}

RecentInv == SeenInv /\ OwnInv /\ CachedInv /\ OthersInv
=============================================================================
