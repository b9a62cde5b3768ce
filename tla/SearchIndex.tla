---------------------------- MODULE SearchIndex ----------------------------
(***************************************************************************)
(* The search index (MoinMoin/search/builtin.py, search/Xapian/indexing.py *)
(* and events/xapian_index.py): a request that has changed a page puts     *)
(* jobs into the indexer queue and then, unless another indexer has the    *)
(* Xapian database open, does all queued jobs.                             *)
(*                                                                         *)
(* A page is the sequence of its revisions; a revision is the time of its  *)
(* edit-log entry, or NoText if it is the deletion of the page.  The index *)
(* is a set of documents, each of a page, a revision number and a time.    *)
(* Attachments and other files, which have jobs of their own, are left     *)
(* out.  Covered are errors and deaths anywhere in a request, in the queue *)
(* or in Xapian; not covered is a damaged Xapian database.                 *)
(***************************************************************************)
EXTENDS IndexerQueue, Integers, FiniteSets, SequencesExt

CONSTANTS
  Page,
  NoText,       \* instead of a time: a revision that has no text
  Bounds        \* bound: sets of how many changes, errors and deaths there are,
                \* and how many scripts run

Budget == [changes : Nat, faults : 0..MaxFaults, crashes : Nat, scripts : Nat]

ASSUME IndexAssumption ==
  /\ Job = Page /\ IsFiniteSet(Page) /\ NoText \notin Nat
  /\ Bounds \subseteq Budget

VARIABLES
  history,    \* cfg.xapian_index_history
  revs,       \* per page, its revisions
  clock,      \* the time of the last change
  bounds,     \* bound: the changes and deaths there may still be
  stage,      \* per client, what its request does
  agenda,     \* per client, the pages it still has to put into the queue
  amount,     \* per client, how many jobs it still may do; -1 is any number
  todo,       \* per client, the revisions it still has to index
  gone,       \* per client, the revisions it has to remove from the index
  database,   \* who has the Xapian database open for writing
  index,      \* the documents in the database
  pending,    \* the documents as the open connection has them
  forgotten,  \* observed: pages whose job was lost with a process, an error
              \* or another client's write
  partial,    \* observed: pages indexed in part by an update that failed
  reused,     \* observed: names taken while the index had, or was getting,
              \* documents of the page that had the name before
  unattended  \* observed: jobs were left to a later update
vars == <<queueVars, history, revs, clock, stage, agenda, todo, gone, database,
          amount, index, pending, bounds, forgotten, partial, reused, unattended>>

pageVars == <<history, revs, clock, reused>>
docVars  == <<todo, gone, database, index, pending>>

SInit ==
  /\ Init
  /\ history \in BOOLEAN
  /\ revs = [p \in Page |-> <<>>] /\ clock = 0
  /\ stage = [c \in Client |-> "idle"]
  /\ agenda = [c \in Client |-> <<>>]
  /\ amount = [c \in Client |-> -1]
  /\ todo = [c \in Client |-> {}] /\ gone = [c \in Client |-> {}]
  /\ database = NoClient /\ index = {} /\ pending = {}
  /\ forgotten = {} /\ partial = {} /\ reused = {} /\ unattended = FALSE
  /\ bounds \in Bounds /\ faults = bounds.faults

Stage(c, from, to) == stage[c] = from /\ stage' = [stage EXCEPT ![c] = to]

\* The number of the current revision, and whether the page has text.
Newest(p) == Len(revs[p])
Exists(p) == revs[p] # <<>> /\ revs[p][Newest(p)] # NoText

\* getRevList, as a set: the revisions that have a file.
RevList(p) == {n \in DOMAIN revs[p] : revs[p][n] # NoText}

\* Mutant of First: oldest first.
FirstOldest(ns) == CHOOSE n \in ns : \A m \in ns : n <= m

\* The list is used newest first.
First(ns) == CHOOSE n \in ns : \A m \in ns : m <= n

\* The page whose job c has in hand.
Current(c) == got[c][1]

\* The index still has a document of p, or may be getting one.
Remains(p) ==
  \/ \E d \in index \cup pending : d.page = p
  \/ \E c \in Client : stage[c] \in {"exists", "index"} /\ Current(c) = p

\* Requests and scripts begin.  The page is changed first; then the event
\* handler puts the jobs, one by one, and has them done.
Change(c, new, jobs) ==
  /\ bounds.changes > 0 /\ bounds' = [bounds EXCEPT !.changes = @ - 1]
  /\ clock' = clock + 1
  /\ stage[c] = "idle"
  /\ stage' = [stage EXCEPT ![c] = IF jobs = <<>> THEN "idle" ELSE "put"]
  /\ revs' = new
  /\ reused' = reused \cup {p \in Page : revs[p] = <<>> /\ new[p] # <<>> /\ Remains(p)}
  /\ agenda' = [agenda EXCEPT ![c] = jobs]
  /\ amount' = [amount EXCEPT ![c] = -1]
  /\ UNCHANGED <<queueVars, history, docVars, partial, unattended>>

WithRev(p, time)  == [revs EXCEPT ![p] = Append(@, time)]
CopiedTo(p, q) == [revs EXCEPT ![q] = Append(revs[p], clock + 1)]

Save(c, p) ==
  Change(c, WithRev(p, clock + 1), <<<<p>>>>) /\ UNCHANGED forgotten

Delete(c, p) ==
  Exists(p) /\ Change(c, WithRev(p, NoText), <<<<p>>>>) /\ UNCHANGED forgotten

\* A copy or a rename takes the revisions with it and adds one.
Copy(c, p, q) ==
  /\ Exists(p) /\ revs[q] = <<>>
  /\ Change(c, CopiedTo(p, q), <<<<q>>>>) /\ UNCHANGED forgotten

\* Mutant of RenameJobs: only the new name is put into the queue.
RenameJobsNew(p, q) == <<<<q>>>>

RenameJobs(p, q) == <<<<p>>, <<q>>>>

Rename(c, p, q) ==
  /\ Exists(p) /\ revs[q] = <<>>
  /\ Change(c, [CopiedTo(p, q) EXCEPT ![p] = <<>>], RenameJobs(p, q))
  /\ UNCHANGED forgotten

\* There is no handler for PageRevertedEvent: a revert puts no job.
Revert(c, p) ==
  /\ RevList(p) # {}
  /\ Change(c, WithRev(p, clock + 1), <<>>)
  /\ forgotten' = forgotten \cup {p}

\* queuePages puts all pages at once and leaves them to others.
Script(c, to) ==
  /\ Stage(c, "idle", to)
  /\ bounds.scripts > 0 /\ bounds' = [bounds EXCEPT !.scripts = @ - 1]
  /\ UNCHANGED <<queueVars, pageVars, docVars, forgotten, partial, unattended>>

QueuePages(c) ==
  /\ Script(c, "put")
  /\ \E pages \in SetToSeqs({p \in Page : Exists(p)}) :
       agenda' = [agenda EXCEPT ![c] = <<pages>>]
  /\ amount' = [amount EXCEPT ![c] = 0]

\* indexPagesQueued(count).
IndexPagesQueued(c, count) ==
  /\ Script(c, "connect")
  /\ amount' = [amount EXCEPT ![c] = count]
  /\ UNCHANGED agenda
------------------------------------------------------------------------------
(***************************************************************************)
(* The queue's operations.                                                 *)
(***************************************************************************)
\* What c has still to put into the queue.
Unput(c) == UNION {ToSet(agenda[c][i]) : i \in DOMAIN agenda[c]}

\* The request ends with an error; the jobs it still had to put are not put.
FailPut(c) ==
  /\ unattended' = TRUE
  /\ stage' = [stage EXCEPT ![c] = "idle"]
  /\ agenda' = [agenda EXCEPT ![c] = <<>>]
  /\ forgotten' = forgotten \cup Unput(c)

Put(c) ==
  /\ stage[c] = "put" /\ UNCHANGED <<pageVars, docVars, amount, bounds, partial>>
  /\ LET o == PutOf(agenda[c][1]) IN
     \/ /\ Enter(c, o) \/ EnterBlind(c, o)
        /\ UNCHANGED <<stage, agenda, forgotten, unattended>>
     \/ TimesOut(c) /\ FailPut(c)
     \/ /\ Leave(c)
        /\ IF result[c] = "error" THEN FailPut(c)
           ELSE /\ agenda' = [agenda EXCEPT ![c] = Tail(@)]
                /\ stage' = [stage EXCEPT ![c] =
                               IF Len(agenda[c]) > 1 THEN "put"
                               ELSE IF amount[c] = 0 THEN "idle" ELSE "connect"]
                /\ unattended' = (unattended \/ amount[c] = 0)
                /\ UNCHANGED forgotten

\* amount -= 1, which never makes -1 a 0: any number stays any number.
Spent(n) == IF n > 0 THEN n - 1 ELSE n

Take(c) ==
  /\ stage[c] = "take" /\ UNCHANGED <<pageVars, docVars, agenda, bounds, forgotten, partial>>
  /\ \/ /\ amount[c] # 0 /\ Enter(c, Get)
        /\ unattended' = (unattended /\ Content # <<>>)
        /\ UNCHANGED <<stage, amount>>
     \/ /\ amount[c] # 0 /\ EnterBlind(c, Get)
        /\ unattended' = TRUE
        /\ UNCHANGED <<stage, amount>>
     \/ /\ amount[c] # 0 /\ TimesOut(c)
        /\ stage' = [stage EXCEPT ![c] = "close"] /\ unattended' = TRUE
        /\ UNCHANGED amount
     \/ /\ amount[c] = 0 /\ pc[c] = "idle"
        /\ stage' = [stage EXCEPT ![c] = "close"] /\ unattended' = TRUE
        /\ UNCHANGED <<queueVars, amount>>
     \/ /\ Leave(c)
        /\ stage' = [stage EXCEPT ![c] =
                       IF result[c] = "ok" THEN "revlist" ELSE "close"]
        /\ amount' = [amount EXCEPT ![c] = Spent(@)]
        /\ unattended' = (unattended \/ result[c] = "error")

\* Jobs in the file that the new file does not have are lost, unless c has them
\* in hand.
Kept(c) == ToSet(file') \cup (IF op[c].kind = "put" THEN {} ELSE ToSet(got'[c]))

Write(c) ==
  /\ UNCHANGED <<pageVars, docVars, stage, agenda, amount, bounds, partial, unattended>>
  /\ \/ /\ Replace(c)
        /\ forgotten' = (forgotten \cup ToSet(Content)) \ Kept(c)
     \/ /\ ReplaceFails(c)
        /\ forgotten' = IF file' = file THEN forgotten
                        ELSE forgotten \cup ToSet(Content)
------------------------------------------------------------------------------
(***************************************************************************)
(* do_queued_updates.                                                      *)
(***************************************************************************)
\* Another indexer has the database: the jobs are left to it, or to a later
\* update if it has already found the queue empty.
Connect(c) ==
  /\ UNCHANGED <<queueVars, pageVars, agenda, amount, todo, gone, index, bounds, forgotten, partial>>
  /\ IF database = NoClient
     THEN /\ Stage(c, "connect", "take")
          /\ database' = c /\ pending' = index
          /\ UNCHANGED unattended
     ELSE /\ Stage(c, "connect", "idle")
          /\ unattended' = (\/ unattended
                            \/ stage[database] = "close"
                            \/ amount[database] # -1
                            \/ pc[database] = "leave" /\ result[database] # "ok")
          /\ UNCHANGED <<database, pending>>

Doc(p, n, time) == [page |-> p, rev |-> n, time |-> time]
Of(p, ns, docs) == {d \in docs : d.page = p /\ d.rev \in ns}

\* _index_page: a page without revisions loses its documents; those to delete
\* are looked up in the database, which has not seen this connection's yet.
Found(p) == {d \in index : d.page = p}

RemovePage(c) ==
  LET p == Current(c) IN
  /\ Stage(c, "revlist", "take") /\ RevList(p) = {}
  /\ pending' = pending \ Found(p)
  /\ forgotten' = IF \E d \in pending' : d.page = p THEN forgotten \cup {p}
                  ELSE forgotten
  /\ UNCHANGED <<queueVars, pageVars, agenda, amount, todo, gone, database, index,
                 bounds, partial, unattended>>

ReadRevList(c) ==
  /\ Stage(c, "revlist", IF history THEN "index" ELSE "exists")
  /\ RevList(Current(c)) # {}
  /\ todo' = [todo EXCEPT ![c] = RevList(Current(c))]
  /\ UNCHANGED <<queueVars, pageVars, agenda, amount, gone, database, index, pending,
                 bounds, forgotten, partial, unattended>>

\* Without history only the newest revision is kept, if the page has text.
CheckExists(c) ==
  /\ Stage(c, "exists", "index")
  /\ IF Exists(Current(c))
     THEN /\ todo' = [todo EXCEPT ![c] = {First(@)}]
          /\ gone' = [gone EXCEPT ![c] = todo[c] \ {First(todo[c])}]
     ELSE /\ todo' = [todo EXCEPT ![c] = {}]
          /\ gone' = [gone EXCEPT ![c] = todo[c]]
  /\ UNCHANGED <<queueVars, pageVars, agenda, amount, database, index, pending,
                 bounds, forgotten, partial, unattended>>

\* Mutant of Time: the time of indexing.
TimeOfIndexing(p, n) == clock + 1

\* mtime_usecs: 0 if the page has no entry for the revision, having been moved.
Time(p, n) == IF n \in DOMAIN revs[p] /\ revs[p][n] # NoText THEN revs[p][n] ELSE 0

\* _get_document: there is none, or it is older.
Outdated(p, n) == \A d \in Of(p, {n}, pending) : d.time < Time(p, n)

\* _index_page_rev, newest revision first, until one is up to date.  The
\* connection may write what it has to the database at any time.
IndexRev(c) ==
  LET p == Current(c)  n == First(todo[c]) IN
  /\ stage[c] = "index" /\ todo[c] # {}
  /\ IF Outdated(p, n)
     THEN /\ pending' = (pending \ Of(p, {n}, pending)) \cup {Doc(p, n, Time(p, n))}
          /\ todo' = [todo EXCEPT ![c] = @ \ {n}]
     ELSE /\ todo' = [todo EXCEPT ![c] = {}] /\ UNCHANGED pending
  /\ index' \in {index, pending'}
  /\ UNCHANGED <<queueVars, pageVars, stage, agenda, amount, gone, database,
                 bounds, forgotten, partial, unattended>>

RemoveRevs(c) ==
  /\ todo[c] = {} /\ Stage(c, "index", "take")
  /\ gone' = [gone EXCEPT ![c] = {}]
  /\ pending' = pending \ Of(Current(c), gone[c], pending)
  /\ UNCHANGED <<queueVars, pageVars, agenda, amount, todo, database, index,
                 bounds, forgotten, partial, unattended>>

QueueUnused == UNCHANGED <<locking, holder, file, pc, op, blind, list, got, result, losses>>

\* An error: a replace that fails is logged and passed over, any other
\* exception ends the updates.
IndexFails(c) ==
  /\ stage[c] \in {"revlist", "exists", "index"}
  /\ Faulty /\ QueueUnused
  /\ forgotten' = forgotten \cup {Current(c)} /\ partial' = partial \cup {Current(c)}
  /\ \/ /\ stage' = [stage EXCEPT ![c] = "close"] /\ unattended' = TRUE
        /\ todo' = [todo EXCEPT ![c] = {}] /\ gone' = [gone EXCEPT ![c] = {}]
     \/ /\ stage[c] = "index" /\ todo[c] # {} /\ Outdated(Current(c), First(todo[c]))
        /\ todo' = [todo EXCEPT ![c] = @ \ {First(@)}]
        /\ UNCHANGED <<stage, gone, unattended>>
  /\ UNCHANGED <<pageVars, agenda, amount, database, index, pending, bounds>>

\* Mutant of Disconnect: the connection stays open.
DisconnectNot == pending' = {} /\ UNCHANGED database

\* The connection is closed, or its process ends.
Disconnect == pending' = {} /\ database' = NoClient

\* connection.close in the finally clause, which may lose what is not written.
Unwritten == {d.page : d \in (pending \ index) \cup (index \ pending)}

Close(c) ==
  /\ Stage(c, "close", "idle")
  /\ Disconnect
  /\ \/ index' = pending /\ UNCHANGED <<queueVars, forgotten, partial>>
     \/ /\ Faulty /\ QueueUnused /\ UNCHANGED index
        /\ forgotten' = forgotten \cup Unwritten /\ partial' = partial \cup Unwritten
  /\ UNCHANGED <<pageVars, agenda, amount, todo, gone, bounds, unattended>>

\* A request dies: what it had not put, had taken or had not written is lost.
Crash(c) ==
  /\ stage[c] # "idle"
  /\ bounds.crashes > 0 /\ bounds' = [bounds EXCEPT !.crashes = @ - 1]
  /\ Die(c)
  /\ stage' = [stage EXCEPT ![c] = "idle"]
  /\ agenda' = [agenda EXCEPT ![c] = <<>>]
  /\ forgotten' = forgotten \cup Unput(c)
       \cup (IF database = c THEN Unwritten \cup ToSet(got[c]) ELSE {})
  /\ partial' = IF database = c THEN partial \cup Unwritten \cup ToSet(got[c]) ELSE partial
  /\ IF database = c THEN Disconnect
     ELSE UNCHANGED <<database, pending>>
  /\ todo' = [todo EXCEPT ![c] = {}] /\ gone' = [gone EXCEPT ![c] = {}]
  /\ unattended' = TRUE
  /\ UNCHANGED <<pageVars, amount, index>>

SNext ==
  \/ \E c \in Client :
       \/ \E p \in Page : Save(c, p) \/ Delete(c, p) \/ Revert(c, p)
       \/ \E p, q \in Page : Copy(c, p, q) \/ Rename(c, p, q)
       \/ QueuePages(c)
       \/ \E n \in {-1, 1} : IndexPagesQueued(c, n)
       \/ Put(c) \/ Take(c) \/ Write(c) \/ Connect(c)
       \/ ReadRevList(c) \/ RemovePage(c) \/ CheckExists(c) \/ IndexRev(c) \/ RemoveRevs(c)
       \/ IndexFails(c) \/ Close(c) \/ Crash(c)
  \/ /\ Expire
     /\ UNCHANGED <<pageVars, docVars, stage, agenda, amount, bounds, forgotten, partial, unattended>>

SSpec == SInit /\ [][SNext]_vars
------------------------------------------------------------------------------
(***************************************************************************)
(* Properties.                                                             *)
(***************************************************************************)
Stages == {"idle", "put", "connect", "take", "revlist", "exists", "index", "close"}

TypeOK ==
  /\ QueueTypeOK
  /\ history \in BOOLEAN
  /\ revs \in [Page -> Seq(1..clock \cup {NoText})] /\ clock \in Nat
  /\ \A p \in Page : Newest(p) <= clock
  /\ bounds \in Budget
  /\ stage \in [Client -> Stages]
  /\ agenda \in [Client -> Seq(Seq(Page))]
  /\ amount \in [Client -> {-1, 0, 1}]
  /\ todo \in [Client -> SUBSET (1..clock)]
  /\ gone \in [Client -> SUBSET (1..clock)]
  /\ database \in Client \cup {NoClient}
  /\ index \cup pending \subseteq [page : Page, rev : 1..clock, time : 0..clock]
  /\ forgotten \cup partial \cup reused \subseteq Page /\ unattended \in BOOLEAN

\* The documents say what they should of the page's current revision; a page
\* that does not exist has none, unless history is indexed.
UpToDate(p, docs) ==
  IF Exists(p) THEN Doc(p, Newest(p), revs[p][Newest(p)]) \in docs
  ELSE history \/ p \in reused \/ {d \in docs : d.page = p} = {}

\* Somebody has the job for p in hand and has not yet read what it should.
InHand(p) ==
  \E c \in Client :
    \/ \E i \in DOMAIN agenda[c] : p \in ToSet(agenda[c][i])
    \/ /\ database = c /\ got[c] # <<>> /\ Current(c) = p
       /\ \/ stage[c] = "take" /\ pc[c] = "leave"
          \/ stage[c] = "revlist"
          \/ stage[c] = "exists"
          \/ stage[c] = "index"

\* The index is, or will be, right about p: its job waits, or somebody has it in
\* hand, or an open connection has the document.
Attended(p) ==
  \/ UpToDate(p, index)
  \/ database # NoClient /\ UpToDate(p, pending)
  \/ p \in ToSet(Content)
  \/ InHand(p)

\* However the saves, deletions, copies and renames of overlapping requests and
\* their updates of the index follow each other, no page is left out of the index
\* or out of date there, except the pages known to be forgotten: a page reverted,
\* or whose job went with a failed or overwritten write, an error or a process.
NothingForgotten == \A p \in Page \ forgotten : Attended(p)

\* No request is at work.
AtRest == \A c \in Client : stage[c] = "idle"

\* With history, once nothing is left to do, every revision of a page is in the
\* index, though each update stops at the first one that is up to date.
HistoryComplete ==
  history /\ AtRest /\ Content = <<>> =>
    \A p \in Page \ (forgotten \cup partial \cup reused) :
      \A n \in RevList(p) : Doc(p, n, Time(p, n)) \in index

\* When every request has ended, jobs are left only if an update stopped early or
\* came while another indexer had already found the queue empty.
JobsAtRest ==
  AtRest /\ Content # <<>> => unattended
------------------------------------------------------------------------------
(***************************************************************************)
(* Inductive strengthenings, used by SearchIndexProofs.                    *)
(***************************************************************************)
InIndexer == {"take", "revlist", "exists", "index", "close"}

\* Which operation of the queue a request is in, and what it has when.
Control(c) ==
  /\ stage[c] = "put" <=> agenda[c] # <<>>
  /\ stage[c] \in InIndexer <=> database = c
  /\ pc[c] # "idle" =>
       \/ stage[c] = "put" /\ op[c] = PutOf(agenda[c][1])
       \/ stage[c] = "take" /\ op[c] = Get
  /\ pc[c] = "write" /\ op[c].kind = "get" => list[c] # <<>>
  /\ pc[c] = "leave" /\ op[c].kind = "put" => result[c] # "empty"
  /\ pc[c] = "leave" /\ op[c].kind = "get" /\ result[c] = "ok" => got[c] # <<>>
  /\ stage[c] \in {"revlist", "exists", "index"} => got[c] # <<>>
  /\ stage[c] = "exists" => ~history /\ todo[c] # {}
  /\ stage[c] # "index" \/ history => gone[c] = {}

ControlInv == \A c \in Client : Control(c)

\* The documents as the next update will find them.
Docs == IF database = NoClient THEN index ELSE pending

\* c has put its first job, and has only to unlock.
HasPut(c) == stage[c] = "put" /\ pc[c] = "leave" /\ result[c] = "ok"

\* c will put the job for p into the queue.
ToPut(c, p) ==
  \E i \in DOMAIN agenda[c] : p \in ToSet(agenda[c][i]) /\ ~(i = 1 /\ HasPut(c))

\* The job for p is in the queue, or will be.
Waits(p) == p \in ToSet(Content) \/ \E c \in Client : ToPut(c, p)

\* c has taken the job for p and is not done with it.
Handles(c, p) ==
  /\ got[c] # <<>> /\ Current(c) = p
  /\ \/ stage[c] = "take" /\ pc[c] = "leave" /\ result[c] = "ok"
     \/ stage[c] \in {"revlist", "exists", "index"}

Indexes(c, p) == stage[c] = "index" /\ Current(c) = p

Top(p) == First(RevList(p))
Indexed(p, n, docs) == Doc(p, n, Time(p, n)) \in docs

\* The newest revision that has a text is in docs, if it belongs there.
TopIndexed(p, docs) ==
  IF history THEN RevList(p) # {} => Indexed(p, Top(p), docs) ELSE UpToDate(p, docs)

AttendInv ==
  \A p \in Page \ forgotten :
    Waits(p) \/ TopIndexed(p, Docs) \/ \E c \in Client : Handles(c, p)

\* Unless the page has been changed since, and so waits, an update of it will
\* leave its newest revision in the index.
WorkClaim(c, p) ==
  /\ RevList(p) # {}
  /\ stage[c] = "exists" => todo[c] = RevList(p)
  /\ stage[c] = "index" =>
       IF history \/ Exists(p)
       THEN /\ todo[c] \subseteq RevList(p) /\ Top(p) \notin gone[c]
            /\ Top(p) \in todo[c] \/ Indexed(p, Top(p), pending)
       ELSE todo[c] = {} /\ gone[c] = RevList(p)

WorkInv ==
  \A c \in Client : stage[c] \in {"exists", "index"} =>
    \/ Current(c) \in forgotten \/ Waits(Current(c)) \/ WorkClaim(c, Current(c))

\* A document is of a revision there is, or was when the page was renamed away, and
\* is not newer than this.
DocFits(d) ==
  /\ d.page \in reused \/ revs[d.page] = <<>> \/ d.rev \in RevList(d.page)
  /\ d.rev \in RevList(d.page) =>
       (d.page \in reused /\ d.rev # Top(d.page)) \/ d.time <= Time(d.page, d.rev)

TodoFits(p, ns) == p \in reused \/ revs[p] = <<>> \/ ns \subseteq RevList(p)

DocInv ==
  /\ \A d \in index \cup pending : DocFits(d)
  /\ \A c \in Client : stage[c] \in {"exists", "index"} => TodoFits(Current(c), todo[c])

\* Below a revision that is indexed are only such, or the update is at it.
Complete(p) ==
  \A n, m \in RevList(p) : m < n /\ Indexed(p, n, Docs) =>
    \/ Indexed(p, m, Docs)
    \/ \E c \in Client : Indexes(c, p) /\ m \in todo[c] /\ n \notin todo[c]

\* What an update has still to do is all there is below a revision.
Downward(c) ==
  \A n \in todo[c] : \A m \in RevList(Current(c)) : m < n => m \in todo[c]

CompleteInv ==
  history =>
    /\ \A p \in Page \ (partial \cup reused) : Complete(p)
    /\ \A c \in Client : stage[c] = "index" =>
         Current(c) \in partial \cup reused \/ Downward(c)

\* c will come to do what is in the queue, or leave it knowingly.
Attends(c) ==
  \/ stage[c] \in {"put", "connect", "revlist", "exists", "index"}
  \/ stage[c] = "take" /\ ~(pc[c] = "leave" /\ result[c] = "empty")

JobsInv == Content # <<>> => unattended \/ \E c \in Client : Attends(c)

IndexInv ==
  ControlInv /\ AttendInv /\ WorkInv /\ DocInv /\ CompleteInv /\ JobsInv
=============================================================================
