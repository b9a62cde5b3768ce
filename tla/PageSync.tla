------------------------------ MODULE PageSync ------------------------------
(***************************************************************************)
(* Synchronisation of a page of two wikis: handle_page of                  *)
(* MoinMoin/action/SyncPages.py and, on the other wiki, xmlrpc_getDiff and *)
(* xmlrpc_mergeDiff of MoinMoin/xmlrpc/__init__.py.  Each wiki has a tag   *)
(* store (MoinMoin/wikisync.py) that says which revisions of the two wikis *)
(* had the same text.                                                      *)
(*                                                                         *)
(* Faults: a call fails before or after the other wiki executed it, another *)
(* page's handler fails, the answer of another page is delivered, the      *)
(* synchronising request is killed.  Answers come late but in order.       *)
(*                                                                         *)
(* A text is the set of the edits that are in it, and Mark if there are    *)
(* conflict markers; the empty set is the empty text.  Number 0 stands for *)
(* None and for 0, which saveText and Page treat alike.  The page has the  *)
(* same name in both wikis and everybody may write it.  saveText is one    *)
(* step (see PageEditor), and so is the addition of a tag (see TagStore).  *)
(***************************************************************************)
EXTENDS Integers, Sequences, FiniteSets

CONSTANTS
  Wiki, Sync,
  Mark,          \* conflict markers
  Gone,          \* stands in a revision that is the deletion of the page
  MaxChanges,    \* bound: edits and deletions
  MaxSyncs,      \* bound: synchronisations
  MaxFaults      \* bound: calls that fail

ASSUME SyncAssumption ==
  /\ \E a \in Wiki, b \in Wiki : a # b /\ Wiki = {a, b}
  /\ Mark \notin Nat /\ Gone \notin Nat /\ Gone # Mark
  /\ MaxChanges \in Nat /\ MaxSyncs \in Nat /\ MaxFaults \in Nat

VARIABLES
  revs,      \* per wiki, the revisions of the page
  tags,      \* per wiki, the tags of the page, oldest first
  stage,     \* per synchronisation, its next step
  job,       \* per synchronisation, its local variables
  changes, syncs, faults,  \* bounds: how many there have been
  made,      \* observed: the edits that users made
  dropped,   \* observed: edits that somebody or something took out of a text
  raced,     \* observed: a number was read that is not that of the text
  quiet,     \* observed per synchronisation: nobody else has changed anything
  synced     \* observed: the last synchronisation, a quiet one, did its work
vars == <<revs, tags, stage, job, changes, syncs, faults, made, dropped, raced,
          quiet, synced>>

bounds == <<changes, syncs, faults>>
observed == <<made, dropped, raced>>

NoText == {Gone}

Other(w) == CHOOSE o \in Wiki : o # w

NoJob == [wiki |-> CHOOSE w \in Wiki : TRUE, dir |-> "both",
          lrev |-> 0, ldel |-> FALSE, rrev |-> 0, rdel |-> FALSE,
          old |-> {}, from |-> 0, conf |-> FALSE, base |-> 0, tagged |-> FALSE,
          diff |-> FALSE, remote |-> {}, last |-> 0,
          body |-> {}, merged |-> {}, newrev |-> 0, done |-> FALSE]

Init ==
  /\ revs = [w \in Wiki |-> <<>>]
  /\ tags = [w \in Wiki |-> <<>>]
  /\ stage = [s \in Sync |-> "idle"]
  /\ job = [s \in Sync |-> NoJob]
  /\ changes = 0 /\ syncs = 0 /\ faults = 0
  /\ made = {} /\ dropped = {} /\ raced = FALSE
  /\ quiet = [s \in Sync |-> TRUE] /\ synced = FALSE

\* get_real_rev, exists and get_raw_body of the current revision.
Current(w) == Len(revs[w])
Exists(w)  == revs[w] # <<>> /\ revs[w][Current(w)] # NoText
Deleted(w) == revs[w] # <<>> /\ ~Exists(w)
Body(w)    == IF Exists(w) THEN revs[w][Current(w)] ELSE {}

\* Page(rev=n).get_raw_body: number 0 is the current revision.
BodyOf(w, n) ==
  IF n = 0 THEN Body(w) ELSE IF revs[w][n] = NoText THEN {} ELSE revs[w][n]

L(s) == job[s].wiki
R(s) == Other(job[s].wiki)

Goto(s, from, to) == stage[s] = from /\ stage' = [stage EXCEPT ![s] = to]

Write(w, text) ==
  revs' = [revs EXCEPT ![w] = Append(@, text)]

\* Only s, if anybody, is undisturbed by a change of s.
Disturb(s) ==
  /\ quiet' = [t \in Sync |-> quiet[t] /\ t = s]
  /\ synced' = FALSE
------------------------------------------------------------------------------
(***************************************************************************)
(* Users of both wikis.                                                    *)
(***************************************************************************)
Change(w, text) ==
  /\ changes < MaxChanges /\ changes' = changes + 1
  /\ Write(w, text)
  /\ quiet' = [s \in Sync |-> FALSE] /\ synced' = FALSE
  /\ UNCHANGED <<tags, stage, job, syncs, faults, raced>>

\* A user adds something, or creates the page ...
Edit(w) ==
  /\ Change(w, Body(w) \cup {changes + 1})
  /\ made' = made \cup {changes + 1} /\ UNCHANGED dropped

\* ... removes the conflict markers ...
Resolve(w) ==
  /\ Mark \in Body(w) /\ Change(w, Body(w) \ {Mark})
  /\ UNCHANGED <<made, dropped>>

\* ... or deletes the page.
Delete(w) ==
  /\ Exists(w) /\ Change(w, NoText)
  /\ dropped' = dropped \cup Body(w) /\ UNCHANGED made
------------------------------------------------------------------------------
(***************************************************************************)
(* handle_page.  A step that reads only, of either wiki: job changes.      *)
(***************************************************************************)
Reads == UNCHANGED <<revs, tags, bounds, observed, quiet, synced>>

\* An exception in any page's handler, or in the call of a batch, ends the
\* synchronisation.
Fails(s) == stage' = [stage EXCEPT ![s] = "failed"] /\ UNCHANGED job

\* local.get_pages, then remote.get_pages.
Start(s, w, dir) ==
  /\ Goto(s, "idle", "list")
  /\ syncs < MaxSyncs /\ syncs' = syncs + 1
  /\ job' = [job EXCEPT ![s] =
               [NoJob EXCEPT !.wiki = w, !.dir = dir,
                             !.lrev = Current(w), !.ldel = Deleted(w)]]
  /\ quiet' = [quiet EXCEPT ![s] = \A t \in Sync : stage[t] = "idle"]
  /\ UNCHANGED <<revs, tags, changes, faults, observed, synced>>

ListRemote(s) ==
  /\ Goto(s, "list", "page")
  /\ job' = [job EXCEPT ![s].rrev = Current(R(s)), ![s].rdel = Deleted(R(s))]
  /\ Reads

FetchedAny(w, dir) == DOMAIN tags[w]  \* mutant of Fetched: any direction

\* tags.fetch: of the tags of the right direction, sorted by the local revision
\* number (sort is stable), the newest.
Fetched(w, dir) ==
  {i \in DOMAIN tags[w] : dir = "down" \/ tags[w][i].dir = "both"}
Newest(w, dir) ==
  CHOOSE i \in Fetched(w, dir) : \A j \in Fetched(w, dir) :
    \/ tags[w][j].cur < tags[w][i].cur
    \/ tags[w][j].cur = tags[w][i].cur /\ j <= i

Tagged(s)       == Fetched(L(s), job[s].dir) # {}
NewestTag(s)    == tags[L(s)][Newest(L(s), job[s].dir)]
LocalChange(s)  == NewestTag(s).cur # job[s].lrev
RemoteChange(s) == NewestTag(s).rem # job[s].rrev

\* The page is in neither wiki, or there is nothing to do for it.
NothingToDo(s) ==
  LET j == job[s] IN
  IF Tagged(s)
  THEN \/ ~RemoteChange(s) /\ (j.dir = "down" \/ ~LocalChange(s))
       \/ j.ldel /\ j.rdel
  ELSE ((j.ldel \/ j.lrev = 0) /\ j.rrev = 0) \/ (j.rdel /\ j.lrev = 0)

DeletedRemotely(s) ==
  ~NothingToDo(s) /\ Tagged(s) /\ job[s].rdel /\ ~LocalChange(s)
DeletedLocally(s) ==
  /\ ~NothingToDo(s) /\ ~DeletedRemotely(s)
  /\ Tagged(s) /\ job[s].ldel /\ ~RemoteChange(s)

Skip(s) ==
  /\ Goto(s, "page", "finished")
  /\ NothingToDo(s) \/ (DeletedLocally(s) /\ job[s].dir = "down")
  /\ Reads /\ UNCHANGED job

\* Of the text of w, which had revision n when it was to be deleted, what nobody asked
\* to delete: what came later; and all of it, if the deletion on the other side, then
\* revision m, has been undone meanwhile, or was not of the same text (downwards).
Overrun(s, w, n, m) ==
  IF job[s].dir = "both" /\ Current(Other(w)) = m THEN Body(w) \ BodyOf(w, n) ELSE Body(w)

\* local.delete_page, which does not look at the revision.
DeleteLocal(s) ==
  /\ Goto(s, "page", "finished") /\ DeletedRemotely(s)
  /\ Write(L(s), NoText)
  /\ Disturb(s)
  /\ dropped' = dropped \cup Overrun(s, L(s), job[s].lrev, job[s].rrev)
  /\ UNCHANGED <<tags, job, bounds, made, raced>>

\* delete_page_pre: mergeDiff without a diff.
DeleteRemote(s) ==
  /\ Goto(s, "page", "check delete") /\ DeletedLocally(s) /\ job[s].dir = "both"
  /\ job' = [job EXCEPT ![s].last = job[s].rrev]
  /\ Reads

\* The merge base and the revision that the remote diff starts from.
Begin(s) ==
  LET j    == job[s]
      tag  == NewestTag(s)
      from == IF Tagged(s) /\ j.dir = "both" THEN tag.rem ELSE 0
      diff == from # j.rrev /\ ~j.rdel
  IN
  /\ Goto(s, "page", IF diff THEN "diff" ELSE "body")
  /\ ~NothingToDo(s) /\ ~DeletedRemotely(s) /\ ~DeletedLocally(s)
  /\ LET old == IF Tagged(s) THEN BodyOf(L(s), tag.cur) ELSE {} IN
     job' = [job EXCEPT ![s].tagged = Tagged(s),
                        ![s].base   = IF Tagged(s) THEN tag.cur ELSE j.lrev,
                        ![s].old    = old,
                        ![s].from   = from,
                        ![s].diff   = diff,
                        ![s].remote = IF j.rdel THEN {} ELSE old,
                        ![s].conf   = from = j.rrev /\ Mark \in old,
                        ![s].last   = j.rrev]
  /\ Reads

\* What a patch makes of a text, if it was made to turn `from' into `to'.  Put on
\* another text it moves the lines about; put on an empty diff base, it inserts.
Patched(text, from, to) ==
  IF text = from THEN {to}
  ELSE IF from = {} THEN {text \cup to}
  ELSE SUBSET (text \cup to)

\* xmlrpc_getDiff: the current text, and then the current number.
ReadDiff(s) ==
  LET j == job[s]  o == R(s)
      expected == IF j.from = 0 THEN {} ELSE BodyOf(o, j.from)
      base     == IF j.dir = "both" THEN j.old ELSE {}
  IN
  /\ stage[s] = "diff"
  /\ IF Exists(o) /\ (j.from = 0 \/ (revs[o][j.from] # NoText /\ j.from # Current(o)))
     THEN /\ Goto(s, "diff", "diff number")
          /\ \E text \in Patched(base, expected, Body(o)) :
               job' = [job EXCEPT ![s].remote = text, ![s].conf = Mark \in Body(o)]
     ELSE Fails(s)
  /\ Reads

ReadDiffNumber(s) ==
  /\ Goto(s, "diff number", "body")
  /\ job' = [job EXCEPT ![s].last = Current(R(s))]
  /\ raced' = (raced \/ BodyOf(R(s), Current(R(s))) # job[s].remote)
  /\ UNCHANGED <<revs, tags, bounds, made, dropped, quiet, synced>>

\* diff3.text_merge: what either side added, and of the rest what both kept; there
\* may be conflicts.  (Diff3 has the real merge.)
Merge3(old, a, b) ==
  LET both == (a \ old) \cup (b \ old) \cup (old \cap a \cap b) IN {both, both \cup {Mark}}

MergedTexts(s, body) ==
  LET j == job[s] IN
  IF ~j.diff THEN {body}
  ELSE IF j.base = j.lrev THEN {j.remote}
  ELSE Merge3(j.old, j.remote, body)

\* Conflicts on both sides, or before the first synchronisation, must be resolved.
Unresolved(s, body) == Mark \in body /\ (job[s].from = 0 \/ job[s].conf)

ReadBody(s) ==
  LET body == Body(L(s)) IN
  /\ Goto(s, "body", IF Unresolved(s, body) THEN "skipped" ELSE "save")
  /\ \E text \in MergedTexts(s, body) :
       job' = [job EXCEPT ![s].body = body, ![s].merged = text]
  /\ Reads

StaleRevNot(w, n) == FALSE  \* mutant of StaleRev: the number is not compared

\* saveText raises EditConflict.
StaleRev(w, n) == n # 0 /\ n # Current(w)

\* current_page.saveText.  Without a tag, or downwards, what the other wiki does not
\* have goes.
SaveLocal(s) ==
  LET j == job[s]  w == L(s) IN
  /\ stage[s] = "save" /\ UNCHANGED <<tags, bounds, made, raced>>
  /\ \/ /\ j.merged = {} \/ StaleRev(w, j.lrev)
        /\ Fails(s) /\ UNCHANGED <<revs, dropped, quiet, synced>>
     \/ /\ j.merged # {} /\ ~StaleRev(w, j.lrev)
        /\ Goto(s, "save", "number")
        /\ job' = [job EXCEPT ![s].done = j.merged # j.body]
        /\ IF j.merged = j.body
           THEN UNCHANGED <<revs, dropped, quiet, synced>>
           ELSE /\ Write(w, j.merged) /\ Disturb(s)
                /\ dropped' = IF j.tagged /\ j.dir = "both" /\ j.lrev # 0 THEN dropped
                              ELSE dropped \cup (Body(w) \ j.merged)

\* new_local_rev, which a rollback would use.
ReadNumber(s) ==
  /\ Goto(s, "number", IF job[s].dir = "both" THEN "check" ELSE "tag")
  /\ job' = [job EXCEPT ![s].newrev = Current(L(s))]
  /\ raced' = (raced \/ BodyOf(L(s), Current(L(s))) # job[s].merged)
  /\ UNCHANGED <<revs, tags, bounds, made, dropped, quiet, synced>>
------------------------------------------------------------------------------
(***************************************************************************)
(* xmlrpc_mergeDiff.                                                       *)
(***************************************************************************)
Check(s) ==
  LET j == job[s]  o == R(s) IN
  /\ stage[s] \in {"check", "check delete"}
  /\ IF StaleRev(o, j.last) \/ (stage[s] = "check delete" /\ ~Exists(o))
     THEN Fails(s)
     ELSE /\ stage' = [stage EXCEPT ![s] = IF @ = "check" THEN "merge" ELSE "delete"]
          /\ UNCHANGED job
  /\ Reads

MergeDiff(s) ==
  LET j == job[s]  o == R(s) IN
  /\ stage[s] = "merge" /\ UNCHANGED <<tags, bounds, made, dropped>>
  /\ raced' = (raced \/ (j.last = 0 /\ Current(o) # 0))
  /\ \E text \in Patched(BodyOf(o, j.last), j.remote, j.merged) :
       IF text = {} \/ StaleRev(o, j.last)
       THEN Fails(s) /\ UNCHANGED <<revs, quiet, synced>>
       ELSE /\ Goto(s, "merge", "merge tag")
            /\ job' = [job EXCEPT ![s].body = text]
            /\ IF text = Body(o) THEN UNCHANGED <<revs, quiet, synced>>
               ELSE Write(o, text) /\ Disturb(s)

Tag(rem, cur, dir) == [rem |-> rem, cur |-> cur, dir |-> dir]

AnswerKnown(s) == job[s].last  \* mutant of Answer: the revision before the merge

\* What mergeDiff returns, very_current_remote_rev.
Answer(s) == Current(R(s))

MergeTag(s) ==
  LET o == R(s) IN
  /\ Goto(s, "merge tag", "answer")
  /\ tags' = [tags EXCEPT ![o] = Append(@, Tag(job[s].newrev, Current(o), "both"))]
  /\ job' = [job EXCEPT ![s].last = Answer(s)]
  /\ raced' = (raced \/ BodyOf(o, Current(o)) # job[s].body)
  /\ UNCHANGED <<revs, bounds, made, dropped, quiet, synced>>

\* deletePage, which does not look at the revision either.
MergeDelete(s) ==
  /\ Goto(s, "delete", "finished")
  /\ Write(R(s), NoText) /\ Disturb(s)
  /\ dropped' = dropped \cup Overrun(s, R(s), job[s].last, job[s].lrev)
  /\ UNCHANGED <<tags, job, bounds, made, raced>>
------------------------------------------------------------------------------
(***************************************************************************)
(* The end of handle_page and of the synchronisation.                      *)
(***************************************************************************)
\* The answer is there: the change is not rolled back any more.
Accept(s) ==
  /\ Goto(s, "answer", "tag")
  /\ job' = [job EXCEPT ![s].done = FALSE]
  /\ Reads

AnyNumber(n) == TRUE  \* mutant of Numbered: None is a number

\* The assertion in Tag: None is not a number.
Numbered(n) == n # 0

\* tags.add, whose failure is a message.
AddTag(s) ==
  LET j == job[s] IN
  /\ Goto(s, "tag", IF Numbered(j.last) THEN "finished" ELSE "skipped")
  /\ tags' = IF Numbered(j.last)
             THEN [tags EXCEPT ![L(s)] = Append(@, Tag(j.last, j.newrev, j.dir))]
             ELSE tags
  /\ job' = [job EXCEPT ![s].done = FALSE]
  /\ UNCHANGED <<revs, bounds, observed, quiet, synced>>

Calling == {"list", "diff", "diff number", "check", "check delete", "merge",
            "merge tag", "delete", "answer"}

\* A call fails, before or after it was executed, or another page's handler does.
CallFails(s) ==
  /\ stage[s] \in Calling
  /\ faults < MaxFaults /\ faults' = faults + 1
  /\ Fails(s)
  /\ UNCHANGED <<revs, tags, changes, syncs, observed, quiet, synced>>

\* The handler is given the Fault of a page before it in the batch (RPCAggregator),
\* INVALID_TAG for a diff, NOT_ALLOWED for a merge; it passes over the page.
Misled(s) ==
  /\ stage[s] \in {"diff number", "answer"}
  /\ faults < MaxFaults /\ faults' = faults + 1
  /\ stage' = [stage EXCEPT ![s] = "skipped"]
  /\ UNCHANGED <<revs, tags, job, changes, syncs, observed, quiet, synced>>

\* The synchronising request is killed: nothing is rolled back.
Die(s) ==
  /\ stage[s] # "idle" /\ stage' = [stage EXCEPT ![s] = "idle"]
  /\ faults < MaxFaults /\ faults' = faults + 1
  /\ job' = [job EXCEPT ![s] = NoJob]
  /\ UNCHANGED <<revs, tags, changes, syncs, observed, quiet, synced>>

\* rollback_local_change: the revision before the new one is saved again, over
\* whatever there is, or the page deleted if there was none; number 0 is the current
\* revision, which needs no saving.
RollBack(s) ==
  LET w   == L(s)
      old == BodyOf(w, job[s].newrev - 1) IN
  IF old = Body(w) /\ Exists(w)
  THEN UNCHANGED <<revs, dropped, quiet, synced>>
  ELSE /\ Write(w, IF old = {} THEN NoText ELSE old) /\ Disturb(s)
       /\ dropped' = dropped \cup (Body(w) \ old)

\* The finally clause of render: call_rollback_funcs.
Finish(s) ==
  /\ stage[s] \in {"finished", "skipped", "failed"}
  /\ stage' = [stage EXCEPT ![s] = "idle"]
  /\ job' = [job EXCEPT ![s] = NoJob]
  /\ IF job[s].done /\ stage[s] # "finished" THEN RollBack(s)
     ELSE /\ UNCHANGED <<revs, dropped, quiet>>
          /\ synced' = (synced \/ (quiet[s] /\ stage[s] = "finished" /\ job[s].dir = "both"))
  /\ UNCHANGED <<tags, bounds, made, raced>>

Step(s) ==
  \/ ListRemote(s) \/ Skip(s) \/ DeleteLocal(s) \/ DeleteRemote(s) \/ Begin(s)
  \/ ReadDiff(s) \/ ReadDiffNumber(s) \/ ReadBody(s) \/ SaveLocal(s) \/ ReadNumber(s)
  \/ Check(s) \/ MergeDiff(s) \/ MergeTag(s) \/ MergeDelete(s)
  \/ Accept(s) \/ AddTag(s) \/ Finish(s)

Next ==
  \/ \E w \in Wiki : Edit(w) \/ Resolve(w) \/ Delete(w)
  \/ \E s \in Sync :
       \/ \E w \in Wiki, dir \in {"both", "down"} : Start(s, w, dir)
       \/ Step(s) \/ CallFails(s) \/ Misled(s) \/ Die(s)

Spec == Init /\ [][Next]_vars
------------------------------------------------------------------------------
(***************************************************************************)
(* Properties.                                                             *)
(***************************************************************************)
Stages == {"idle", "list", "page", "diff", "diff number", "body", "save", "number",
           "check", "merge", "merge tag", "answer", "tag", "check delete", "delete",
           "finished", "skipped", "failed"}

Dirs == {"both", "down"}

Text == SUBSET (1..changes \cup {Mark})

Jobs == [wiki : Wiki, dir : Dirs, lrev : Nat, ldel : BOOLEAN, rrev : Nat, rdel : BOOLEAN,
         old : Text, from : Nat, conf : BOOLEAN, base : Nat, tagged : BOOLEAN,
         diff : BOOLEAN, remote : Text, last : Nat,
         body : Text, merged : Text, newrev : Nat, done : BOOLEAN]

PagesType ==
  /\ revs \in [Wiki -> Seq(Text \cup {NoText})]
  /\ tags \in [Wiki -> Seq([rem : Nat, cur : Nat, dir : Dirs])]
  /\ \A w \in Wiki : \A n \in DOMAIN tags[w] :
       tags[w][n].cur \in 1..Current(w) /\ tags[w][n].rem \in 1..Current(Other(w))

JobsType ==
  /\ stage \in [Sync -> Stages] /\ job \in [Sync -> Jobs]
  /\ \A s \in Sync :
       /\ {job[s].lrev, job[s].base, job[s].newrev} \subseteq 0..Current(L(s))
       /\ {job[s].rrev, job[s].from, job[s].last} \subseteq 0..Current(R(s))

ObservedType ==
  /\ changes \in Nat /\ made \subseteq 1..changes
  /\ quiet \in [Sync -> BOOLEAN] /\ raced \in BOOLEAN /\ synced \in BOOLEAN

\* Types.  The numbers in a job and in a tag are of revisions that exist.
TypeOK == PagesType /\ JobsType /\ ObservedType

\* A tag says truly that its two revisions have the same text, whatever fails or runs
\* beside the synchronisation that adds it.  The next synchronisation merges against
\* it (SyncPages.py:361); a wrong one makes it drop edits or leave the wikis apart.
\* Excepted: a revision number read after somebody has saved another revision, and a
\* page created in the other wiki after its pages were listed (see raced).
TagsAgree ==
  raced \/ \A w \in Wiki : \A i \in DOMAIN tags[w] :
    tags[w][i].dir = "both" => revs[w][tags[w][i].cur] = revs[Other(w)][tags[w][i].rem]

\* An edit is in the text of one of the wikis for good: no merge against an old tag, no
\* save over a newer revision and no failure takes it out of both.  Excepted: what a
\* user deletes, and what the code drops on its own account, a first or a downward
\* synchronisation, a deletion handed on although one of the pages was changed after it
\* was listed, and a rollback (see dropped).
NoEditLost ==
  raced \/ made \ dropped \subseteq UNION {Body(w) : w \in Wiki}

\* After a synchronisation in both directions that nobody disturbed, and that reported
\* no error, both wikis have the same text, whatever tags and revisions the earlier ones
\* left, the failed ones included.
InSync == synced /\ ~raced => \A w \in Wiki : Body(w) = Body(Other(w))
------------------------------------------------------------------------------
(***************************************************************************)
(* Inductive strengthenings, used by PageSyncProofs.                       *)
(***************************************************************************)
\* A number that will go into a tag, or that a rollback uses, is one.
NumberInv(s) ==
  LET j == job[s] IN
  /\ stage[s] = "save" /\ j.body # {} => Current(L(s)) # 0
  /\ stage[s] = "number" => Current(L(s)) # 0
  /\ stage[s] \in {"check", "merge", "merge tag", "answer", "tag"} => j.newrev # 0
  /\ stage[s] = "merge tag" => Current(R(s)) # 0
  /\ j.done => stage[s] = "number" \/ j.newrev # 0

TypeInv == TypeOK /\ \A s \in Sync : NumberInv(s)

Edits(text) == text \ {Mark}

\* An edit that was in a page once is in it for good, or was dropped.
Kept ==
  \A w \in Wiki : \A n, m \in DOMAIN revs[w] :
    n <= m => Edits(BodyOf(w, n)) \subseteq BodyOf(w, m) \cup dropped

\* Every edit got into a page.
MadeInv == \A e \in made : \E w \in Wiki : \E n \in DOMAIN revs[w] : e \in BodyOf(w, n)

\* What a synchronisation knows, from its stage st, its job j, and its wikis l and r.
\* A page it found deleted was.
Listed(j, l, r) ==
  /\ j.ldel => j.lrev # 0 /\ revs[l][j.lrev] = NoText
  /\ j.rdel => j.rrev # 0 /\ revs[r][j.rrev] = NoText

\* The merge base is a text both wikis have, or there is none.
BaseClaim(st, j, l, r) ==
  st \in {"diff", "diff number", "body", "save", "number", "check", "merge"} =>
    /\ ~j.tagged => j.old = {} /\ j.base = j.lrev /\ j.from = 0
    /\ j.tagged => j.base # 0 /\ j.old = BodyOf(l, j.base)
    /\ j.tagged /\ j.dir = "both" => j.from # 0 /\ j.old = BodyOf(r, j.from)
    /\ j.dir = "down" => j.from = 0

\* The remote text is that of the revision that mergeDiff will be told.
RemoteClaim(st, j, r) ==
  /\ st = "diff number" => Current(r) # 0 /\ j.diff
  /\ st = "diff" => j.diff
  /\ st \in {"body", "save", "number", "check", "merge"} =>
       /\ j.dir = "both" \/ j.diff => j.remote = IF j.last = 0 THEN {} ELSE BodyOf(r, j.last)
       /\ j.dir = "both" /\ ~j.diff => j.remote \subseteq j.old
  /\ st \in {"diff number", "body", "save", "number", "check", "merge"} =>
       (j.dir = "both" /\ j.diff => Edits(j.old) \subseteq j.remote \cup dropped)

\* The merged text has all that the two sides have, but for what somebody dropped.
MergedClaim(st, j, l) ==
  /\ st = "save" /\ Current(l) = j.lrev =>
       /\ j.body = Body(l)
       /\ j.dir = "both" /\ j.tagged => Edits(j.body) \subseteq j.merged \cup dropped
  /\ st \in {"save", "number", "check", "merge"} /\ j.dir = "both" =>
       Edits(j.remote) \subseteq j.merged \cup dropped
  /\ st \in {"number", "check", "merge", "merge tag", "answer", "tag"} => j.merged # {}

\* What was saved on either side is the merged text.
SavedClaim(st, j, l, r) ==
  /\ st \in {"check", "merge", "merge tag", "answer", "check delete", "delete"} =>
       j.dir = "both"
  /\ st \in {"check", "merge", "merge tag", "answer", "tag"} => BodyOf(l, j.newrev) = j.merged
  /\ st = "merge tag" => j.body = j.merged
  /\ st \in {"answer", "tag"} /\ j.dir = "both" =>
       j.last # 0 /\ BodyOf(r, j.last) = j.merged

\* A deletion handed on takes nothing that was not deleted on the other side.
DeletingClaim(st, j, l, r) ==
  st \in {"check delete", "delete"} =>
    /\ j.last # 0 /\ j.ldel
    /\ Current(l) = j.lrev => Edits(BodyOf(r, j.last)) \subseteq dropped

Claim(st, j, l, r) ==
  /\ BaseClaim(st, j, l, r) /\ RemoteClaim(st, j, r) /\ MergedClaim(st, j, l)
  /\ SavedClaim(st, j, l, r) /\ DeletingClaim(st, j, l, r)

ListedInv(s) == Listed(job[s], L(s), R(s))
Claims(s)    == Claim(stage[s], job[s], L(s), R(s))

SyncInv ==
  /\ MadeInv /\ \A s \in Sync : ListedInv(s)
  /\ ~raced => TagsAgree /\ Kept /\ \A s \in Sync : Claims(s)

\* What an undisturbed synchronisation knows of the present.
QuietClaim(st, j, l, r) ==
  /\ st \in {"list", "page", "diff", "diff number", "body", "save",
             "check delete", "delete"} => Current(l) = j.lrev
  /\ st \in {"page", "diff", "diff number", "body", "save", "number"} => Current(r) = j.rrev
  /\ st \in {"body", "save", "number", "check", "merge"} => Current(r) = j.last
  /\ st \in {"number", "check", "merge", "merge tag", "answer", "tag"} => Body(l) = j.merged
  /\ st \in {"merge tag", "answer", "tag"} /\ j.dir = "both" => Body(r) = j.merged
  /\ st = "finished" /\ j.dir = "both" => Body(l) = Body(r)

QuietInv(s) == QuietClaim(stage[s], job[s], L(s), R(s))

AllQuietInv == InSync /\ (~raced => \A s \in Sync : quiet[s] => QuietInv(s))
=============================================================================
