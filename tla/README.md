# Verification of MoinMoin's shared state

MoinMoin is a wiki engine that keeps everything in files.  There is no
database and, on most deployments, no single process: many server processes and
threads read and write the same page directories, logs and caches, and they
coordinate by renaming files, making directories and appending lines.  This
directory holds TLA+ models of the parts of the program that do so, the TLC
runs that check them on small instances, and proofs for instances of any size.

- [The system](#the-system): components, their state, what is hard about them
- [The modules](#the-modules): how state and actions correspond to the code
- [The runs](#the-runs): what is checked, and with which bounds
- [What the checks found](#what-the-checks-found)
- [The proofs](#the-proofs)
- [What is not modelled](#what-is-not-modelled)
- [Plan](#plan)

All paths are relative to `src/`.  The tree is in the middle of a port from
Python 2 to 3; where the two differ the models take the Python 2 meaning, which
is what the program was written for (`README.rst` requires 2.7).

## The system

| Component | State | Operations | Talks to |
|---|---|---|---|
| Page storage, `PageEditor._write_file` | per page: `current` (number of the newest revision, also the write lock), `revisions/NNNNNNNN`, `edit-log`; per wiki: `edit-log` | save, delete, import without backup | called by the editor, the import scripts, XML-RPC |
| Page editor, `action/edit.py`, `PageEditor`, `PageLock` | the form in the browser (revision number, text), `edit-lock`, a file of drafts per user | open, preview, save, cancel, load draft, delete, merge after a conflict | page storage, item cache, merge |
| Three-way merge, `util/diff3.py` | three positions, the merged lines | `text_merge` | called by the editor and by page synchronisation |
| Item cache, `Page.py` | per process: what is known of each page, position in the global edit-log | `get_rev`, `refresh` | reads page storage and the edit-log, shared by threads |
| Log files, `logfile/` | append-only files | `add`, `news`, iteration | storage writes, cache and many macros read |
| Directory locks, `util/lock.py` | lock directories and their ages | acquire and release of read and write locks, expiry | used by tag store, meta data, caches on win32 |
| Tag store, `wikisync.PickleTagStore` | one file per page | load, add | directory locks; called by `action/SyncPages.py` |
| Page synchronisation, `action/SyncPages.py`, `xmlrpc_getDiff` and `xmlrpc_mergeDiff` | the page and the tags of two wikis, a request's local variables, functions to roll back | list, diff, merge, save here and there, tag, roll back | editor, merge, tag store of both wikis |
| RPC aggregator, `util/rpc_aggregator.py` | handlers to visit, calls of the batch, a result slot per handler | rounds of visits, one MultiCall per round | runs the synchronisation's handlers |
| On-disk cache, `caching.py` | one file per entry | update (temporary file, rename), read, remove | used by search queue, surge protection, drafts, rendering |
| Indexer queue, `search/builtin.py` | a list of jobs in a cache entry | `put`, `mput`, `get`, `mget` | on-disk cache; used by the indexer |
| Search index, `search/Xapian/indexing.py`, `events/xapian_index.py` | documents of a Xapian database | jobs after every change, `do_queued_updates` | event handlers at the end of a save; reads page storage |
| Surge protection, `web/utils.py` | one file of recent requests | check | every request |
| Sessions, `web/session.py` | one file per session | get, finalize, destroy | every request |
| Users, authentication, ACLs, groups, events, jabber bot, mail, packages, rendering | profiles; otherwise little | | |

What makes these parts hard, and what has to be true of them:

- *Page storage.*  Writers race for a lock that is a file name; they poll for it
  a bounded number of times; an I/O error or a crash can happen between any two
  of some ten file operations.  Acknowledged saves must stay on disk under
  numbers of their own, readers must find complete texts, the logs must
  agree with the numbers, and a page must not stay locked.
- *Editor.*  Long conversations: many requests of other users lie between
  opening the editor and saving, every request consists of several reads that
  may see different states, and old forms come back.  No edit may vanish
  unnoticed, nothing a user sent may be lost, edit locks must be exclusive and
  be given back.
- *Merge.*  Index arithmetic on three sequences that drift apart.  No added line
  may vanish, a merge with an unchanged side is the other side, and every merge
  comes to an end.
- *Item cache.*  Threads read the disk, others drop entries, savers write the
  log before the page is back.  What is remembered must be current or about to
  be dropped.
- *Directory locks and tag store.*  Waiters remove the directories of others by
  name, judging them by age.  Writers must be alone, a failed attempt must leave
  nothing behind, and an added tag must stay.
- *Indexer queue and search index.*  Every change puts a job and then tries to do
  all jobs; the queue is a file that is read, changed and replaced, its lock does
  nothing on POSIX, jobs leave it before they are done, and what is done is not
  yet in the database.  No page may be left out of the index without a cause, and
  jobs may not be left behind.
- *Synchronisation.*  A dozen reads and writes in two wikis without a common lock;
  users edit meanwhile, another synchronisation may run the other way, calls fail
  after they were executed.  A wrong tag or a stale revision number makes a later
  merge drop text.  Tags must be true, edits must survive in one of the wikis, and
  an undisturbed synchronisation must end with equal texts, whatever the earlier
  ones left.
- *RPC aggregator.*  Handlers suspend at each call and are matched with results by
  position, across batches, with handlers put off when a batch is full.  A handler
  must get the result of its own call, and must not wait for ever.

`PROJECT.json` lists all components and the hazards at their lines.

## The modules

    RevisionHistory  <--implements--  PageStore
                                          |  (its granularity is assumed by)
                                      PageEditor ---- Merge3 abstracts ---- Diff3
                                          |
                                      ItemCache   (readers beside the same savers)

    DirLock  <--EXTENDS--  TagStore  <--(its adding of a tag is assumed by)--  PageSync
                                                                                |
                                                        RPCAggregator (delivers its results)

    JobQueue  <--implements--  IndexerQueue  <--EXTENDS--  SearchIndex

`PageStoreProofs`, `PageEditorProofs`, `Diff3Proofs`, `ItemCacheProofs`, `TagStoreProofs`,
`SearchIndexProofs`, `PageSyncProofs` and `RPCAggregatorProofs` hold the theorems about the
module each is named after and extends; `TagStoreProofs` begins with those about `DirLock`,
`SearchIndexProofs` with those about `IndexerQueue`.

Modules `MC*` add what TLC needs: model values, symmetry, sets of inputs.
Operators whose comment begins "Mutant of" are wrong variants of the definition
that follows them, as plausible bugs would make it; putting one in its place
makes the property listed for it in `PROJECT.json` fail, which shows that the
property depends on the code.

### RevisionHistory and PageStore

`PageStore` is `PageEditor._write_file` for one page, one action per file
operation.  `current`, `locked` and `tmp` are the files `current`,
`current-locked` and `current-locked.tmp` (the temporary file into which the new
number goes before it is renamed); `revisions` maps numbers to contents; `glog`
and `llog` are this page's lines in the two edit-logs.  `pc`, `job`, `rev`,
`retry`, `err` are a writer's position, arguments and local variables.  `serial`,
`acked`, `faults`, `crashes` are observations and bounds.

| Action | Code (`MoinMoin/PageEditor.py`) |
|---|---|
| `Begin` | entry; `was_deprecated` is taken from the body loaded earlier |
| `CheckDir`, `MakeDir`, `OpenCurrent`, `FlushCurrent` | 952-959, creation of the revisions directory and of `current` with 0 |
| `TryLock` | 961-978, rename `current` to `current-locked`, at most 100 tries |
| `ReadRev`, `WriteTmp`, `SwapTmp` | 980-1010, the next number, through the temporary file |
| `TruncateRevision`, `WriteRevision` | 1012-1023 |
| `LogGlobal`, `LogLocal` | 1034-1040 |
| `Unlock` | the `finally` block 1041-1043, and the return at 1049 |
| `IOFault`, `Crash` | an exception in any operation under the lock; a process that dies anywhere |

Abstractions: a text is the identity of the save that wrote it plus whether it
says `#deprecated` and whether it is complete; the creation of the page
directory and of the revisions directory are one step; a `rename` back that
fails is a death of the process (both leave `current-locked`); the event-log,
written after the unlock, and the underlay directory are left out.

`RevisionHistory` is the abstract page: a token, a head, a partial function
from numbers to texts, and a log.  `PageStore!ImplementsHistory` maps
`current`/`current-locked` to the token and the number in whichever of them
exists to the head; every file operation is a step of the abstract page or a
stutter.

### PageEditor

One page, several users, every request a process of its own that starts with an
empty item cache.  The actions `Open`, `LoadDraft`, `Preview`, `Save`, `Cancel`,
`Delete` start a request with any form the user was ever served; the others are
its steps: `LockRead`/`LockRemove`/`LockAdd` (`PageLock.acquire` reads, removes
and appends to `edit-lock`), `ShowAgain`/`FindConflict`/`FindRevision`/
`MergeEditConflict`/`Reread`/`SendForm` (`sendEditor`), `SayAlreadySaved`/
`RaiseEditConflict`/`RaiseUnchanged`/`PassChecks` (the checks of `saveText`),
`TakePage`/`CouldNotLock`/`PutRevision`/`GiveBack` (`_write_file` at the
granularity `PageStore` justifies: one owner, and the page unreadable between the
renames), `ReleaseRead`/`ReleaseRemove` (`PageLock.release`).

A text is a set of edits, and the merge keeps from each side what it added and
drops what one side removed (`Merge3`); how the real merge treats lines is
`Diff3`'s matter.  `exists()` followed by `current_rev()` is one read, because
the first fills the process's cache for the second.  Drafts are those of
logged-in users.  A lock expires only while no request is running: requests are
short compared with the timeout.

Observations: a form is *sound* unless the text it should show was not there
when it was served (the page was renamed away, or the merge had no original); a
request is *alone* unless a save or delete was writing while it ran; *lockRace*
becomes true when two requests update `edit-lock` at once.  They state exactly
where the program itself gives no guarantee; the properties say that nothing
goes wrong otherwise, however many requests of other users come in between.

### Diff3

`text_merge`/`merge`/`find_match`/`match`/`tripple_match` with the exact index
arithmetic.  An action is one turn of the main loop or of the search for a common
position.  Lines between conflict markers carry the side they are from.  The
module was compared with the Python function on randomly chosen texts, and the
two gave the same results.

`NothingAddedIsLost` asks that a line an author added is outside of conflicts or on
that author's side of one.  If both wrote the same text, it asks this of the new side
only: `merge` gives the rest of one of the two texts (`diff3.py:112`), and by then the
positions may have drifted apart, so that an added line is only on the new side of an
earlier conflict.  `AlwaysAhead` allows one thing one would not expect: when a conflict
ends, the position in *new* may go back, as `tripple_match` takes it from *old*
(`diff3.py:147`).  It then gets ahead in *old*, so that the merge ends all the same, but
lines of *new* are repeated.

### ItemCache

Threads (`Lookup`, `News`, `Forget`, `Move`, `ReadCurrent`, `ReadExists`,
`PutItem`, `Return`) ask for a page with `get_rev`, while savers of any process
(`Take`, `Write`, `Log`, `PutBack`, `PutBackUnlogged`, `Rename`) change pages in
those steps of `_write_file` a reader can tell apart.  `GetRev` and `After` start
the refresh; `editlog.news` reads the lines since a position, or only takes the
position the first time.

An entry is *raced* if one of the following happened between reading and
remembering: `current` was away after the line about the save had been
noticed; another thread read the line while this one held its old answer; the
first refresh passed over lines; the page changed without a line (an import
without backup, a save that failed after the new number was in place).
`FreshUnlessRaced` says that there is no other way for the cache to be wrong for
good.  A call is *amid* a save if one had begun whose line was not yet written; so is
one that had read a number under a name whose directory is then renamed away, once
another page takes the name (`HeldNumber`): it looks for the old number among the new
page's revisions.  `Unnoticed` are the lines about a page that no thread has
passed; they tell whether an answer in somebody's hands will still be put right.
Revision numbers stay below 99999999, the code's own value for "no `current`", so the
number of saves does too (`ConstantsAssumption`).

### DirLock and TagStore

`DirLock` has one `write_lock` directory and one `read_lock_` directory per
reader.  `Mkdir`, `MkdirFails`, `IsExpired`, `Expire`, `GiveUp` are
`ExclusiveLock.acquire`; `IsExpired` (the `stat`) and `Expire` (the `rmdir`) are two
steps, and both act on whatever has the name then.  `Mark` and `Unmark` are the
rest of `ReadLock.acquire`; `ExpireReadLocks`, `HaveReadLocks`, `GiveUpWrite` that of
`WriteLock.acquire`.  Instead of clocks, a directory may become old at any
moment if `MayExpire`.  `stolen` records that a directory was removed that a
living process relied on.

`TagStore` is `PickleTagStore` on top: `Start` acquires, `Load`, `AppendTag`,
`Open` (which truncates), `Dump`, `DumpFails` and `Release` are the work under the
lock, `Die` a crash.  Each client makes a store and adds one tag.

### JobQueue, IndexerQueue and SearchIndex

`IndexerQueue` is the queue of `search/builtin.py` on its `CacheEntry`
(`caching.py`).  `Enter` is the lock and the read of an operation, `Replace` the
temporary file that replaces the old one, `Leave` the unlock; `EnterBlind` is a
read that failed and is taken for an empty list (any `CacheError` is), `ReplaceFails` an
error in `update`, whose `finally` clause calls `close` and so may put the torn
temporary file in place, `TimesOut` a lock that was not free for a minute, `Die`
and `Expire` a death and the removal of the lock it left.  `locking` is "real"
where `LazyWriteLock` is a directory lock (win32) and "lazy" where it does nothing
(POSIX).

`JobQueue` is the atomic queue: put behind, take from the front, and lose what
waits, which is counted.  With a real lock `IndexerQueue!ImplementsQueue` holds: the
`Replace` is the moment at which the operation happens, and the only losses are
the two failures above.

`SearchIndex` extends the queue with the requests that use it.  A page is the
sequence of its revisions (the time of each, or that it is a deletion); documents
have a page, a revision number and a time.  `Save`, `Delete`, `Copy`, `Rename`, `Revert` change
pages and note the jobs the event handlers of `events/xapian_index.py` put
(`Revert` puts none); `QueuePages` and `IndexPagesQueued` are the script.  `Put`, `Take`
and `Write` compose the queue's steps with the request; `Connect` opens the database
or leaves the jobs to the indexer that has it; `ReadRevList`, `RemovePage`, `CheckExists`,
`IndexRev`, `RemoveRevs`, `IndexFails`, `Close` are `do_queued_updates` and `_index_page`;
`Crash` a death anywhere.  `index` is what the database has, `pending` what the open
connection has; a connection may flush at any time.

Observations: a page is *forgotten* once the code itself has lost its job (an
overwritten queue on POSIX, an error, a death, a revert without job, a document
`delete_document` did not see); *partial* when an update of it was interrupted;
a name is *reused* when a page takes it while the index has, or is about to get,
documents of the page that had it before; *unattended* says that jobs were left to a
later update.  `NothingForgotten`,
`HistoryComplete` and `JobsAtRest` say that there is no other way: each excuse is an
event of the code, and the interleavings around it have none.

### PageSync

One page of the same name in two wikis, users of both, and synchronisations
started in either, in both directions or downwards.  The actions follow
`handle_page`: `Start` and `ListRemote` (the two page lists), `Skip`, `DeleteLocal`, `DeleteRemote`, `Begin`
(the decisions of lines 320-398), `ReadDiff`/`ReadDiffNumber` (`xmlrpc_getDiff`
reads the text, then the number), `ReadBody`, `SaveLocal`, `ReadNumber`, then
`Check`/`MergeDiff`/`MergeTag` or `MergeDelete` on the other wiki (`xmlrpc_mergeDiff` checks the
revision, patches and saves, tags, and answers), `Accept`, `AddTag` and `Finish`,
with `RollBack` for a local change the other wiki did not accept.

Texts are sets of edits, with `Mark` for conflict markers; `Patched` says what a
binary patch may make of a text it was not made for, `Merge3` what the merge
keeps.  Saving is one step, as in `PageEditor`, and so is adding a tag, as `TagStore`
shows.  Faults are `CallFails` (a call raises, before or after the other wiki
executed it, or another page's handler raises), `Misled` (the Fault of a page
before this one is delivered, see `RPCAggregator`) and `Die` (the request is killed: nothing is rolled back).

Observations: *dropped* are edits that a user deleted or that the code takes out
by design or by its own account: the first or a downward synchronisation, the
deletion of a page changed since it was listed, a rollback.  `Overrun` is what a
deletion takes away beyond what was there when it was decided: what came since, and
also a text that was restored after the other side's deletion was noted.  `NoText` is
the text of a deleted page, a value of its own (`Gone`), because `mergeDiff` and the
tags tell it from an empty page.  *raced* is set when a
revision number was read after somebody had saved another revision (the code
reads text and number in two steps), or when the page appeared in the other wiki
after the list.  *quiet* says that nobody else has changed anything since the
synchronisation began; *synced* that a quiet one has just done its work.

### RPCAggregator

`scheduler` and `RPCYielder`: `Visit` takes the next handler of the round; `Defer`
puts it off because the batch is full, `Yields`, `Returns` and `Raises` are what the
handler does when resumed; `Multicall` sends the batch and hands out the results,
`MulticallFails` is an error of the connection.  One thread runs all of it, so a batch is one
step.  Handlers make any number of calls up to a bound; the calls in front of each
batch (`PreCalls`) are nobody's.  Results are taken from an iterator over
`MultiCallIterator.__getitem__`, which does not move on from an item that raises:
`Item` gives every later handler of the batch the first Fault.

## The runs

| Run | Instance | Shows |
|---|---|---|
| `page_store` | 2 writers, 3 saves, 2 tries for the lock, 1 I/O error, 1 crash | `SingleToken`, `TmpIsOwn`: the renames are a lock and install the right number; `AckedDurable`, `NumbersUnique`, `OldRevisionsFrozen`: acknowledged texts stay; `VisibleHead`, `HeadLogged`, `LocalLogIncreasing`: readers and logs; `ImplementsHistory`; `SaveEnds`, `PageUnlocked`: saves end and the page is free again unless somebody died |
| `delete_deprecated` | 1 writer, 2 saves | violated: `DeleteTakesEffect` |
| `page_editor` | 2 users, all lock settings, 3 edits, 4 requests (5 without locks), 1 expiry | `NoEditLost`, `FormShowsItsRevision`, `SavedOrDraft`, `LockReturned`, `StrictUnlessRaced` |
| `merge_new_page` | 2 users, 4 requests | violated: `MergeKeepsSaved` |
| `diff3` | texts of up to 5 lines over 2 lines, one change by each author or the same by both; 6 equal lines with up to 4 put in front | `NothingAddedIsLost`, `OnlyNewChanged`, `AlwaysAhead` |
| `diff3_other_only` | texts of up to 6 lines, one change by the other author | violated: `OnlyOtherChanged` |
| `item_cache` | 2 threads, 2 pages; 1 save of any kind and 4 calls, or 2 plain saves and 2 calls | `FreshUnlessRaced`, `ReturnsRecent` |
| `tag_store` | 3 processes, locks may grow old, processes may die | `ExclusionUnlessStolen`, `NothingLeft`, `TagsKept` |
| `lock_exclusion` | 3 processes, none slow, none dies | violated: `Exclusion` |
| `search_index` | 2 requests, 2 pages, real and lazy locks, with and without history; 3 changes, or 2 changes with an error, a death or a script | `NothingForgotten`: no page is left out of the index without a known cause; `HistoryComplete`; `JobsAtRest`; `ImplementsQueue` |
| `page_sync` | 2 wikis, 2 synchronisations, 3 changes by users, 1 fault | `TagsAgree`: tags tell the truth; `NoEditLost`; `InSync`: an undisturbed synchronisation makes the texts equal |
| `rpc_aggregator` | 4 handlers of at most 2 calls, batches of 2 with a token in front | `RightResult`, `AllEnd` |

Why the bounds are enough.  *PageStore*: two writers are all that can meet at one
rename; a third save is needed so that one can follow both a faulty one and its
successor; one error and one crash hit each operation in turn, and together.
Two tries show a writer that gets the lock late and one that gives up.
*PageEditor*: an edit conflict takes two editors, two saves and the save of the
merged text, which is five requests; with locks on, four requests are enough for
one user to take over the other's lock after its expiry and for both to save.
*Diff3*: a match needs three equal lines, so texts of five lines have a
match, a change and repetitions that mislead the search; lines in front of six equal
ones (`FarApart`) bring the positions so far apart that the one in *new* goes back.
Identical texts whose positions have drifted apart take 22 lines; they are covered
by the proofs.  *ItemCache*: the races
are between one save and two threads, or between two pages of a rename; long
sequences are covered by two saves.  *DirLock*: the waiter that judges, the owner
that leaves and the third that comes in between.  `TagStore` needs no more, and
the proofs do not depend on the number.  *SearchIndex*: one request leaves its jobs
while the other's indexer stops, and a rename concerns two pages; a third change is
needed for a revision behind one that is already up to date.  A name that is reused to
bad effect takes a fourth change; it is covered by the proofs.  *PageSync*: a tag
becomes wrong, if ever, when a synchronisation overlaps another or the users'
changes, and a half-finished one does harm in the next; both take two
synchronisations.  Three changes make one on each side and one in between.  What a
third synchronisation makes of two that overlapped is beyond the run, but not beyond
the proofs, which are for any number of them.  Nothing is claimed, or explored,
beyond a *raced* state (the constraint `NotRaced`), because it excuses all that
follows.  *RPCAggregator*: four handlers and batches of two put some off twice, and
`handle_page` makes no more than two calls.

Deadlock checking is off (with a comment in each `.cfg`) where the bounds make
every behaviour end; `lock_exclusion` has no such bound and stops at its
counterexample.

*Fairness.*  Two specifications have it.  `PageStore!Spec`: weak fairness of each writer's own steps
(`Step`), because a request thread the operating system runs goes on, whatever the
others do.  A crash is not fair, nor is anybody forced to start a save.  Since a
writer gives up after a bounded number of tries, it needs no fairness of the lock;
only `SaveEnds` and `PageUnlocked` depend on it.  `RPCAggregator!FairSpec`: weak fairness
of the next step, since the scheduler is one loop of one thread; only `AllEnd`
depends on it.

All other properties are safety properties.  `AlwaysAhead` stands for the
termination of the merge: every turn gets ahead by a line in texts of finite
length, in *old* or, while it stays there, in the other two.  As a property of steps
it says nothing of a turn that would change nothing at all, which would be a stuttering
step; the proof shows of every turn that it is ahead (`StepAhead`, for `Next` without
stuttering).

## What the checks found

Each is a run that TLC finishes with a counterexample; the `findings` of
`PROJECT.json` quote the documentation that says otherwise.

- `delete_deprecated`: deleting a page whose text is `#deprecated` neither takes a
  new number nor removes the text.  The page stays, the delete is reported.
- `merge_new_page`: two authors create a page; merging for the second one takes
  revision 0 for the current revision, so that the first one's text counts as
  the original that the second one replaced.
- `diff3_other_only`: a position in *old* minus a position in *other* is taken for a
  number of lines; once an earlier change has shifted the texts, a merge in which
  only *other* changed repeats or drops lines.
- `lock_exclusion`: a lock directory that is missing counts as expired, and by
  the time it is removed it may be somebody's new lock.

Met while modelling; the models contain the behaviour, where it is in their reach, and
the properties name it as an exception, but no documentation says otherwise, or
it needs no run to be seen:

- *Editor*: the race of `PageLock`, which the class itself notes (`lockRace` in
  `StrictUnlessRaced`).
- *Merge*: `tripple_match` computes the position it returns for *new* from the wrong
  base (`diff3.py:147`), so the three texts do not agree at the positions returned.
  The position may be before the one already reached, so that lines of *new* are
  written twice, or behind the end of *new* (found while proving `AlwaysAhead`, which
  used to say that no position goes back: *old* six equal lines, *other* five of them,
  *new* four others, three of them, another one and three of them).  Two authors who wrote the
  same text may get a conflict, with a line they both added on one side only (found
  while proving `NothingAddedIsLost`).
- *Item cache*: the edit-log line is written before `current` is back
  (`PageEditor.py:1037`); a reader between the two remembers for good that the page
  does not exist.  A number read in a directory that is renamed away is
  looked for among the revisions of the page that takes the name (`Page.py:399`,
  `PageEditor.renamePage`); this takes three pages, and came to light when the
  invariant of the proof was checked on them.
- *Queue*: on POSIX two overlapping operations drop each other's jobs, or do jobs
  twice.  Any error in reading the list, and a torn list, count as an empty queue
  (`builtin.py:57`), and `close` in a `finally` clause puts a torn file in place.
- *Index*: a revert puts no job (`events/xapian_index.py:71`); documents the open
  connection has not flushed are not found when a page is to be removed, and stay
  (`indexing.py:351`); a job leaves the queue before its page is indexed; an update
  refused because another indexer has the database leaves its jobs
  (`indexing.py:230`) even if that one has already found the queue empty.
- *Index, names used again* (found by the proofs, whose invariant failed here, and then
  confirmed by TLC on larger instances; `reused` names both cases).  With history: a page is
  saved, indexed and renamed away, and another page with an older history is copied to
  its name before the job for the old name is done.  `_index_page` meets a document of the
  former page that is newer, takes it for "already present in the index"
  (`indexing.py:374`) and stops: the text of the former page stays in the index under that
  revision, and older revisions are not indexed (3 pages, 4 changes).  Without history: a
  page with two revisions is renamed away, its name saved and deleted again before the
  job is done; only documents of revisions in the new page's list are removed, and the
  former page's second one stays for good (2 pages, 5 changes).
- *Aggregator*: after one Fault every later page of the batch is given that Fault
  (`rpc_aggregator.py:87`), though its call was executed; a batch may be one call
  longer than `max_calls`.
- *Synchronisation*: the revision number belongs to a later text than the one read
  or saved, if somebody saves in between; a page that appears in the other wiki
  between list and merge gets a patch against the empty text and a wrong, lasting
  tag, and one that appears here after the list is overwritten (number 0 is not
  compared); the first synchronisation replaces the local text
  (`SyncPages.py:424`), and a downward one drops local edits; deletions compare no
  revisions; a rollback saves the old text over whatever came since, and stays
  registered when the handler gives a page up; a page that was deleted on both
  sides without a tag ends the synchronisation of all pages;
  a deletion is handed on although the page it was learnt from has been restored
  meanwhile, and with what it takes away (found while proving `NoEditLost`, with
  three synchronisations; `Overrun` names it).

## The proofs

Checked by TLAPS for any number of writers, users, threads, pages, processes, clients,
synchronisations or handlers, texts of any length, and any values of the bounds.  The only assumptions are

- `ConstantsAssumption` (`PageStore`): the values for missing and empty files are not
  numbers and differ; there is at least one try for the lock;
- `ConstantsAssumption` (`PageEditor`): the lock settings are those of the
  configuration, an edit may be made, the bounds are numbers;
- `ConstantsAssumption` (`ItemCache`): the pages that exist at the beginning are pages,
  "no page" is none, and fewer than 99999998 saves begin;
- `InputsAssumption` (`Diff3`): what is merged are three sequences of lines;
- `LockAssumption` (`DirLock`): "no directory" is not a client;
- `QueueAssumption` (`IndexerQueue`): "nobody" and "a dead process" are not clients, a
  torn file is not a list of jobs, the bound is a number;
- `IndexAssumption` (`SearchIndex`): jobs are pages, of which there are finitely many; a
  deletion's mark is not a time; the bounds are numbers;
- `SyncAssumption` (`PageSync`): there are two wikis; the marks for a conflict and for a
  deleted page are no edits and differ; the bounds are numbers;
- `AggregatorAssumption` (`RPCAggregator`): finitely many handlers, the bounds are
  numbers, pre-calls are not handlers, and "no result" is not a result.

TLC evaluates all of them on the instances.

`PageStoreProofs` proves, in this order:

1. `TypeCorrect`: `Spec => []TypeOK`.
2. `LockInvariant`, hence `MutualExclusion` (`SingleToken`) and `SwapsOwnNumber`
   (`TmpIsOwn`).  `SingleToken` alone is not inductive: the creator of a page
   writes `current` without having the lock.  `LockInv` adds that there is one
   creator, that neither file exists until it has opened `current`, and that the
   number in `current-locked` stays readable.
3. `RevisionInvariant`: how the owner's `rev` relates to the number on disk at each
   step, and that no revision file lies beyond the head.  With it
   `RevisionsFrozen` (`OldRevisionsFrozen`).
4. `LogInvariant`: everything logged or acknowledged is at most the head, and less
   than what the owner is about to log.  Hence `NumbersAreUnique` and
   `LogIncreases`.
5. `HistoryImplemented` (`ImplementsHistory`): the save protocol implements
   `RevisionHistory`.  `LockInv` makes the owner of the lock the owner of the abstract
   token; there is one lemma for each kind of step (`LockMaps`, `SwapMaps`, `StoreMaps`,
   `RecordMaps`, `UnlockMaps`, `FaultMaps`; `OutsideMaps` and `InsideMaps` are stutters).
6. `AckedStaysOnDisk` (`AckedDurable`), from `FileInv`: a save that has written its
   file, acknowledged or not, finds its text there, because no two saves have the same
   identity (`IdInv`) and no owner writes below the head.
7. `HeadIsReadable` (`VisibleHead`) and `HeadIsLogged` (`HeadLogged`), from `HeadInv`: what
   holds of the head while nobody has the lock, and what the owner still has to do
   for it (`OwnerFacts`).  Only the owner's facts change in a step under the lock
   (`HeadOfOwner`).

`PageEditorProofs` rests on `EditorInvariant`: the types and, for each step of a request,
what its number, text and cached revision have to do with the page (`PathInv`,
`AloneInv` and the claims `GivenClaim`, `MergedClaim`, `LoadClaim`, `WriteClaim`), and that every
form and draft was made from the revision it names.  The properties say nothing of
requests between two steps, so none is inductive without the claims.  Results:
`TypeCorrect`, `FormsShowTheirRevision` (`FormShowsItsRevision`), `NoEditIsLost` (`NoEditLost`);
from `SentInv` (a sent text is in the request, the draft or the history)
`NothingSentIsLost` (`SavedOrDraft`); from `LockInv` and `RaceInv` (who the file names is
editing or about to; without a race one request at a time works on the file)
`LockComesBack` (`LockReturned`) and `StrictLocking` (`StrictUnlessRaced`).
`MergeKeepsSavedOfOldPages` is what remains true of `MergeKeepsSaved`, which the run
`merge_new_page` refutes: a merge keeps what was saved meanwhile if the author's form
has a number, so that the new page is the only exception.

`Diff3Proofs` proves all properties of the run `diff3`, for texts of any length.  The
searches are not computed but characterised: `MatchCounts` (`match` counts lines that agree,
and all of them up to its bound) and `FindMatchMeets` (`find_match` returns positions ahead
where three lines agree or *old* ends, and the ones it was given if three lines agree there).
Both rest on `MaxOf` and `MinOf`.  The cases:

1. `MergeTypeCorrect` (`TypeOK`): the positions stay in their texts.  What one side has changed
   is never more than what agrees on the other, so `j + NewChanged` and `k + OtherChanged`
   do; `OtherChanged`, a difference of positions in two texts, is positive when it is
   used (`OnlyOtherIsChanged`).
2. `MergeAlwaysAhead` (`AlwaysAhead`), with `SearchInv`: a search starts with one match
   really ahead (`ConflictMoves`: the three texts do not agree here), and goes on behind at
   least one line (`SearchMoves`: a match that is behind the other one is not at the end of
   *old*, so three lines agree).
3. `MergeLosesNothing` (`NothingAddedIsLost`), with `CoverInv`: what lies before the
   position in a text is in the result on its side, or a line of *old*.
4. `MergeKeepsNew` (`OnlyNewChanged`), with `SameInv`: if *other* is *old*, the positions in both are
   the same and what is written is the beginning of *new*; a conflict is only an
   insertion (`ConflictIsInsertion`), with nothing on the other side.

`MergeInvariant` has the three invariants together; TLC checked them on the instance of the
run before they were proved.  The mirror image of the fourth, for `new = old`, is what
`diff3_other_only` refutes; it fails at `OtherChanged`.

`ItemCacheProofs`: savers only leave threads as they are, mark what they make
unreliable, write a line or let threads see what they did, and readers change one
thread and the cache; so each invariant is proved for these few kinds of steps.
`TypeInvariant` has the bounds on numbers.  `FreshInvariant` (for `CacheIsFresh`,
`FreshUnlessRaced`) has three parts: `KnownInv` (the last finished save is what the disk
shows), `EntryInv` (a wrong entry is marked, or a line that every thread still heeds is
`Pending`) and `HoldInv`, the same for what a thread has read and not yet put.
`RecentInvariant` (for `ReturnsAreRecent`, `ReturnsRecent`) says of a call what it has seen
(`SeenInv`), what it read itself (`OwnInv`), what it will find in the cache (`CachedInv`) and
what others may put there first (`OthersInv`).

`PageSyncProofs` proves `TypeCorrect` with `NumberInv` (a number that will be tagged or rolled
back to exists).  `SyncInv` has the facts about the wikis, `MadeInv`, `TagsAgree` and `Kept`
(an edit once in a page stays in it or was dropped), and the claims, which say for
each step of a synchronisation what its variables have to do with the two pages:
the merge base is a text both had (`BaseClaim`), the remote text is the one
`mergeDiff` will compare (`RemoteClaim`), the merged text has all of both
(`MergedClaim`), what is tagged is what was saved (`SavedClaim`).  They hold however many other
synchronisations and users go on, because revisions are only added; what they say of
the current revision is guarded by its number.  From it follow `TagsTellTheTruth`
(`TagsAgree`) and `EditsSurvive` (`NoEditLost`: `MadeInv` and `Kept` put an edit that was not
dropped in the last revision of a wiki).  `AllQuietInv` adds what an undisturbed
synchronisation knows of the present, for `SynchronisationConverges` (`InSync`).

`TagStoreProofs` first proves that `IInv` of `DirLock` is inductive: the types, `NothingLeft`, and `Hold`:
unless something is stolen, who relies on a directory has it, and while a writer
is in there is no reader's directory.  `ExclusionUnlessStolen` alone is not
inductive, since it does not say why a reader that has made its directory is
still seen by the writer.  Results: `TypeHolds`, `NothingLeftHolds`,
`ExclusionHolds`.

It then shows that each step of the store is a step of its lock
(`LockStep`, `UsesLock`), so the lock's invariant carries over, and proves
`TagsKeptHolds` with `AtWork` (only who has the write lock is at work on the file)
and `InHand` (who is at work has all added tags in its hands, and the file is torn
only while one client writes it).

`SearchIndexProofs` first proves `QueueTypeCorrect` and that the queue with a real lock is the
atomic queue, `QueueImplemented` (`ImplementsQueue`).  The invariant adds `AloneAtWork`, which
says that an operation between its read and its write holds the lock, and that its
list is what the file still contains unless its read failed, and `IdleSees` (a client
that is not at work has not failed to read).  `InitMaps`
and `Simulation` map the initial states and every step; there is one lemma for each
kind of step (`PutMaps`, `TakeMaps`, `BlindMaps`, `FailureMaps`, `HiddenStep`).  Under
a lazy lock the property claims nothing (`LazyStep`).

It then proves all properties of `SearchIndex`, for any number of requests, pages
and changes, with and without history.  None of them is inductive: each speaks of a moment
(nobody at work, a job not waiting), and what makes it true is spread over the requests.
`IndexInv` at the end of `SearchIndex` is the conjunction the proofs build up; TLC checked it as an
invariant of the `search_index` instance before it was proved.

1. `TypedControl`, for `IndexTypeCorrect` (`TypeOK`): the types, and `ControlInv`, which operation
   of the queue a request is in at each stage, and that only the owner of the database is in
   the indexer.  In every step one request is `Alone` in changing its own variables.
2. `JobsInv`, for `IndexJobsAtRest` (`JobsAtRest`): while jobs wait and nothing was left unattended,
   some request `Attends`: it will take a job or has not yet found the queue empty.
3. `DocInv`: a document is of a revision the page has and is not newer than it, unless the
   name was reused or the page is gone.
4. `AttendInv` and `WorkInv`, for `IndexForgetsNothing` (`NothingForgotten`): each page `Waits` (its job
   is in the queue or still to be put), or has its newest revision among the documents, or
   some request `Handles` it; and what an update has left to do suffices (`WorkClaim`), unless
   the page has been changed since and so waits again.  A put that overwrites the queue on
   POSIX, and every error, is met by what the step adds to `forgotten`.
5. `CompleteInv`, for `IndexHistoryComplete` (`HistoryComplete`): below a revision that is indexed all
   are, or the one update of the page has them still to do (`Complete`); and what an update has
   to do is closed downward (`Downward`).  This is what makes it right to stop at the first
   revision that is up to date (`IndexRevComplete`).  It needs `DocInv`: a document that is not
   older is the revision's own (`UpToDateIndexed`).  At rest, `AttendInv` gives the newest
   revision and `CompleteInv` the others.
6. `IndexUsesAtomicQueue` (`ImplementsQueue`): each step is one of the queue, or leaves it alone, or is
   a death of a request that need not be using it (`QueueUse`), so the queue's invariant and
   its refinement carry over.

`RPCAggregatorProofs` proves `ResultsAreRight` (`RightResult`) and `BatchesBounded`: a batch has at
most `max_calls` + 1 calls, and each handler waits in one place only.  `RightResult`
alone says nothing of results not yet fetched, so the invariant adds `Scheduled` (a
handler is in the round or in the next one but not in both, and the batch is part
of the next round) and `Answered` (whoever has made a call has the result of its
last call in its slot, unless that call is in the batch to come).

Only model-checked: liveness (`SaveEnds`, `PageUnlocked`, `AllEnd`).  Out of the prover's
reach are liveness under fairness, `ENABLED`, and induction over data.  What is violated
(`DeleteTakesEffect`, `MergeKeepsSaved`, `OnlyOtherChanged`, `Exclusion`) has no theorem.

## What is not modelled

- Rendering (parsers, formatters, macros, themes, converters), translations,
  statistics, configuration: functions of their input, or data.
- ACLs, groups and anti-spam: functions of page texts and configuration.
- Authentication methods, mail, the rest of the XML-RPC facade: clients and servers
  of other programs, without shared state of their own.
- `renamePage` and `copyPage` as operations of storage (a rename appears as an
  environment step of `ItemCache`, both as steps of `SearchIndex`), attachments, the
  graphical editor, underlay pages.
- `wikiutil.MetaDict`: like `TagStore`, a dictionary under a directory lock.
- Surge protection, sessions, user profiles and the drafts file of several pages:
  files that are read, changed and written without a lock; the last write wins,
  and the code claims no more.  Their hazards are listed with this reason.
- `LineBuffer` (iteration of a log file that grows meanwhile), the notification bot:
  see the plan.
- Attachments in the index, a damaged Xapian database, an index rebuilt beside the
  old one.
- Page lists, name prefixes and pages that may not be written in `SyncPages`: they
  choose the pages; the modelled page is one that both sides may write.
- `support/` and `disabled/`: other projects' code.  They and the lexers, parsers,
  converters and themes are most of the tree, so that the modelled part is a small
  share of its lines; it is the part that keeps state several processes share.

## Plan

Done so far, in order of importance: page storage with its abstract
specification and proofs; the editor with proofs; the merge with proofs; the item
cache with proofs; directory locks and the tag store with proofs; the indexer queue with its
abstract specification and proofs; the search index with proofs; page synchronisation
with proofs; the aggregator with proofs.
Left:

1. Proofs: that only lines of the three texts are in the merge, and that the merge of two
   texts that change different lines has no conflict, where that is so.
2. `LineBuffer` iteration of a log file that grows meanwhile.
3. `renamePage` and `copyPage` at the granularity of directories, together with
   `PageStore`.
4. Several pages in one synchronisation: `PageSync` per page inside `RPCAggregator`.
5. Sessions (overlapping requests of one session, logout against save) and surge
   protection, with what their lost writes cost.
