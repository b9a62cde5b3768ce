------------------------------ MODULE PageStore ------------------------------
(***************************************************************************)
(* The on-disk protocol of PageEditor._write_file: how concurrent request  *)
(* processes put a new revision into one page directory.                   *)
(*                                                                         *)
(* The file `current` holds the number of the newest revision and is at    *)
(* the same time the page's write lock: a writer takes the lock by         *)
(* renaming it to `current-locked`, and gives it back by renaming it to    *)
(* `current` again.  Every file operation between two points where the     *)
(* operating system may run another process is an action of its own; a     *)
(* writer can be hit by an I/O error or die at each of them.               *)
(***************************************************************************)
EXTENDS Naturals, Sequences, FiniteSets

CONSTANTS
  Writers,     \* request processes saving this page (one PageEditor each)
  Missing,     \* what reading a file that does not exist gives
  Empty,       \* content of a `current` file created but not yet written
  MaxRetry,    \* attempts to rename `current` (100 in the code)
  MaxSaves,    \* bound: calls of _write_file in a behaviour
  MaxFaults,   \* bound: I/O errors in a behaviour
  MaxCrashes   \* bound: writers that die in a behaviour

ASSUME ConstantsAssumption ==
  /\ Missing \notin Nat /\ Empty \notin Nat /\ Missing # Empty
  /\ MaxRetry \in Nat \ {0}
  /\ MaxSaves \in Nat /\ MaxFaults \in Nat /\ MaxCrashes \in Nat

VARIABLES
  (* the page directory *)
  revdir,      \* does the directory `revisions` exist
  current,     \* content of `current`
  locked,      \* content of `current-locked`
  tmp,         \* content of `current-locked.tmp`
  revisions,   \* revision number -> content of its file in `revisions`
  glog,        \* this page's lines in the wiki's global edit-log
  llog,        \* the page's own edit-log
  (* the writers *)
  pc,          \* the next file operation of a writer
  job,         \* the save a writer is executing
  rev,         \* local variable `rev` of _write_file
  retry,       \* local variable `retry` of _write_file
  err,         \* an exception is on its way through the `finally` block
  (* observed, not part of the program *)
  serial,      \* number of saves started
  acked,       \* saves that returned to their caller without an exception
  faults,      \* number of I/O errors so far
  crashes      \* number of writers that died so far

disk    == <<revdir, current, locked, tmp, revisions, glog, llog>>
writer  == <<pc, job, rev, retry, err>>
history == <<serial, acked, faults, crashes>>
vars    == <<disk, writer, history>>

------------------------------------------------------------------------------
(* Contents of files, and what a save is. *)

FileContent == Nat \cup {Missing, Empty}

\* What a revision file holds: whose text, whether that text starts with the
\* #deprecated processing instruction, whether it was written completely, and
\* whether the save that wrote it reused the number of an existing revision.
RevisionFile == [id : 1..MaxSaves, depr : BOOLEAN, whole : BOOLEAN, inplace : BOOLEAN]

LogLine == [rev : Nat, id : 1..MaxSaves]

\* id: identity of the save; depr: the new text is deprecated; deleted and
\* backup: the keywords deleted and do_revision_backup; wasDepr: the value of
\* the local variable was_deprecated.
Job == [id : 0..MaxSaves, depr : BOOLEAN, deleted : BOOLEAN, backup : BOOLEAN,
        wasDepr : BOOLEAN]

NoJob == [id |-> 0, depr |-> FALSE, deleted |-> FALSE, backup |-> FALSE,
          wasDepr |-> FALSE]

\* Ways the callers use _write_file: an ordinary save, deletePage, and the
\* page import script run without revision backup.
Kinds == {k \in [deleted : BOOLEAN, backup : BOOLEAN] : k.deleted => k.backup}

PCs == {"idle", "check", "mkdir", "open", "flush", "lock", "read", "tmp",
        "swap", "trunc", "body", "glog", "llog", "unlock"}

\* From the successful rename to the rename back.
LockedPCs == {"read", "tmp", "swap", "trunc", "body", "glog", "llog", "unlock"}

Holds(w) == pc[w] \in LockedPCs

Put(f, k, v) == [x \in DOMAIN f \cup {k} |-> IF x = k THEN v ELSE f[x]]

\* A save that gets a revision number of its own.
Fresh(j) == ~j.wasDepr /\ j.backup

------------------------------------------------------------------------------
Init ==
  /\ revdir = FALSE
  /\ current = Missing /\ locked = Missing /\ tmp = Missing
  /\ revisions = [r \in {} |-> NoJob]
  /\ glog = <<>> /\ llog = <<>>
  /\ pc = [w \in Writers |-> "idle"]
  /\ job = [w \in Writers |-> NoJob]
  /\ rev = [w \in Writers |-> 0]
  /\ retry = [w \in Writers |-> 0]
  /\ err = [w \in Writers |-> FALSE]
  /\ serial = 0 /\ acked = {} /\ faults = 0 /\ crashes = 0

Goto(w, label) == pc' = [pc EXCEPT ![w] = label]

\* The exception leaves _write_file: the request is over.
Leave(w) ==
  /\ Goto(w, "idle")
  /\ job' = [job EXCEPT ![w] = NoJob]
  /\ rev' = [rev EXCEPT ![w] = 0]
  /\ retry' = [retry EXCEPT ![w] = 0]
  /\ err' = [err EXCEPT ![w] = FALSE]

\* Mutant of Fail: the exception bypasses the `finally` block.
FailUncaught(w) == Leave(w)

\* The exception enters the `finally` block.
Fail(w) ==
  /\ Goto(w, "unlock")
  /\ err' = [err EXCEPT ![w] = TRUE]
  /\ UNCHANGED <<job, rev, retry>>

\* Does the text a reader of the page gets now say #deprecated?
ReadsDeprecated ==
  /\ current \in DOMAIN revisions
  /\ revisions[current].whole /\ revisions[current].depr

(***************************************************************************)
(* The actions, in the order of the code.                                  *)
(***************************************************************************)

\* Entering _write_file: was_deprecated comes from the page body this request
\* has loaded, and is not looked at again under the lock.  (Nothing tells the
\* text of a deleting save apart: it is never stored.)
Begin(w, kind, depr) ==
  /\ pc[w] = "idle"
  /\ kind.deleted => ~depr
  /\ serial < MaxSaves
  /\ serial' = serial + 1
  /\ job' = [job EXCEPT ![w] = [id |-> serial + 1, depr |-> depr,
                                deleted |-> kind.deleted,
                                backup |-> kind.backup,
                                wasDepr |-> ReadsDeprecated]]
  /\ Goto(w, "check")
  /\ UNCHANGED <<disk, rev, retry, err, acked, faults, crashes>>

\* if not os.path.exists(revdir)
CheckDir(w) ==
  /\ pc[w] = "check"
  /\ Goto(w, IF revdir THEN "lock" ELSE "mkdir")
  /\ UNCHANGED <<disk, job, rev, retry, err, history>>

\* os.mkdir(revdir) raises if somebody else made it since the test.
MakeDir(w) ==
  /\ pc[w] = "mkdir"
  /\ \/ /\ ~revdir
        /\ revdir' = TRUE
        /\ Goto(w, "open")
        /\ UNCHANGED <<job, rev, retry, err>>
     \/ /\ revdir
        /\ Leave(w)
        /\ UNCHANGED revdir
  /\ UNCHANGED <<current, locked, tmp, revisions, glog, llog, history>>

\* file(cfn, 'w') creates the file with no content ...
OpenCurrent(w) ==
  /\ pc[w] = "open"
  /\ current' = Empty
  /\ Goto(w, "flush")
  /\ UNCHANGED <<revdir, locked, tmp, revisions, glog, llog, job, rev, retry,
                 err, history>>

\* Mutant of FlushCurrent: the 0 is written to the name `current`, not to the
\* file that was opened.
FlushByName(w) ==
  /\ pc[w] = "flush"
  /\ current' = 0
  /\ Goto(w, "lock")
  /\ UNCHANGED <<revdir, locked, tmp, revisions, glog, llog, job, rev, retry,
                 err, history>>

\* ... and f.close() writes the buffered 0 to that file, under whichever name
\* it has by then.
FlushCurrent(w) ==
  /\ pc[w] = "flush"
  /\ current' = IF current = Empty THEN 0 ELSE current
  /\ locked' = IF locked = Empty THEN 0 ELSE locked
  /\ Goto(w, "lock")
  /\ UNCHANGED <<revdir, tmp, revisions, glog, llog, job, rev, retry, err,
                 history>>

\* Mutant of Tries: the counter is not advanced.
TriesUncounted(w) == retry[w]

\* `retry` after this turn of the loop; the loop ends at MaxRetry.
Tries(w) == retry[w] + 1

\* Mutant of GivesUp: one turn too many.
GivesUpLate(w) == Tries(w) > MaxRetry

GivesUp(w) == Tries(w) >= MaxRetry

\* One turn of the retry loop: rename(current, current-locked).
TryLock(w) ==
  /\ pc[w] = "lock"
  /\ \/ /\ current # Missing
        /\ locked' = current
        /\ current' = Missing
        /\ Goto(w, "read")
        /\ UNCHANGED <<job, rev, retry, err>>
     \/ /\ current = Missing
        /\ ~GivesUp(w)
        /\ retry' = [retry EXCEPT ![w] = Tries(w)]
        /\ UNCHANGED <<current, locked, pc, job, rev, err>>
     \/ /\ current = Missing
        /\ GivesUp(w)
        /\ Leave(w)                                   \* CouldNotLock
        /\ UNCHANGED <<current, locked>>
  /\ UNCHANGED <<revdir, tmp, revisions, glog, llog, history>>

\* Mutants of NextRev: only the first save of a page makes a new revision; a
\* save of a deprecated page makes one as well.
NextRevOnce(j, n) == IF n = 0 THEN n + 1 ELSE n
NextRevAlways(j, n) == n + 1

\* The number this save will use, given the one read from the locked file.
NextRev(j, n) == IF ~j.wasDepr /\ (j.backup \/ n = 0) THEN n + 1 ELSE n

\* Read the number; an empty file is a damaged page.
ReadRev(w) ==
  /\ pc[w] = "read"
  /\ \/ /\ locked \in Nat
        /\ rev' = [rev EXCEPT ![w] = NextRev(job[w], locked)]
        /\ Goto(w, "tmp")
        /\ UNCHANGED <<job, retry, err>>
     \/ /\ locked = Empty
        /\ Fail(w)
  /\ UNCHANGED <<disk, history>>

WriteTmp(w) ==
  /\ pc[w] = "tmp"
  /\ tmp' = rev[w]
  /\ Goto(w, "swap")
  /\ UNCHANGED <<revdir, current, locked, revisions, glog, llog, job, rev,
                 retry, err, history>>

\* Mutant of AfterSwap: every save is treated as a delete.
AfterSwapDeleted(j) == "glog"

\* A delete stores no text.
AfterSwap(j) == IF j.deleted THEN "glog" ELSE "trunc"

\* rename(current-locked.tmp, current-locked)
SwapTmp(w) ==
  /\ pc[w] = "swap"
  /\ locked' = tmp
  /\ tmp' = Missing
  /\ Goto(w, AfterSwap(job[w]))
  /\ UNCHANGED <<revdir, current, revisions, glog, llog, job, rev, retry, err,
                 history>>

FileOf(w, whole) ==
  [id |-> job[w].id, depr |-> job[w].depr, whole |-> whole,
   inplace |-> rev[w] \in DOMAIN revisions
               /\ (revisions[rev[w]].id # job[w].id
                   \/ revisions[rev[w]].inplace)]

\* codecs.open(pagefile, 'wb') creates or truncates the revision file ...
TruncateRevision(w) ==
  /\ pc[w] = "trunc"
  /\ revisions' = Put(revisions, rev[w], FileOf(w, FALSE))
  /\ Goto(w, "body")
  /\ UNCHANGED <<revdir, current, locked, tmp, glog, llog, job, rev, retry,
                 err, history>>

\* ... and the text is complete when it is closed.
WriteRevision(w) ==
  /\ pc[w] = "body"
  /\ revisions' = Put(revisions, rev[w], FileOf(w, TRUE))
  /\ Goto(w, "glog")
  /\ UNCHANGED <<revdir, current, locked, tmp, glog, llog, job, rev, retry,
                 err, history>>

Line(w) == [rev |-> rev[w], id |-> job[w].id]

LogGlobal(w) ==
  /\ pc[w] = "glog"
  /\ glog' = IF job[w].backup THEN Append(glog, Line(w)) ELSE glog
  /\ Goto(w, "llog")
  /\ UNCHANGED <<revdir, current, locked, tmp, revisions, llog, job, rev,
                 retry, err, history>>

LogLocal(w) ==
  /\ pc[w] = "llog"
  /\ llog' = IF Fresh(job[w]) THEN Append(llog, Line(w)) ELSE llog
  /\ Goto(w, "unlock")
  /\ UNCHANGED <<revdir, current, locked, tmp, revisions, glog, job, rev,
                 retry, err, history>>

Receipt(w) == [id |-> job[w].id, rev |-> rev[w], deleted |-> job[w].deleted,
               fresh |-> Fresh(job[w])]

\* finally: rename(current-locked, current); then _write_file returns, or the
\* pending exception goes on to its caller.
Unlock(w) ==
  /\ pc[w] = "unlock"
  /\ current' = locked
  /\ locked' = Missing
  /\ acked' = IF err[w] THEN acked ELSE acked \cup {Receipt(w)}
  /\ Leave(w)
  /\ UNCHANGED <<revdir, tmp, revisions, glog, llog, serial, faults, crashes>>

\* An I/O error (disk full, permission, ...) at a file operation.  While the
\* page is locked the exception passes the `finally` block; the handler around
\* the temporary file tries to remove it and ignores a failure of that.
IOFault(w) ==
  /\ faults < MaxFaults
  /\ faults' = faults + 1
  /\ \/ /\ pc[w] \in {"mkdir", "open", "flush", "lock"}
        /\ Leave(w)
        /\ UNCHANGED tmp
     \/ /\ pc[w] \in LockedPCs \ {"unlock"}
        /\ Fail(w)
        /\ IF pc[w] = "tmp" THEN tmp' \in {Missing, Empty} ELSE UNCHANGED tmp
  /\ UNCHANGED <<revdir, current, locked, revisions, glog, llog, serial, acked,
                 crashes>>

\* The process dies; what it wrote stays as it is.  Nothing in the program
\* looks for a left-over current-locked.  (The rename back failing leaves the
\* same files behind as a death just before it.)
Crash(w) ==
  /\ crashes < MaxCrashes
  /\ pc[w] # "idle"
  /\ crashes' = crashes + 1
  /\ Leave(w)
  /\ UNCHANGED <<disk, serial, acked, faults>>

\* What a running _write_file does by itself.
Step(w) ==
  \/ CheckDir(w) \/ MakeDir(w) \/ OpenCurrent(w) \/ FlushCurrent(w)
  \/ TryLock(w) \/ ReadRev(w) \/ WriteTmp(w) \/ SwapTmp(w)
  \/ TruncateRevision(w) \/ WriteRevision(w)
  \/ LogGlobal(w) \/ LogLocal(w) \/ Unlock(w)

Next ==
  \E w \in Writers :
    \/ \E kind \in Kinds, depr \in BOOLEAN : Begin(w, kind, depr)
    \/ Step(w)
    \/ IOFault(w)
    \/ Crash(w)

\* A process that is inside _write_file is scheduled again and again; its
\* sleeps are finite.  Nothing forces new saves, errors or crashes.
Fairness == \A w \in Writers : WF_vars(Step(w))

Spec == Init /\ [][Next]_vars /\ Fairness
------------------------------------------------------------------------------
(***************************************************************************)
(* Properties.                                                             *)
(***************************************************************************)

Receipts == [id : 1..MaxSaves, rev : Nat, deleted : BOOLEAN, fresh : BOOLEAN]

DiskTypeOK ==
  /\ revdir \in BOOLEAN
  /\ current \in FileContent /\ locked \in FileContent /\ tmp \in FileContent
  /\ DOMAIN revisions \subseteq Nat
  /\ revisions = [r \in DOMAIN revisions |-> revisions[r]]
  /\ \A r \in DOMAIN revisions : revisions[r] \in RevisionFile
  /\ glog \in Seq(LogLine) /\ llog \in Seq(LogLine)

WriterTypeOK ==
  /\ pc \in [Writers -> PCs]
  /\ job \in [Writers -> Job]
  /\ rev \in [Writers -> Nat]
  /\ retry \in [Writers -> 0..(MaxRetry - 1)]
  /\ err \in [Writers -> BOOLEAN]
  /\ \A w \in Writers : pc[w] # "idle" => job[w].id # 0

HistoryTypeOK ==
  /\ serial \in 0..MaxSaves
  /\ acked \subseteq Receipts
  /\ faults \in 0..MaxFaults /\ crashes \in 0..MaxCrashes

\* Every variable has its type; the revisions directory is a partial function
\* and every writer inside _write_file executes a numbered save.
TypeOK == DiskTypeOK /\ WriterTypeOK /\ HistoryTypeOK

\* The rename protocol is a lock: `current` and `current-locked` never exist
\* together, at most one writer is between the two renames, it is there only
\* while `current-locked` exists, and `current-locked` without such a writer
\* is what a dead process left behind.
SingleToken ==
  /\ current = Missing \/ locked = Missing
  /\ \A v, w \in Writers : Holds(v) /\ Holds(w) => v = w
  /\ (\E w \in Writers : Holds(w)) => locked # Missing
  /\ locked # Missing => (\E w \in Writers : Holds(w)) \/ crashes > 0

\* The number the temporary file replaces is always the one its owner computed:
\* a swap never installs another writer's, or a half-written, number.
TmpIsOwn == \A w \in Writers : pc[w] = "swap" => tmp = rev[w]

\* A save that returned without an exception is on disk for good: its revision
\* file holds its complete text, unless a save that was meant to reuse an
\* existing number (deprecated page, no revision backup) replaced it.
AckedDurable ==
  \A a \in acked :
    ~a.deleted =>
      /\ a.rev \in DOMAIN revisions
      /\ \/ revisions[a.rev].id = a.id /\ revisions[a.rev].whole
         \/ revisions[a.rev].id # a.id /\ revisions[a.rev].inplace

\* Two saves that each made a new revision got different numbers.
NumbersUnique ==
  \A a, b \in acked : a.fresh /\ b.fresh /\ a.rev = b.rev => a = b

\* The page's own edit-log lists revision numbers in strictly increasing
\* order: Page.py and the conflict check of saveText walk it by number.
LocalLogIncreasing ==
  \A i, j \in DOMAIN llog : i < j => llog[i].rev < llog[j].rev

\* Number n is that of a complete text, or of a delete that was acknowledged.
Readable(n) ==
  \/ n \in DOMAIN revisions /\ revisions[n].whole
  \/ n \notin DOMAIN revisions /\ \E a \in acked : a.deleted /\ a.rev = n

\* A reader that can read `current` finds a complete text under that number,
\* or a page that an acknowledged delete removed; nothing else short of an I/O
\* error or a crash makes a page look torn or deleted.
VisibleHead == current \in Nat \ {0} /\ faults = 0 => Readable(current)

\* Number n is the newest in the page's log.
LoggedLast(n) ==
  \/ llog # <<>> /\ llog[Len(llog)].rev = n
  \/ llog = <<>> /\ n = 1

\* Unless an I/O error got in the way, the page's log accounts for the number a
\* reader sees: the newest logged revision is the current one.  (The first
\* revision made without revision backup is the one that is never logged.)
HeadLogged == current \in Nat \ {0} /\ faults = 0 => LoggedLast(current)

\* A delete that returns without an exception leaves no text under the number a
\* reader gets.  (deletePage promises this; a save that reuses the number of a
\* deprecated page does not keep it.)
DeleteTakesEffect ==
  [][\A a \in acked' \ acked : a.deleted => a.rev \notin DOMAIN revisions']_acked

FrozenStep ==
  \A r \in DOMAIN revisions :
    \/ r \in DOMAIN revisions' /\ revisions'[r] = revisions[r]
    \/ \E w \in Writers :
         /\ Holds(w) /\ rev[w] = r
         /\ ~Fresh(job[w]) \/ revisions[r].id = job[w].id

\* No step changes the content of an existing revision file, except the steps
\* of the one writer that owns the page and that either reuses this number or
\* is still writing the file it just created.
OldRevisionsFrozen == [][FrozenStep]_revisions

\* What a page's storage amounts to (module RevisionHistory): the token is the
\* one `current` file, the head the number in it wherever it is.
TokenFile == IF locked # Missing THEN locked ELSE current

HeadRev == IF TokenFile \in Nat THEN TokenFile ELSE 0

Token == IF locked # Missing THEN "held"
         ELSE IF current # Missing THEN "free" ELSE "absent"

Owner == {w \in Writers : Holds(w)}

LoggedRevs == [i \in DOMAIN llog |-> llog[i].rev]

Abstract == INSTANCE RevisionHistory WITH
  Texts <- RevisionFile, token <- Token, owner <- Owner, head <- HeadRev,
  pages <- revisions, log <- LoggedRevs

\* The rename protocol with its files, retries, errors and crashes implements
\* the abstract page.
ImplementsHistory == Abstract!Spec

\* A call of _write_file ends: it returns, raises, or its process dies.
SaveEnds == \A w \in Writers : pc[w] # "idle" ~> pc[w] = "idle"

\* A locked page is unlocked again, if no writer dies.
PageUnlocked == locked # Missing ~> (current # Missing \/ crashes > 0)

------------------------------------------------------------------------------
(***************************************************************************)
(* Inductive strengthenings, used by PageStoreProofs.                      *)
(***************************************************************************)

\* SingleToken, and how the token comes into being: one creator, and no token
\* before it; a number its owner has read or prepared is not damaged afterwards.
LockInv ==
  /\ SingleToken
  /\ \A v, w \in Writers :
       pc[v] \in {"open", "flush"} /\ pc[w] \in {"open", "flush"} => v = w
  /\ \A w \in Writers : pc[w] \in {"open", "flush"} => revdir
  /\ \A w \in Writers : pc[w] = "open" => current = Missing /\ locked = Missing
  /\ ~revdir => current = Missing /\ locked = Missing
  /\ \A w \in Writers :
       pc[w] \in LockedPCs \ {"read", "unlock"} => locked \in Nat
  /\ TmpIsOwn

\* How the owner's local `rev` relates to the number on disk.
OwnRev(w) ==
  /\ pc[w] \in {"tmp", "swap"} => rev[w] = NextRev(job[w], locked)
  /\ pc[w] \in {"trunc", "body", "glog", "llog"} => rev[w] = locked
  /\ pc[w] \in {"trunc", "body"} => rev[w] > 0
  /\ pc[w] = "unlock" /\ ~err[w] => rev[w] = locked
  /\ err[w] => pc[w] = "unlock"

\* No revision file lies beyond the head, and a save with a number of its own
\* finds no file there until it has made one itself.
RevInv ==
  /\ \A w \in Writers : OwnRev(w)
  /\ \A w \in Writers : pc[w] # "idle" /\ job[w].wasDepr => HeadRev > 0
  /\ DOMAIN revisions \subseteq 1..HeadRev
  /\ \A w \in Writers : pc[w] = "trunc" /\ Fresh(job[w]) =>
       rev[w] \notin DOMAIN revisions
  /\ \A w \in Writers : pc[w] = "body" =>
       rev[w] \in DOMAIN revisions /\ revisions[rev[w]].id = job[w].id

\* The number on disk is the one this writer put there.
Numbered(w) ==
  pc[w] \in {"trunc", "body", "glog", "llog"} \/ (pc[w] = "unlock" /\ ~err[w])

\* Everything logged or acknowledged is at most the head, and before what the
\* owner is about to log or acknowledge as new.
LogInv ==
  /\ LocalLogIncreasing /\ NumbersUnique
  /\ \A i \in DOMAIN llog : llog[i].rev <= HeadRev
  /\ \A a \in acked : a.rev <= HeadRev
  /\ \A w \in Writers : Numbered(w) /\ Fresh(job[w]) =>
       /\ \A a \in acked : a.rev < rev[w]
       /\ pc[w] # "unlock" => \A i \in DOMAIN llog : llog[i].rev < rev[w]

\* Every save has an identity of its own.
IdInv ==
  /\ \A w \in Writers : pc[w] # "idle" => job[w].id <= serial
  /\ \A v, w \in Writers :
       pc[v] # "idle" /\ pc[w] # "idle" /\ job[v].id = job[w].id => v = w
  /\ \A a \in acked :
       /\ a.id <= serial
       /\ \A w \in Writers : pc[w] # "idle" => job[w].id # a.id

\* The owner has written its text, if there is one to write.
Written(w) == pc[w] \in {"glog", "llog"} \/ (pc[w] = "unlock" /\ ~err[w])

\* What is acknowledged, or is about to be, is in the revision files.
FileInv ==
  /\ IdInv /\ AckedDurable
  /\ \A w \in Writers : Written(w) /\ ~job[w].deleted =>
       /\ rev[w] \in DOMAIN revisions
       /\ revisions[rev[w]].id = job[w].id /\ revisions[rev[w]].whole

\* The owner has not put its own number on disk yet.
BeforeSwap(w) == pc[w] \in {"read", "tmp", "swap"}

\* Numbers that were put on disk or logged are positive.
PositiveInv ==
  /\ \A w \in Writers : Numbered(w) => rev[w] > 0
  /\ \A i \in DOMAIN llog : llog[i].rev > 0

\* VisibleHead and HeadLogged also while the page is locked: of the old number until
\* the new one is on disk, and of the new one when the owner is about to give it back.
OwnerFacts(w) ==
  /\ BeforeSwap(w) /\ locked \in Nat \ {0} => Readable(locked) /\ LoggedLast(locked)
  /\ Written(w) /\ job[w].deleted /\ rev[w] \in DOMAIN revisions
       => revisions[rev[w]].whole
  /\ Numbered(w) /\ (Fresh(job[w]) => pc[w] = "unlock") => LoggedLast(rev[w])
  /\ pc[w] = "unlock" /\ err[w] => locked \notin Nat \ {0}

HeadFacts ==
  /\ current \in Nat \ {0} => Readable(current) /\ LoggedLast(current)
  /\ \A w \in Writers : OwnerFacts(w)

HeadInv == PositiveInv /\ (faults = 0 => HeadFacts)
==============================================================================
