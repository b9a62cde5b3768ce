----------------------------- MODULE PageEditor -----------------------------
(***************************************************************************)
(* Editing one wiki page through the browser: action/edit.py with          *)
(* PageEditor.sendEditor, saveText and mergeEditConflict, and PageLock.    *)
(*                                                                         *)
(* Every request runs in a process of its own; a user has one request at a *)
(* time but may submit any editor form ever served to it (Back button,     *)
(* second tab).  A text is the set of the edits it contains, so that an    *)
(* edit somebody made and nobody took back can be seen to disappear.       *)
(*                                                                         *)
(* The page's storage has the granularity module PageStore was shown to    *)
(* have: one owner at a time, and between taking the page and giving it    *)
(* back the page cannot be read.                                           *)
(***************************************************************************)
EXTENDS Integers, Sequences, FiniteSets

CONSTANTS
  Users,
  LockModes,     \* the settings of cfg.edit_locking to look at
  MaxEdits,      \* bound: edits typed in a behaviour
  MaxRequests,   \* bound, by setting: requests in a behaviour
  MaxExpiries    \* bound: times an edit lock times out

ASSUME ConstantsAssumption ==
  /\ LockModes \subseteq {"none", "warn", "lock"}
  /\ MaxEdits \in Nat \ {0} /\ MaxRequests \in [LockModes -> Nat] /\ MaxExpiries \in Nat

VARIABLES
  lockMode,  \* cfg.edit_locking; never changes
  (* the page directory *)
  head,      \* the number in `current`, wherever that file is
  pages,     \* revision number -> text; a deleted revision has none
  log,       \* the edit-log: who saved which revision
  holder,    \* the user whose request has renamed `current` away
  lockFile,  \* lines of the file edit-lock
  (* per user *)
  pc,        \* the next step of the user's request
  req,       \* the request
  view,      \* what the process has cached about the page (Page.get_rev)
  forms,     \* the editor forms served to the user
  draft,     \* the user's draft of the page, with the revision it is based on
  (* observed, not part of the program *)
  sent,      \* the text the user sent last, and how
  editing,   \* an editor is open: a form was served and not saved or cancelled
  told,      \* the user was told that others are locked out, which is not over
  lockRace,  \* two requests were updating edit-lock at the same time
  edits, requests, expiries   \* counters for the bounds

page     == <<lockMode, head, pages, log>>
disk     == <<page, holder, lockFile>>
session  == <<pc, req, view, forms, draft>>
counters == <<edits, requests, expiries>>
observed == <<sent, editing, told, lockRace, counters>>
vars     == <<disk, session, observed>>

------------------------------------------------------------------------------
Edit == 1..MaxEdits
Text == SUBSET Edit

\* get_current_from_pagedir: there is no readable `current`.
NoRev == 99999999

\* The editor form: the hidden field `rev` and the text area.  sound is an
\* observation: no other request was writing while the form was made, and
\* neither was it for the forms it descends from, the first of which showed an
\* existing revision.
Form == [rev : Nat, text : Text, sound : BOOLEAN]

\* What the request is, the form and text that came with it, the body of the
\* PageEditor object, how sendEditor is to fill the text area, the revision it
\* will send, and (observed) whether no other request wrote since it began.
Request == [kind : {"none", "open", "preview", "draft", "save", "saved",
                    "cancel", "delete"},
            rev : Nat, text : Text, sound : BOOLEAN,
            body : Text, show : {"load", "given", "merged"}, alone : BOOLEAN]

NoForm == [rev |-> 0, text |-> {}, sound |-> FALSE]

NoRequest == [kind |-> "none", rev |-> 0, text |-> {}, sound |-> FALSE,
              body |-> {}, show |-> "load", alone |-> FALSE]

\* What the process remembers of the page: the length of the edit-log it has
\* seen (-1: it has not looked), the number of the current revision, and
\* whether it exists.
View == [pos : Nat \cup {-1}, rev : Nat, exists : BOOLEAN]

NoView == [pos |-> -1, rev |-> NoRev, exists |-> FALSE]

LockLine == [owner : Users, stale : BOOLEAN]

PCs == {"idle", "lockRead", "lockRemove", "lockAdd", "revision", "merge",
        "reread", "form", "check", "write", "put", "unlock", "releaseRead",
        "releaseRemove"}

\* Between reading edit-lock and acting on what was read.
LockPCs == {"lockRemove", "lockAdd", "releaseRemove"}

Put(f, k, v) == [x \in DOMAIN f \cup {k} |-> IF x = k THEN v ELSE f[x]]

TextOf(r) == IF r \in DOMAIN pages THEN pages[r] ELSE {}

\* What Page.get_rev finds on the disk ...
Disk == [pos    |-> Len(log),
         rev    |-> IF holder = {} /\ head > 0 THEN head ELSE NoRev,
         exists |-> holder = {} /\ head \in DOMAIN pages]

\* ... which is asked only if the edit-log has grown since the last time.
Read(u) == IF view[u].pos = Len(log) THEN view[u] ELSE Disk

Remember(u) == view' = [view EXCEPT ![u] = Read(u)]

Goto(u, label) == pc' = [pc EXCEPT ![u] = label]

\* diff3, on sets of edits: what one side added is added, what one side took
\* out is taken out.
Merge3(original, saved, mine) ==
  (saved \cap mine) \cup (saved \ original) \cup (mine \ original)

\* The page is still to be created, or somebody has imported it.
Init ==
  /\ lockMode \in LockModes
  /\ head \in {0, 1} /\ pages = [r \in 1..head |-> {1}] /\ edits = head
  /\ log = <<>> /\ holder = {}
  /\ lockFile = <<>>
  /\ pc = [u \in Users |-> "idle"]
  /\ req = [u \in Users |-> NoRequest]
  /\ view = [u \in Users |-> NoView]
  /\ forms = [u \in Users |-> {}]
  /\ draft = [u \in Users |-> NoForm]
  /\ sent = [u \in Users |-> [kind |-> "none", text |-> {}]]
  /\ editing = [u \in Users |-> FALSE]
  /\ told = [u \in Users |-> FALSE]
  /\ lockRace = FALSE
  /\ requests = 0 /\ expiries = 0

------------------------------------------------------------------------------
(* A request arrives, in a process that knows nothing of the page yet. *)

Arrive(u, kind, form, label) ==
  /\ pc[u] = "idle"
  /\ requests < MaxRequests[lockMode]
  /\ requests' = requests + 1
  /\ Goto(u, label)
  /\ req' = [req EXCEPT ![u] =
       [kind |-> kind, rev |-> form.rev, text |-> form.text,
        sound |-> form.sound /\ (kind = "open" \/ form.rev # 0),
        body |-> form.text, show |-> IF kind = "open" THEN "load" ELSE "given",
        alone |-> holder = {}]]
  /\ view' = [view EXCEPT ![u] = NoView]
  /\ UNCHANGED <<disk, forms, editing, told, lockRace, expiries>>

Open(u) ==
  /\ Arrive(u, "open", [NoForm EXCEPT !.sound = TRUE], "lockRead")
  /\ UNCHANGED <<draft, sent, edits>>

LoadDraft(u) ==
  /\ draft[u] # NoForm
  /\ Arrive(u, "draft", draft[u], "lockRead")
  /\ UNCHANGED <<draft, sent, edits>>

\* The user sends a form, as it was served or with one more edit in it.
Typed(f) == {f.text} \cup {f.text \cup {e} : e \in {edits + 1} \cap Edit}

\* Mutant of DraftOf: only Cancel saves a draft.
DraftOfCancelled(u, kind, form) ==
  IF kind = "cancel" THEN [draft EXCEPT ![u] = form] ELSE draft

\* saveText and sendCancel begin by saving a draft.
DraftOf(u, kind, form) ==
  IF kind = "preview" THEN draft ELSE [draft EXCEPT ![u] = form]

Submit(u, kind, label) ==
  \E f \in forms[u] : \E t \in Typed(f) \ {{}} :
    /\ Arrive(u, kind, [f EXCEPT !.text = t], label)
    /\ edits' = IF t = f.text THEN edits ELSE edits + 1
    /\ sent' = [sent EXCEPT ![u] = [kind |-> kind, text |-> t]]
    /\ draft' = DraftOf(u, kind, [f EXCEPT !.text = t])

Preview(u) == Submit(u, "preview", "lockRead")

Save(u) == Submit(u, "save", "check")
Cancel(u) == Submit(u, "cancel", "releaseRead")

\* deletePage: saveText with revision 0, and without drafts.
Delete(u) ==
  /\ Arrive(u, "delete", NoForm, "check")
  /\ UNCHANGED <<draft, sent, edits>>

Finish(u) ==
  /\ Goto(u, "idle")
  /\ req' = [req EXCEPT ![u] = NoRequest]
  /\ view' = [view EXCEPT ![u] = NoView]

------------------------------------------------------------------------------
(* PageLock: the file edit-lock is read, removed and written in three steps. *)

\* Only the first line of the file counts.
Granted(u, line) == line.owner = u \/ line.stale

Grants(u) == \A i \in DOMAIN lockFile \cap {1} : Granted(u, lockFile[i])

\* Two requests act on what they read of edit-lock at the same time.
Races(u) == \E v \in Users \ {u} : pc[v] \in LockPCs

\* Whoever sends a text of its own gets the editor without the lock, too.
Insists(u) == req[u].kind \in {"preview", "save"} /\ req[u].show = "given"

LockRead(u) ==
  /\ pc[u] = "lockRead"
  /\ \/ /\ lockMode # "none" /\ Grants(u)
        /\ Goto(u, "lockRemove")
        /\ lockRace' = (lockRace \/ Races(u))
        /\ UNCHANGED <<req, view>>
     \/ /\ lockMode # "none" => ~Grants(u) /\ (lockMode = "warn" \/ Insists(u))
        /\ Goto(u, "revision")
        /\ UNCHANGED <<req, view, lockRace>>
     \/ /\ lockMode = "lock" /\ ~Grants(u) /\ ~Insists(u)
        /\ Finish(u)
        /\ UNCHANGED lockRace
  /\ UNCHANGED <<disk, forms, draft, sent, editing, told, counters>>

LockRemove(u) ==
  /\ pc[u] = "lockRemove"
  /\ lockFile' = <<>>
  /\ Goto(u, "lockAdd")
  /\ UNCHANGED <<page, holder, req, view, forms, draft, observed>>

\* ... and the user reads that others are locked out.
LockAdd(u) ==
  /\ pc[u] = "lockAdd"
  /\ lockFile' = Append(lockFile, [owner |-> u, stale |-> FALSE])
  /\ told' = [told EXCEPT ![u] = TRUE]
  /\ Goto(u, "revision")
  /\ UNCHANGED <<page, holder, req, view, forms, draft, sent,
                 editing, lockRace, counters>>

\* After PageLock.release: an unchanged text goes back to the editor,
\* everything else is done.
Released(u) ==
  /\ told' = [told EXCEPT ![u] = FALSE]
  /\ IF req[u].kind = "save"
     THEN Goto(u, "lockRead") /\ UNCHANGED <<req, view, editing>>
     ELSE /\ Finish(u)
          /\ editing' = [editing EXCEPT ![u] = @ /\ req[u].kind = "delete"]

\* Mutants of Owns: release(force=True); a lock that timed out is not ours.
OwnsForced(u) == lockFile # <<>>
OwnsInTime(u) ==
  \E i \in DOMAIN lockFile \cap {1} :
    lockFile[i].owner = u /\ ~lockFile[i].stale

Owns(u) == \E i \in DOMAIN lockFile \cap {1} : lockFile[i].owner = u

ReleaseRead(u) ==
  /\ pc[u] = "releaseRead"
  /\ \/ /\ Owns(u)
        /\ Goto(u, "releaseRemove")
        /\ lockRace' = (lockRace \/ Races(u))
        /\ UNCHANGED <<req, view, editing, told>>
     \/ /\ ~Owns(u)
        /\ Released(u)
        /\ UNCHANGED lockRace
  /\ UNCHANGED <<disk, forms, draft, sent, counters>>

ReleaseRemove(u) ==
  /\ pc[u] = "releaseRemove"
  /\ lockFile' = <<>>
  /\ Released(u)
  /\ UNCHANGED <<page, holder, forms, draft, sent, lockRace,
                 counters>>

\* The locking period passes without a request: far longer than one takes.
Expire ==
  /\ expiries < MaxExpiries
  /\ lockFile # <<>>
  /\ \A u \in Users : pc[u] = "idle"
  /\ expiries' = expiries + 1
  /\ lockFile' = [i \in DOMAIN lockFile |->
                    [lockFile[i] EXCEPT !.stale = TRUE]]
  /\ told' = [u \in Users |-> FALSE]
  /\ UNCHANGED <<page, holder, session, sent, editing, lockRace,
                 edits, requests>>

------------------------------------------------------------------------------
(* sendEditor, once the lock is dealt with. *)

\* A form without the text it should show is not sound.
Serve(u, form) ==
  /\ forms' = [forms EXCEPT ![u] = @ \cup
       {[form EXCEPT !.sound = req[u].sound /\ req[u].alone
                               /\ (form.rev # 0 => form.text # {})]}]
  /\ editing' = [editing EXCEPT ![u] = TRUE]
  /\ Finish(u)

FormOf(u, t) == [rev |-> req[u].rev, text |-> t, sound |-> FALSE]

\* Is the revision the form was based on still the current one?
Conflict(u) ==
  IF Read(u).exists THEN req[u].rev # Read(u).rev ELSE req[u].rev # 0

\* A text that fits the page is shown again, and a previewed one kept as draft.
ShowAgain(u) ==
  /\ pc[u] = "revision" /\ req[u].show = "given"
  /\ ~Conflict(u)
  /\ Serve(u, FormOf(u, req[u].text))
  /\ draft' = IF req[u].kind = "draft" THEN draft
              ELSE [draft EXCEPT ![u] =
                      [FormOf(u, req[u].text) EXCEPT !.sound = req[u].sound]]
  /\ UNCHANGED <<disk, sent, told, lockRace, counters>>

\* A text that does not is merged, or dropped if there is no page any more.
FindConflict(u) ==
  /\ pc[u] = "revision" /\ req[u].show = "given"
  /\ Conflict(u)
  /\ Remember(u)
  /\ Goto(u, IF Read(u).exists THEN "merge" ELSE "form")
  /\ req' = [req EXCEPT ![u].show = "merged"]
  /\ UNCHANGED <<disk, forms, draft, observed>>

\* Without a text to show: the current revision, or 0 for a page to create.
FindRevision(u) ==
  /\ pc[u] = "revision" /\ req[u].show # "given"
  /\ Remember(u)
  /\ req' = [req EXCEPT ![u].rev = IF Read(u).exists THEN Read(u).rev ELSE 0]
  /\ Goto(u, "form")
  /\ UNCHANGED <<disk, forms, draft, observed>>

\* Mutant of Merged: the caller does not take over the merged text.
MergedMine(u) == req[u].body

\* mergeEditConflict.  Revision 0 as the original is the current text.
Merged(u) ==
  LET saved    == TextOf(Read(u).rev)
      original == IF req[u].rev = 0 THEN saved ELSE TextOf(req[u].rev)
  IN  Merge3(original, saved, req[u].body)

\* Called by sendEditor, which then looks up the revision again, or (the text
\* is still as given) by the handler of EditConflict, which sends the editor.
\* An empty result counts as a failure.
MergeEditConflict(u) ==
  /\ pc[u] = "merge"
  /\ Remember(u)
  /\ req' = [req EXCEPT ![u].show = "merged",
                        ![u].body = IF Merged(u) = {} THEN @ ELSE Merged(u)]
  /\ Goto(u, IF req[u].show = "given" THEN "lockRead"
             ELSE IF Merged(u) = {} THEN "form" ELSE "reread")
  /\ UNCHANGED <<disk, forms, draft, observed>>

Reread(u) ==
  /\ pc[u] = "reread"
  /\ Remember(u)
  /\ req' = [req EXCEPT ![u].rev = Read(u).rev]
  /\ Goto(u, "form")
  /\ UNCHANGED <<disk, forms, draft, observed>>

\* The text area of a page that does not exist starts empty, whatever came in.
SendForm(u) ==
  /\ pc[u] = "form"
  /\ Serve(u, FormOf(u, IF ~Read(u).exists THEN {}
                        ELSE IF req[u].show = "load" THEN TextOf(Read(u).rev)
                        ELSE req[u].body))
  /\ UNCHANGED <<disk, draft, sent, told, lockRace, counters>>

------------------------------------------------------------------------------
(* saveText. *)

\* Mutant of Outdated: the check of the revision is left out.
OutdatedNever(u) == FALSE

\* rev != 0 and rev != self.current_rev()
Outdated(u) == req[u].rev # 0 /\ req[u].rev # Read(u).rev

\* The log lines after the last one of the revision the form was based on.
Newer(u) ==
  {i \in DOMAIN log : \A j \in i..Len(log) : log[j].rev # req[u].rev}

\* The oldest of them is this user's, and saved this very text.
AlreadySaved(u) ==
  \E i \in Newer(u) :
    /\ \A j \in Newer(u) : i <= j
    /\ log[i].by = u /\ TextOf(log[i].rev) = req[u].text

\* The checks saveText makes before it writes.
SayAlreadySaved(u) ==
  /\ pc[u] = "check"
  /\ Outdated(u) /\ AlreadySaved(u)
  /\ Finish(u)
  /\ UNCHANGED <<disk, forms, draft, observed>>

RaiseEditConflict(u) ==
  /\ pc[u] = "check"
  /\ Outdated(u) /\ ~AlreadySaved(u)
  /\ Remember(u)
  /\ Goto(u, "merge")
  /\ UNCHANGED <<disk, req, forms, draft, observed>>

Unchanged(u) == req[u].kind = "save" /\ req[u].text = TextOf(Read(u).rev)

RaiseUnchanged(u) ==
  /\ pc[u] = "check"
  /\ ~Outdated(u) /\ Unchanged(u)
  /\ Remember(u)
  /\ Goto(u, "releaseRead")
  /\ UNCHANGED <<disk, req, forms, draft, observed>>

PassChecks(u) ==
  /\ pc[u] = "check"
  /\ ~Outdated(u) /\ ~Unchanged(u)
  /\ Remember(u)
  /\ Goto(u, "write")
  /\ UNCHANGED <<disk, req, forms, draft, observed>>

\* What every step of a write does to the requests of the others: nothing; it
\* is only observed that they are not alone.
Interrupt(u) ==
  [v \in Users |-> IF v = u THEN req[v] ELSE [req[v] EXCEPT !.alone = FALSE]]

\* Mutant of PageFree: the page is taken from whoever has it.
PageFreeAlways == TRUE

PageFree == holder = {}

\* _write_file, see module PageStore: take the page ...
TakePage(u) ==
  /\ pc[u] = "write"
  /\ PageFree
  /\ holder' = {u}
  /\ req' = Interrupt(u)
  /\ Goto(u, "put")
  /\ UNCHANGED <<page, lockFile, view, forms, draft, observed>>

\* ... or give up, which sends the editor again (deletePage gives a message),
CouldNotLock(u) ==
  /\ pc[u] = "write"
  /\ holder # {}
  /\ IF req[u].kind = "delete" THEN Finish(u)
     ELSE Goto(u, "lockRead") /\ UNCHANGED <<req, view>>
  /\ UNCHANGED <<disk, forms, draft, observed>>

\* ... put a new revision there and log it ...
PutRevision(u) ==
  /\ pc[u] = "put"
  /\ head' = head + 1
  /\ pages' = IF req[u].kind = "delete" THEN pages
              ELSE Put(pages, head + 1, req[u].text)
  /\ log' = Append(log, [rev |-> head + 1, by |-> u])
  /\ req' = Interrupt(u)
  /\ Goto(u, "unlock")
  /\ UNCHANGED <<lockMode, holder, lockFile, view, forms, draft, observed>>

\* The draft of a saved text is not needed any more.
KillDraft(u) ==
  IF req[u].kind = "save" THEN [draft EXCEPT ![u] = NoForm] ELSE draft

\* ... and give the page back.
GiveBack(u) ==
  /\ pc[u] = "unlock"
  /\ holder' = {}
  /\ draft' = KillDraft(u)
  /\ req' = [Interrupt(u) EXCEPT ![u].kind = IF @ = "save" THEN "saved" ELSE @]
  /\ Goto(u, "releaseRead")
  /\ UNCHANGED <<page, lockFile, view, forms, observed>>

Next ==
  \/ Expire
  \/ \E u \in Users :
       \/ Open(u) \/ LoadDraft(u) \/ Preview(u) \/ Save(u) \/ Cancel(u)
       \/ Delete(u)
       \/ LockRead(u) \/ LockRemove(u) \/ LockAdd(u)
       \/ ReleaseRead(u) \/ ReleaseRemove(u)
       \/ ShowAgain(u) \/ FindConflict(u) \/ FindRevision(u)
       \/ MergeEditConflict(u) \/ Reread(u) \/ SendForm(u)
       \/ SayAlreadySaved(u) \/ RaiseEditConflict(u) \/ RaiseUnchanged(u)
       \/ PassChecks(u) \/ TakePage(u) \/ CouldNotLock(u) \/ PutRevision(u)
       \/ GiveBack(u)

Spec == Init /\ [][Next]_vars
------------------------------------------------------------------------------
(***************************************************************************)
(* Properties.                                                             *)
(***************************************************************************)

\* Every variable has its type, and the request that owns the page is writing.
TypeOK ==
  /\ lockMode \in LockModes
  /\ head \in Nat /\ DOMAIN pages \subseteq 1..head
  /\ \A r \in DOMAIN pages : pages[r] \in Text \ {{}}
  /\ log \in Seq([rev : Nat, by : Users])
  /\ holder = {u \in Users : pc[u] \in {"put", "unlock"}}
  /\ Cardinality(holder) <= 1
  /\ lockFile \in Seq(LockLine)
  /\ pc \in [Users -> PCs]
  /\ req \in [Users -> Request]
  /\ view \in [Users -> View]
  /\ forms \in [Users -> SUBSET Form]
  /\ draft \in [Users -> Form]
  /\ editing \in [Users -> BOOLEAN] /\ told \in [Users -> BOOLEAN]
  /\ lockRace \in BOOLEAN

\* A sound form with a revision number contains the whole text of that
\* revision, so the comparison of numbers at the next save means something.
FormShowsItsRevision ==
  \A u \in Users : \A f \in forms[u] :
    f.sound /\ f.rev # 0 => TextOf(f.rev) \subseteq f.text

\* Saving never makes somebody's edit disappear, as long as no other save or
\* delete was writing during the requests the form and the save came from, and
\* the editing began with an existing page.  Many requests of other users may
\* lie between those requests; the number in the form has to reveal them.
NoEditLost ==
  [][\A u \in Users :
       /\ pc[u] = "put" /\ pc'[u] = "unlock"
       /\ req[u].kind = "save" /\ req[u].sound /\ req[u].alone
       => TextOf(head) \subseteq pages'[head']]_head

\* What a user sent with Save or Cancel is in the page's history or is the
\* user's draft, whichever way the request ended.
SavedOrDraft ==
  \A u \in Users :
    pc[u] = "idle" /\ sent[u].kind \in {"save", "cancel"} =>
      \/ draft[u].text = sent[u].text
      \/ \E r \in DOMAIN pages : pages[r] = sent[u].text

\* A user whose editing ended with a save or Cancel does not own edit-lock.
LockReturned ==
  \A u \in Users : pc[u] = "idle" /\ ~editing[u] =>
    lockFile = <<>> \/ Head(lockFile).owner # u

\* Strict locking keeps its promise unless two requests were updating the file
\* edit-lock at the same time.
StrictUnlessRaced ==
  lockMode = "lock" /\ ~lockRace =>
    \A u, v \in Users : told[u] /\ told[v] => u = v

\* The merge for an edit conflict keeps what was saved meanwhile, if the user
\* took nothing out of the revision the editing began with.
MergeKeepsSaved ==
  [][\A u \in Users :
       /\ pc[u] = "merge" /\ pc'[u] # "merge"
       /\ TextOf(req[u].rev) \subseteq req[u].body
       => TextOf(Read(u).rev) \subseteq req'[u].body]_pc

------------------------------------------------------------------------------
(***************************************************************************)
(* Strengthenings, which make the invariants above inductive.              *)
(***************************************************************************)

\* The steps of saveText, and of the release of the edit lock after it.
SavePCs == {"check", "write", "put", "unlock"}
ReleasePCs == {"releaseRead", "releaseRemove"}

\* Users need not be finite, so "at most one" is said without counting.
TypeInv ==
  /\ TypeOK
  /\ \A u, v \in holder : u = v
  /\ sent \in [Users -> [kind : {"none", "preview", "save", "cancel"},
                         text : Text]]

\* What holds for a user's request q at step st, of which the process has cached
\* v.  Which requests come to which steps, and with what to show:
PathInv(st, q) ==
  /\ st = "idle" => q = NoRequest
  /\ st # "idle" => q.kind # "none"
  /\ q.kind = "open" => q.show # "given"
  /\ st \in {"check", "write", "put"} => q.kind \in {"save", "delete"}
  /\ q.kind = "save" => q.text # {}
  /\ q.kind = "delete" => q.rev = 0 /\ st \in SavePCs \cup ReleasePCs
  /\ q.kind \in {"cancel", "saved"} => st \in ReleasePCs
  /\ st \in SavePCs \cup ReleasePCs => q.show = "given"
  /\ st = "merge" => q.show # "load"
  /\ st = "form" => q.show # "given"
  /\ st = "reread" => q.show = "merged"

\* A request that has been alone so far reads what is on the disk.
AloneInv(u, q, v) ==
  /\ v.pos <= Len(log)
  /\ q.alone => holder \subseteq {u}
  /\ q.alone /\ v.pos = Len(log) =>
       /\ v.rev = IF head > 0 THEN head ELSE NoRev
       /\ v.exists = (head \in DOMAIN pages)

\* A text that is made from revision r, and lost nothing of it.
MadeFrom(r, text) == r \in 1..head /\ TextOf(r) \subseteq text

FormInv(f) == f.sound /\ f.rev # 0 => MadeFrom(f.rev, f.text)

\* What there is to say of the text to show.
GivenClaim(q) ==
  q.show = "given" /\ q.sound =>
    q.rev # 0 /\ MadeFrom(q.rev, q.text) /\ q.body = q.text

MergedClaim(st, q) ==
  q.show = "merged" /\ q.sound /\ q.alone =>
    /\ st \in {"lockRead", "lockRemove", "lockAdd", "revision", "reread"} =>
         TextOf(head) \subseteq q.body
    /\ st = "merge" => MadeFrom(q.rev, q.body)
    /\ st = "form" /\ q.rev # 0 /\ head \in DOMAIN pages =>
         MadeFrom(q.rev, q.body)

LoadClaim(st, q) ==
  q.show = "load" /\ q.alone /\ st = "form" => q.rev \in {0, head}

\* Between the check and the write the revision does not change unnoticed.
WriteClaim(st, q) ==
  st \in {"write", "put"} /\ q.kind = "save" /\ q.sound /\ q.alone => q.rev = head

RequestInv(u, st, q, v) ==
  /\ PathInv(st, q) /\ AloneInv(u, q, v)
  /\ GivenClaim(q) /\ MergedClaim(st, q) /\ LoadClaim(st, q) /\ WriteClaim(st, q)

ShowInv ==
  \A u \in Users :
    /\ RequestInv(u, pc[u], req[u], view[u])
    /\ FormInv(draft[u])
    /\ \A f \in forms[u] : FormInv(f)

\* A text sent is in the draft or in the history, in the middle of a request
\* too, and the request still has it.
Saved(text) == \E r \in DOMAIN pages : pages[r] = text

SentInv(u) ==
  /\ req[u].kind \in {"save", "preview"} =>
       sent[u] = [kind |-> req[u].kind, text |-> req[u].text]
  /\ sent[u].kind \in {"save", "cancel"} =>
       draft[u].text = sent[u].text \/ Saved(sent[u].text)
  /\ pc[u] = "unlock" /\ req[u].kind = "save" => Saved(req[u].text)

\* Whoever has the first line of edit-lock is editing or will get the editor.
LockInv(u) ==
  lockFile # <<>> /\ Head(lockFile).owner = u =>
    \/ editing[u]
    \/ pc[u] \in {"revision", "reread", "form"}
    \/ pc[u] = "merge" /\ req[u].show = "merged"

\* Without a race one request at a time updates edit-lock, which is nobody's
\* while it does; and the file says what the users were told.
RaceInv ==
  ~lockRace =>
    /\ \A u, v \in Users : pc[u] \in LockPCs /\ pc[v] \in LockPCs => u = v
    /\ \A u, v \in Users : pc[u] \in LockPCs /\ told[v] => u = v
    /\ \A u \in Users : pc[u] = "lockAdd" => lockFile = <<>>
    /\ \A u \in Users : told[u] =>
         \/ pc[u] = "lockAdd"
         \/ /\ lockFile # <<>>
            /\ Head(lockFile) = [owner |-> u, stale |-> FALSE]
==============================================================================
