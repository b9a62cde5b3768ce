--------------------------- MODULE PageEditorProofs ---------------------------
(***************************************************************************)
(* Module PageEditor, for any number of users, edits and requests.         *)
(*                                                                         *)
(* The argument has four parts.  TypeInv and ShowInv are inductive         *)
(* together: a request that no other write has interrupted reads what is   *)
(* on the disk, so the revision it puts in a form is the one whose text    *)
(* the form shows or contains.  On top of them SentInv follows a text that *)
(* was sent to the draft or the history, LockInv the first line of the     *)
(* edit lock to the user who is editing, and RaceInv the promise of strict *)
(* locking.                                                                *)
(***************************************************************************)
EXTENDS PageEditor, FiniteSetTheorems, TLAPS

\* A step of u's request to step st, which leaves the page alone and then is
\* request q with v cached, and of the user's forms and drafts leaves fs and d.
Moves(u, st, q, v, fs, d) ==
  /\ pc' = [pc EXCEPT ![u] = st] /\ req' = [req EXCEPT ![u] = q]
  /\ view' = [view EXCEPT ![u] = v]
  /\ forms' = [forms EXCEPT ![u] = fs] /\ draft' = [draft EXCEPT ![u] = d]
  /\ UNCHANGED <<page, holder>>

Sents == [Users -> [kind : {"none", "preview", "save", "cancel"}, text : Text]]

\* The variables no request of ShowInv looks at have their types.
RestTyped ==
  /\ lockFile \in Seq(LockLine)
  /\ editing \in [Users -> BOOLEAN] /\ told \in [Users -> BOOLEAN]
  /\ lockRace \in BOOLEAN /\ sent \in Sents

LEMMA RestIsTyped ==
  ASSUME TypeInv PROVE RestTyped
BY DEF TypeInv, TypeOK, RestTyped, Sents

\* What the types say of one user.
LEMMA UserTyped ==
  ASSUME TypeInv, NEW u \in Users
  PROVE  /\ pc[u] \in PCs /\ req[u] \in Request /\ view[u] \in View
         /\ forms[u] \in SUBSET Form /\ draft[u] \in Form
         /\ head \in Nat /\ Len(log) \in Nat
BY DEF TypeInv, TypeOK

\* A step that is no write keeps both invariants, if it keeps them for the user.
LEMMA MoveKeeps ==
  ASSUME TypeInv, ShowInv, NEW u \in Users, NEW st \in PCs, NEW q \in Request, NEW v \in View,
         NEW fs \in SUBSET Form, NEW d \in Form, Moves(u, st, q, v, fs, d), RestTyped',
         (st \in {"put", "unlock"}) <=> (pc[u] \in {"put", "unlock"}),
         RequestInv(u, st, q, v), FormInv(d), \A f \in fs : FormInv(f)
  PROVE  TypeInv' /\ ShowInv'
<1>1. TypeInv'
  <2>1. /\ pc' \in [Users -> PCs] /\ req' \in [Users -> Request] /\ view' \in [Users -> View]
        /\ forms' \in [Users -> SUBSET Form] /\ draft' \in [Users -> Form]
    BY DEF TypeInv, TypeOK, Moves
  <2>2. holder' = {x \in Users : pc'[x] \in {"put", "unlock"}}
    BY DEF TypeInv, TypeOK, Moves
  <2>3. UNCHANGED <<lockMode, head, pages, log, holder>>
    BY DEF Moves, page
  <2> QED BY <2>1, <2>2, <2>3 DEF TypeInv, TypeOK, RestTyped, Sents
<1>2. \A x \in Users :
        /\ RequestInv(x, pc'[x], req'[x], view'[x])
        /\ FormInv(draft'[x]) /\ \A f \in forms'[x] : FormInv(f)
  <2> TAKE x \in Users
  <2>1. CASE x = u
    BY <2>1 DEF Moves, TypeInv, TypeOK
  <2>2. CASE x # u
    <3>1. /\ pc'[x] = pc[x] /\ req'[x] = req[x] /\ view'[x] = view[x]
          /\ draft'[x] = draft[x] /\ forms'[x] = forms[x]
      BY <2>2 DEF Moves, TypeInv, TypeOK
    <3> QED BY <3>1 DEF ShowInv
  <2> QED BY <2>1, <2>2
<1>3. UNCHANGED <<head, pages, log, holder>>
  BY DEF Moves, page
<1>4. ShowInv'
  BY <1>2, <1>3 DEF ShowInv, RequestInv, PathInv, AloneInv, GivenClaim, MergedClaim, LoadClaim,
                    WriteClaim, FormInv, MadeFrom, TextOf
<1> QED BY <1>1, <1>4

------------------------------------------------------------------------------
(* Requests arrive. *)

Kinds == {"none", "open", "preview", "draft", "save", "saved", "cancel", "delete"}

LEMMA NoRevIsNumber == NoRev \in Nat
BY SMT DEF NoRev

LEMMA NoneTyped ==
  NoForm \in Form /\ NoRequest \in Request /\ NoView \in View /\ {} \in Text
BY NoRevIsNumber DEF NoForm, Form, NoRequest, Request, NoView, View, Text

\* The draft is kept by every step but those that say otherwise.
LEMMA ArriveKeeps ==
  ASSUME TypeInv, ShowInv, NEW u \in Users, NEW kind \in Kinds \ {"none", "saved"},
         NEW form \in Form, NEW st \in PCs, Arrive(u, kind, form, st),
         FormInv(form),
         NEW d \in Form, draft' = [draft EXCEPT ![u] = d], FormInv(d), sent' \in Sents,
         kind \in {"open", "preview", "draft"} => st = "lockRead",
         kind = "cancel" => st = "releaseRead",
         kind \in {"save", "delete"} => st = "check",
         kind = "save" => form.text # {},
         kind = "delete" => form = NoForm
  PROVE  TypeInv' /\ ShowInv'
<1>1. PICK sound \in BOOLEAN : sound = (form.sound /\ (kind = "open" \/ form.rev # 0))
  OBVIOUS
<1>2. PICK alone \in BOOLEAN : alone = (holder = {})
  OBVIOUS
<1>3. PICK show \in {"load", "given"} : show = IF kind = "open" THEN "load" ELSE "given"
  OBVIOUS
<1>4. PICK q : q = [kind |-> kind, rev |-> form.rev, text |-> form.text, sound |-> sound,
                    body |-> form.text, show |-> show, alone |-> alone]
  OBVIOUS
<1>5. q \in Request
  BY <1>4 DEF Request, Form, Kinds
<1>6. /\ pc[u] = "idle" /\ pc' = [pc EXCEPT ![u] = st] /\ req' = [req EXCEPT ![u] = q]
      /\ view' = [view EXCEPT ![u] = NoView]
      /\ UNCHANGED <<page, holder, lockFile, forms, editing, told, lockRace>>
  BY <1>1, <1>2, <1>3, <1>4 DEF Arrive, Goto, disk
<1>7. Moves(u, st, q, NoView, forms[u], d)
  BY <1>6 DEF Moves, TypeInv, TypeOK
<1>8. RestTyped'
  BY <1>6, RestIsTyped DEF RestTyped
<1>9. RequestInv(u, st, q, NoView)
  <2>1. PathInv(st, q)
    BY <1>3, <1>4, NoneTyped DEF PathInv, Kinds, SavePCs, ReleasePCs, NoForm
  <2>2. AloneInv(u, q, NoView)
    <3>1. Len(log) \in Nat /\ NoView.pos = -1
      BY UserTyped DEF NoView
    <3>2. q.alone => holder = {}
      BY <1>2, <1>4
    <3> QED BY <3>1, <3>2 DEF AloneInv
  <2>3. GivenClaim(q)
    BY <1>1, <1>3, <1>4 DEF GivenClaim, FormInv
  <2>4. MergedClaim(st, q) /\ LoadClaim(st, q) /\ WriteClaim(st, q)
    BY <1>3, <1>4 DEF MergedClaim, LoadClaim, WriteClaim, Kinds
  <2> QED BY <2>1, <2>2, <2>3, <2>4 DEF RequestInv
<1>10. \A f \in forms[u] : FormInv(f)
  BY DEF ShowInv
<1>11. (st \in {"put", "unlock"}) <=> (pc[u] \in {"put", "unlock"})
  BY <1>6 DEF Kinds
<1>12. forms[u] \in SUBSET Form
  BY UserTyped
<1> QED BY <1>5, <1>7, <1>8, <1>9, <1>10, <1>11, <1>12, NoneTyped, MoveKeeps

LEMMA OpenKeeps ==
  ASSUME TypeInv, ShowInv, NEW u \in Users, Open(u) PROVE TypeInv' /\ ShowInv'
<1> DEFINE form == [NoForm EXCEPT !.sound = TRUE]
<1>1. form \in Form /\ FormInv(form)
  BY DEF NoForm, Form, FormInv, Text
<1>2. draft' = [draft EXCEPT ![u] = draft[u]] /\ draft[u] \in Form /\ FormInv(draft[u])
  BY DEF Open, TypeInv, TypeOK, ShowInv
<1>3. sent' \in Sents /\ Arrive(u, "open", form, "lockRead")
  BY RestIsTyped DEF Open, RestTyped
<1>4. "open" \in Kinds \ {"none", "saved"} /\ "lockRead" \in PCs
  BY DEF Kinds, PCs
<1> QED BY <1>1, <1>2, <1>3, <1>4, ArriveKeeps

LEMMA LoadDraftKeeps ==
  ASSUME TypeInv, ShowInv, NEW u \in Users, LoadDraft(u) PROVE TypeInv' /\ ShowInv'
<1>1. draft' = [draft EXCEPT ![u] = draft[u]] /\ draft[u] \in Form /\ FormInv(draft[u])
  BY DEF LoadDraft, TypeInv, TypeOK, ShowInv
<1>2. sent' \in Sents /\ Arrive(u, "draft", draft[u], "lockRead")
  BY RestIsTyped DEF LoadDraft, RestTyped
<1>3. "draft" \in Kinds \ {"none", "saved"} /\ "lockRead" \in PCs
  BY DEF Kinds, PCs
<1> QED BY <1>1, <1>2, <1>3, ArriveKeeps

\* Typing adds an edit to what the form shows.
LEMMA TypedForm ==
  ASSUME NEW f \in Form, NEW t \in Typed(f)
  PROVE  /\ [f EXCEPT !.text = t] \in Form
         /\ FormInv(f) => FormInv([f EXCEPT !.text = t])
<1>1. t \in Text /\ f.text \subseteq t
  BY DEF Typed, Form, Text
<1>2. [f EXCEPT !.text = t] \in Form
  BY <1>1 DEF Form
<1> QED BY <1>1, <1>2 DEF FormInv, MadeFrom, Form

LEMMA SubmitKeeps ==
  ASSUME TypeInv, ShowInv, NEW u \in Users, NEW kind \in {"preview", "save", "cancel"},
         NEW st \in PCs, Submit(u, kind, st),
         kind = "preview" => st = "lockRead",
         kind = "cancel" => st = "releaseRead",
         kind = "save" => st = "check"
  PROVE  TypeInv' /\ ShowInv'
<1>1. PICK f \in forms[u] : \E t \in Typed(f) \ {{}} :
        /\ Arrive(u, kind, [f EXCEPT !.text = t], st)
        /\ sent' = [sent EXCEPT ![u] = [kind |-> kind, text |-> t]]
        /\ draft' = DraftOf(u, kind, [f EXCEPT !.text = t])
  BY DEF Submit
<1>2. PICK t \in Typed(f) \ {{}} :
        /\ Arrive(u, kind, [f EXCEPT !.text = t], st)
        /\ sent' = [sent EXCEPT ![u] = [kind |-> kind, text |-> t]]
        /\ draft' = DraftOf(u, kind, [f EXCEPT !.text = t])
  BY <1>1
<1>3. PICK form : form = [f EXCEPT !.text = t]
  OBVIOUS
<1>4. f \in Form /\ FormInv(f)
  BY UserTyped DEF ShowInv
<1>5. form \in Form /\ FormInv(form) /\ form.text = t /\ t # {}
  BY <1>2, <1>3, <1>4, TypedForm DEF Form
<1>6. sent' \in Sents
  BY <1>2, <1>5, RestIsTyped DEF RestTyped, Sents, Form
<1>7. PICK d : d = IF kind = "preview" THEN draft[u] ELSE form
  OBVIOUS
<1>8. d \in Form /\ FormInv(d) /\ draft' = [draft EXCEPT ![u] = d]
  BY <1>2, <1>3, <1>5, <1>7, UserTyped DEF DraftOf, ShowInv, TypeInv, TypeOK
<1>9. Arrive(u, kind, form, st)
  BY <1>2, <1>3
<1> QED BY <1>5, <1>6, <1>8, <1>9, ArriveKeeps DEF Kinds

LEMMA DeleteKeeps ==
  ASSUME TypeInv, ShowInv, NEW u \in Users, Delete(u) PROVE TypeInv' /\ ShowInv'
<1>1. NoForm \in Form /\ FormInv(NoForm)
  BY NoneTyped DEF NoForm, FormInv
<1>2. draft' = [draft EXCEPT ![u] = draft[u]] /\ draft[u] \in Form /\ FormInv(draft[u])
  BY DEF Delete, TypeInv, TypeOK, ShowInv
<1>3. sent' \in Sents /\ Arrive(u, "delete", NoForm, "check")
  BY RestIsTyped DEF Delete, RestTyped
<1>4. "delete" \in Kinds \ {"none", "saved"} /\ "check" \in PCs
  BY DEF Kinds, PCs
<1> QED BY <1>1, <1>2, <1>3, <1>4, ArriveKeeps

LEMMA ArrivalsKeep ==
  ASSUME TypeInv, ShowInv, NEW u \in Users,
         \/ Open(u) \/ LoadDraft(u) \/ Preview(u) \/ Save(u) \/ Cancel(u) \/ Delete(u)
  PROVE  TypeInv' /\ ShowInv'
<1>1. CASE Open(u)
  BY <1>1, OpenKeeps
<1>2. CASE LoadDraft(u)
  BY <1>2, LoadDraftKeeps
<1>3. CASE Preview(u)
  BY <1>3, SubmitKeeps DEF Preview, PCs
<1>4. CASE Save(u)
  BY <1>4, SubmitKeeps DEF Save, PCs
<1>5. CASE Cancel(u)
  BY <1>5, SubmitKeeps DEF Cancel, PCs
<1>6. CASE Delete(u)
  BY <1>6, DeleteKeeps
<1> QED BY <1>1, <1>2, <1>3, <1>4, <1>5, <1>6

------------------------------------------------------------------------------
(* Steps that leave the page alone. *)

\* What the process reads, and that it is the truth if nobody else wrote.
LEMMA ReadTyped ==
  ASSUME TypeInv, NEW u \in Users
  PROVE  Read(u) \in View
<1>1. PICK exists \in BOOLEAN : exists = (holder = {} /\ head \in DOMAIN pages)
  OBVIOUS
<1>2. PICK rev \in Nat : rev = IF holder = {} /\ head > 0 THEN head ELSE NoRev
  BY UserTyped, NoRevIsNumber
<1>3. Disk = [pos |-> Len(log), rev |-> rev, exists |-> exists]
  BY <1>1, <1>2 DEF Disk
<1> QED BY <1>3, UserTyped DEF Read, View

LEMMA ReadTrue ==
  ASSUME TypeInv, ShowInv, NEW u \in Users
  PROVE  /\ Read(u).pos = Len(log)
         /\ req[u].alone /\ pc[u] \notin {"put", "unlock"} =>
              /\ holder = {}
              /\ Read(u).rev = IF head > 0 THEN head ELSE NoRev
              /\ Read(u).exists <=> head \in DOMAIN pages
<1>1. AloneInv(u, req[u], view[u])
  BY DEF ShowInv, RequestInv
<1>2. CASE view[u].pos = Len(log)
  <2>1. Read(u) = view[u]
    BY <1>2 DEF Read
  <2>2. req[u].alone /\ pc[u] \notin {"put", "unlock"} => holder = {}
    BY <1>1 DEF AloneInv, TypeInv, TypeOK
  <2> QED BY <1>1, <1>2, <2>1, <2>2 DEF AloneInv
<1>3. CASE view[u].pos # Len(log)
  <2>1. Read(u) = Disk
    BY <1>3 DEF Read
  <2>2. req[u].alone /\ pc[u] \notin {"put", "unlock"} => holder = {}
    BY <1>1 DEF AloneInv, TypeInv, TypeOK
  <2>3. PICK exists \in BOOLEAN : exists = (holder = {} /\ head \in DOMAIN pages)
    OBVIOUS
  <2>4. Disk = [pos |-> Len(log), rev |-> IF holder = {} /\ head > 0 THEN head ELSE NoRev,
                exists |-> exists]
    BY <2>3 DEF Disk
  <2>5. /\ Read(u).pos = Len(log) /\ Read(u).exists = exists
        /\ Read(u).rev = IF holder = {} /\ head > 0 THEN head ELSE NoRev
    BY <2>1, <2>4
  <2> QED BY <2>2, <2>3, <2>5
<1> QED BY <1>2, <1>3

\* So what is read can be remembered.
LEMMA RememberTrue ==
  ASSUME TypeInv, ShowInv, NEW u \in Users, pc[u] \notin {"put", "unlock"},
         NEW q \in Request, q.alone => req[u].alone
  PROVE  AloneInv(u, q, Read(u))
<1>1. Read(u).pos = Len(log) /\ Len(log) \in Nat
  BY ReadTrue, UserTyped
<1>2. q.alone => /\ holder = {}
                 /\ Read(u).rev = IF head > 0 THEN head ELSE NoRev
                 /\ Read(u).exists <=> head \in DOMAIN pages
  BY ReadTrue
<1>3. Read(u).exists \in BOOLEAN
  BY ReadTyped DEF View
<1> QED BY <1>1, <1>2, <1>3 DEF AloneInv

\* A step that changes nothing of what the process has.
LEMMA StayKeeps ==
  ASSUME TypeInv, ShowInv, NEW u \in Users, NEW st \in PCs,
         pc' = [pc EXCEPT ![u] = st], UNCHANGED <<page, holder, req, view, forms, draft>>,
         RestTyped', (st \in {"put", "unlock"}) <=> (pc[u] \in {"put", "unlock"}),
         PathInv(st, req[u]), MergedClaim(st, req[u]), LoadClaim(st, req[u]),
         WriteClaim(st, req[u])
  PROVE  TypeInv' /\ ShowInv'
<1>1. Moves(u, st, req[u], view[u], forms[u], draft[u])
  BY DEF Moves, TypeInv, TypeOK
<1>2. RequestInv(u, st, req[u], view[u])
  BY DEF ShowInv, RequestInv
<1>3. FormInv(draft[u]) /\ \A f \in forms[u] : FormInv(f)
  BY DEF ShowInv
<1> QED BY <1>1, <1>2, <1>3, UserTyped, MoveKeeps

\* The end of a request.
LEMMA FinishKeeps ==
  ASSUME TypeInv, ShowInv, NEW u \in Users, pc[u] \notin {"put", "unlock"},
         Finish(u), UNCHANGED <<page, holder>>, RestTyped',
         NEW fs \in SUBSET Form, forms' = [forms EXCEPT ![u] = fs], \A f \in fs : FormInv(f),
         NEW d \in Form, draft' = [draft EXCEPT ![u] = d], FormInv(d)
  PROVE  TypeInv' /\ ShowInv'
<1>1. Moves(u, "idle", NoRequest, NoView, fs, d)
  BY DEF Finish, Goto, Moves
<1>2. AloneInv(u, NoRequest, NoView)
  BY UserTyped DEF AloneInv, NoRequest, NoView
<1>3. RequestInv(u, "idle", NoRequest, NoView)
  BY <1>2 DEF RequestInv, PathInv, GivenClaim, MergedClaim, LoadClaim, WriteClaim, NoRequest,
              SavePCs, ReleasePCs
<1>4. "idle" \in PCs
  BY DEF PCs
<1> QED BY <1>1, <1>3, <1>4, NoneTyped, MoveKeeps

\* ... which serves no form.
LEMMA QuitKeeps ==
  ASSUME TypeInv, ShowInv, NEW u \in Users, pc[u] \notin {"put", "unlock"},
         Finish(u), UNCHANGED <<page, holder, forms, draft>>, RestTyped'
  PROVE  TypeInv' /\ ShowInv'
<1>1. forms' = [forms EXCEPT ![u] = forms[u]] /\ draft' = [draft EXCEPT ![u] = draft[u]]
  BY DEF TypeInv, TypeOK
<1>2. FormInv(draft[u]) /\ \A f \in forms[u] : FormInv(f)
  BY DEF ShowInv
<1> QED BY <1>1, <1>2, UserTyped, FinishKeeps

\* The claims about a request at its present step.
LEMMA Claims ==
  ASSUME ShowInv, NEW u \in Users
  PROVE  /\ PathInv(pc[u], req[u]) /\ AloneInv(u, req[u], view[u]) /\ GivenClaim(req[u])
         /\ MergedClaim(pc[u], req[u]) /\ LoadClaim(pc[u], req[u])
         /\ WriteClaim(pc[u], req[u])
BY DEF ShowInv, RequestInv

LEMMA LockReadKeeps ==
  ASSUME TypeInv, ShowInv, NEW u \in Users, LockRead(u) PROVE TypeInv' /\ ShowInv'
<1>1. pc[u] = "lockRead" /\ UNCHANGED <<page, holder, forms, draft, lockFile, editing, told, sent>>
  BY DEF LockRead, disk
<1>2. RestTyped'
  BY <1>1, RestIsTyped DEF RestTyped, LockRead, Races
<1>3. ASSUME NEW st \in {"lockRemove", "revision"}, pc' = [pc EXCEPT ![u] = st],
             UNCHANGED <<req, view>>
      PROVE  TypeInv' /\ ShowInv'
  <2>1. PathInv("lockRead", req[u]) /\ MergedClaim("lockRead", req[u])
    BY <1>1, Claims
  <2>2. PathInv(st, req[u])
    BY <2>1 DEF PathInv, SavePCs, ReleasePCs
  <2>3. MergedClaim(st, req[u]) /\ LoadClaim(st, req[u]) /\ WriteClaim(st, req[u])
    BY <2>1 DEF MergedClaim, LoadClaim, WriteClaim
  <2>4. st \in PCs /\ st \notin {"put", "unlock"}
    BY DEF PCs
  <2> QED BY <1>1, <1>2, <1>3, <2>2, <2>3, <2>4, StayKeeps
<1>4. CASE Finish(u)
  BY <1>1, <1>2, <1>4, QuitKeeps
<1> QED BY <1>3, <1>4 DEF LockRead, Goto

LEMMA LockRemoveKeeps ==
  ASSUME TypeInv, ShowInv, NEW u \in Users, LockRemove(u) PROVE TypeInv' /\ ShowInv'
<1>1. /\ pc[u] = "lockRemove" /\ pc' = [pc EXCEPT ![u] = "lockAdd"] /\ lockFile' = <<>>
      /\ UNCHANGED <<page, holder, req, view, forms, draft, observed>>
  BY DEF LockRemove, Goto
<1>2. RestTyped'
  BY <1>1, RestIsTyped DEF RestTyped, observed
<1>3. PathInv("lockRemove", req[u]) /\ MergedClaim("lockRemove", req[u])
  BY <1>1, Claims
<1>4. PathInv("lockAdd", req[u])
  BY <1>3 DEF PathInv, SavePCs, ReleasePCs
<1>5. /\ MergedClaim("lockAdd", req[u]) /\ LoadClaim("lockAdd", req[u])
      /\ WriteClaim("lockAdd", req[u])
  BY <1>3 DEF MergedClaim, LoadClaim, WriteClaim
<1>6. "lockAdd" \in PCs
  BY DEF PCs
<1> QED BY <1>1, <1>2, <1>4, <1>5, <1>6, StayKeeps

LEMMA LockAddKeeps ==
  ASSUME TypeInv, ShowInv, NEW u \in Users, LockAdd(u) PROVE TypeInv' /\ ShowInv'
<1>1. /\ pc[u] = "lockAdd" /\ pc' = [pc EXCEPT ![u] = "revision"]
      /\ lockFile' = Append(lockFile, [owner |-> u, stale |-> FALSE])
      /\ told' = [told EXCEPT ![u] = TRUE]
      /\ UNCHANGED <<page, holder, req, view, forms, draft, editing, lockRace, sent>>
  BY DEF LockAdd, Goto
<1>2. RestTyped'
  BY <1>1, RestIsTyped DEF RestTyped, LockLine
<1>3. PathInv("lockAdd", req[u]) /\ MergedClaim("lockAdd", req[u])
  BY <1>1, Claims
<1>4. PathInv("revision", req[u])
  BY <1>3 DEF PathInv, SavePCs, ReleasePCs
<1>5. /\ MergedClaim("revision", req[u]) /\ LoadClaim("revision", req[u])
      /\ WriteClaim("revision", req[u])
  BY <1>3 DEF MergedClaim, LoadClaim, WriteClaim
<1>6. "revision" \in PCs
  BY DEF PCs
<1> QED BY <1>1, <1>2, <1>4, <1>5, <1>6, StayKeeps

\* The request takes the release of the edit lock as its end, or goes back to the
\* editor with the text it has.
LEMMA ReleasedKeeps ==
  ASSUME TypeInv, ShowInv, NEW u \in Users, pc[u] \in ReleasePCs, Released(u),
         UNCHANGED <<page, holder, forms, draft, sent>>,
         lockFile' \in Seq(LockLine), lockRace' \in BOOLEAN
  PROVE  TypeInv' /\ ShowInv'
<1>1. RestTyped'
  <2>1. told' \in [Users -> BOOLEAN] /\ editing' \in [Users -> BOOLEAN]
    BY RestIsTyped DEF RestTyped, Released
  <2> QED BY <2>1, RestIsTyped DEF RestTyped
<1>2. pc[u] \notin {"put", "unlock"}
  BY DEF ReleasePCs
<1>3. CASE req[u].kind = "save"
  <2>1. pc' = [pc EXCEPT ![u] = "lockRead"] /\ UNCHANGED <<req, view>>
    BY <1>3 DEF Released, Goto
  <2>2. PathInv(pc[u], req[u]) /\ req[u].show = "given"
    BY Claims DEF PathInv
  <2>3. PathInv("lockRead", req[u])
    BY <1>3, <2>2 DEF PathInv, SavePCs, ReleasePCs
  <2>4. /\ MergedClaim("lockRead", req[u]) /\ LoadClaim("lockRead", req[u])
        /\ WriteClaim("lockRead", req[u])
    BY <2>2 DEF MergedClaim, LoadClaim, WriteClaim
  <2>5. "lockRead" \in PCs
    BY DEF PCs
  <2> QED BY <1>1, <1>2, <2>1, <2>3, <2>4, <2>5, StayKeeps
<1>4. CASE req[u].kind # "save"
  <2>1. Finish(u)
    BY <1>4 DEF Released
  <2> QED BY <1>1, <1>2, <2>1, QuitKeeps
<1> QED BY <1>3, <1>4

LEMMA ReleaseReadKeeps ==
  ASSUME TypeInv, ShowInv, NEW u \in Users, ReleaseRead(u) PROVE TypeInv' /\ ShowInv'
<1>1. /\ pc[u] = "releaseRead" /\ pc[u] \in ReleasePCs
      /\ UNCHANGED <<page, holder, lockFile, forms, draft, sent>>
  BY DEF ReleaseRead, disk, ReleasePCs
<1>2. CASE pc' = [pc EXCEPT ![u] = "releaseRemove"] /\ UNCHANGED <<req, view, editing, told>>
           /\ lockRace' = (lockRace \/ Races(u))
  <2>1. RestTyped'
    BY <1>1, <1>2, RestIsTyped DEF RestTyped, Races
  <2>2. PathInv("releaseRead", req[u]) /\ req[u].show = "given"
    BY <1>1, Claims DEF PathInv
  <2>3. PathInv("releaseRemove", req[u])
    BY <2>2 DEF PathInv, SavePCs, ReleasePCs
  <2>4. /\ MergedClaim("releaseRemove", req[u]) /\ LoadClaim("releaseRemove", req[u])
        /\ WriteClaim("releaseRemove", req[u])
    BY <2>2 DEF MergedClaim, LoadClaim, WriteClaim
  <2>5. "releaseRemove" \in PCs
    BY DEF PCs
  <2> QED BY <1>1, <1>2, <2>1, <2>3, <2>4, <2>5, StayKeeps
<1>3. CASE Released(u) /\ UNCHANGED lockRace
  <2>1. lockFile' \in Seq(LockLine) /\ lockRace' \in BOOLEAN
    BY <1>1, <1>3, RestIsTyped DEF RestTyped
  <2> QED BY <1>1, <1>3, <2>1, ReleasedKeeps
<1> QED BY <1>2, <1>3 DEF ReleaseRead, Goto

LEMMA ReleaseRemoveKeeps ==
  ASSUME TypeInv, ShowInv, NEW u \in Users, ReleaseRemove(u) PROVE TypeInv' /\ ShowInv'
<1>1. /\ pc[u] \in ReleasePCs /\ Released(u) /\ lockFile' = <<>>
      /\ UNCHANGED <<page, holder, forms, draft, sent, lockRace>>
  BY DEF ReleaseRemove, ReleasePCs
<1>2. lockFile' \in Seq(LockLine) /\ lockRace' \in BOOLEAN
  BY <1>1, RestIsTyped DEF RestTyped
<1> QED BY <1>1, <1>2, ReleasedKeeps

\* A form that is served is sound only if the text is made from the revision
\* (without a text, it is not).
LEMMA ServeKeeps ==
  ASSUME TypeInv, ShowInv, NEW u \in Users, pc[u] \notin {"put", "unlock"},
         NEW t \in Text, Serve(u, FormOf(u, t)),
         UNCHANGED <<page, holder, sent, told, lockRace, lockFile>>,
         NEW d \in Form, draft' = [draft EXCEPT ![u] = d], FormInv(d),
         req[u].sound /\ req[u].alone /\ req[u].rev # 0 /\ t # {} => MadeFrom(req[u].rev, t)
  PROVE  TypeInv' /\ ShowInv'
<1>1. PICK sound \in BOOLEAN :
        sound = (req[u].sound /\ req[u].alone /\ (req[u].rev # 0 => t # {}))
  OBVIOUS
<1>2. PICK form : form = [rev |-> req[u].rev, text |-> t, sound |-> sound]
  OBVIOUS
<1>3. form \in Form /\ FormInv(form)
  <2>1. req[u].rev \in Nat
    BY UserTyped DEF Request
  <2>2. sound => req[u].sound /\ req[u].alone /\ (req[u].rev # 0 => t # {})
    BY <1>1
  <2> QED BY <1>2, <2>1, <2>2 DEF Form, FormInv
<1>4. forms' = [forms EXCEPT ![u] = forms[u] \cup {form}]
  <2>1. PICK f : f = FormOf(u, t)
    OBVIOUS
  <2>2. f.rev = req[u].rev /\ f.text = t /\ [f EXCEPT !.sound = sound] = form
    BY <1>2, <2>1 DEF FormOf
  <2>3. forms' = [forms EXCEPT ![u] = @ \cup
          {[f EXCEPT !.sound = req[u].sound /\ req[u].alone /\ (f.rev # 0 => f.text # {})]}]
    BY <2>1 DEF Serve
  <2>4. sound = (req[u].sound /\ req[u].alone /\ (f.rev # 0 => f.text # {}))
    BY <1>1, <2>2
  <2>5. forms' = [forms EXCEPT ![u] = @ \cup {[f EXCEPT !.sound = sound]}]
    BY <2>3, <2>4
  <2> QED BY <2>2, <2>5
<1>5. forms[u] \cup {form} \in SUBSET Form /\ \A f \in forms[u] \cup {form} : FormInv(f)
  BY <1>3, UserTyped DEF ShowInv
<1>6. Finish(u) /\ RestTyped'
  BY RestIsTyped DEF RestTyped, Serve
<1> QED BY <1>4, <1>5, <1>6, FinishKeeps

LEMMA ShowAgainKeeps ==
  ASSUME TypeInv, ShowInv, NEW u \in Users, ShowAgain(u) PROVE TypeInv' /\ ShowInv'
<1>1. PICK q : q = req[u]
  OBVIOUS
<1>2. q \in Request /\ GivenClaim(q) /\ q.show = "given"
  BY <1>1, UserTyped, Claims DEF ShowAgain
<1>3. PICK d : d = IF q.kind = "draft" THEN draft[u]
                   ELSE [rev |-> q.rev, text |-> q.text, sound |-> q.sound]
  OBVIOUS
<1>4. d \in Form /\ FormInv(d)
  BY <1>2, <1>3, UserTyped DEF Request, Form, FormInv, GivenClaim, ShowInv
<1>5. draft' = [draft EXCEPT ![u] = d]
  <2>1. CASE q.kind = "draft"
    <3>1. draft' = draft /\ d = draft[u]
      BY <1>1, <1>3, <2>1 DEF ShowAgain
    <3> QED BY <3>1 DEF TypeInv, TypeOK
  <2>2. CASE q.kind # "draft"
    <3>1. draft' = [draft EXCEPT ![u] = [FormOf(u, q.text) EXCEPT !.sound = q.sound]]
      BY <1>1, <2>2 DEF ShowAgain
    <3>2. [FormOf(u, q.text) EXCEPT !.sound = q.sound] = d
      BY <1>1, <1>3, <2>2 DEF FormOf
    <3> QED BY <3>1, <3>2
  <2> QED BY <2>1, <2>2
<1>6. q.sound /\ q.rev # 0 => MadeFrom(q.rev, q.text)
  BY <1>2 DEF GivenClaim
<1>7. /\ q.text \in Text /\ Serve(u, FormOf(u, q.text)) /\ pc[u] \notin {"put", "unlock"}
      /\ UNCHANGED <<page, holder, sent, told, lockRace, lockFile>>
  BY <1>1, <1>2 DEF ShowAgain, disk, Request
<1> QED BY <1>1, <1>4, <1>5, <1>6, <1>7, ServeKeeps

\* A step that looks at the page, for a request that becomes q.
LEMMA LookKeeps ==
  ASSUME TypeInv, ShowInv, NEW u \in Users, pc[u] \notin {"put", "unlock"},
         NEW st \in PCs \ {"put", "unlock"}, NEW q \in Request, q.alone = req[u].alone,
         pc' = [pc EXCEPT ![u] = st], req' = [req EXCEPT ![u] = q], Remember(u),
         UNCHANGED <<disk, forms, draft, observed>>,
         PathInv(st, q), GivenClaim(q), MergedClaim(st, q), LoadClaim(st, q), WriteClaim(st, q)
  PROVE  TypeInv' /\ ShowInv'
<1>1. Moves(u, st, q, Read(u), forms[u], draft[u])
  BY DEF Moves, Remember, disk, TypeInv, TypeOK
<1>2. RestTyped'
  BY RestIsTyped DEF RestTyped, disk, observed
<1>3. RequestInv(u, st, q, Read(u))
  BY RememberTrue DEF RequestInv
<1>4. FormInv(draft[u]) /\ \A f \in forms[u] : FormInv(f)
  BY DEF ShowInv
<1> QED BY <1>1, <1>2, <1>3, <1>4, UserTyped, ReadTyped, MoveKeeps

\* The text of a revision; a page that was deleted or never made has none.
LEMMA Texts ==
  ASSUME TypeInv
  PROVE  /\ \A r : TextOf(r) \in Text
         /\ \A r \in DOMAIN pages : r \in 1..head
         /\ head = 0 => \A r : TextOf(r) = {}
BY DEF TypeInv, TypeOK, TextOf, Text

LEMMA FindConflictKeeps ==
  ASSUME TypeInv, ShowInv, NEW u \in Users, FindConflict(u) PROVE TypeInv' /\ ShowInv'
<1>1. PICK i : i = req[u]
  OBVIOUS
<1>2. PICK q : q = [i EXCEPT !.show = "merged"]
  OBVIOUS
<1>3. PICK st : st = IF Read(u).exists THEN "merge" ELSE "form"
  OBVIOUS
<1>4. /\ pc[u] = "revision" /\ i.show = "given"
      /\ pc' = [pc EXCEPT ![u] = st] /\ req' = [req EXCEPT ![u] = q] /\ Remember(u)
      /\ UNCHANGED <<disk, forms, draft, observed>>
  BY <1>1, <1>2, <1>3 DEF FindConflict, Goto
<1>5. i \in Request /\ PathInv("revision", i) /\ GivenClaim(i)
  BY <1>1, <1>4, UserTyped, Claims
<1>6. /\ q \in Request /\ q.alone = i.alone /\ q.sound = i.sound /\ q.rev = i.rev
      /\ q.show = "merged" /\ q.body = i.body /\ q.kind = i.kind /\ q.text = i.text
  BY <1>2, <1>5 DEF Request
<1>7. PathInv(st, q)
  BY <1>3, <1>5, <1>6 DEF PathInv, SavePCs, ReleasePCs
<1>8. MergedClaim(st, q)
  <2>1. q.sound => q.rev # 0 /\ MadeFrom(q.rev, q.body)
    BY <1>4, <1>5, <1>6 DEF GivenClaim
  <2>2. q.alone => (Read(u).exists <=> head \in DOMAIN pages)
    BY <1>1, <1>4, <1>6, ReadTrue
  <2> QED BY <1>3, <2>1, <2>2 DEF MergedClaim
<1>9. GivenClaim(q) /\ LoadClaim(st, q) /\ WriteClaim(st, q)
  BY <1>3, <1>6 DEF GivenClaim, LoadClaim, WriteClaim
<1>10. st \in PCs \ {"put", "unlock"} /\ pc[u] \notin {"put", "unlock"}
  BY <1>3, <1>4 DEF PCs
<1> QED BY <1>1, <1>4, <1>6, <1>7, <1>8, <1>9, <1>10, LookKeeps

LEMMA FindRevisionKeeps ==
  ASSUME TypeInv, ShowInv, NEW u \in Users, FindRevision(u) PROVE TypeInv' /\ ShowInv'
<1>1. PICK i : i = req[u]
  OBVIOUS
<1>2. PICK n : n = IF Read(u).exists THEN Read(u).rev ELSE 0
  OBVIOUS
<1>3. PICK q : q = [i EXCEPT !.rev = n]
  OBVIOUS
<1>4. /\ pc[u] = "revision" /\ i.show # "given"
      /\ pc' = [pc EXCEPT ![u] = "form"] /\ req' = [req EXCEPT ![u] = q] /\ Remember(u)
      /\ UNCHANGED <<disk, forms, draft, observed>>
  BY <1>1, <1>2, <1>3 DEF FindRevision, Goto
<1>5. i \in Request /\ PathInv("revision", i) /\ MergedClaim("revision", i)
  BY <1>1, <1>4, UserTyped, Claims
<1>6. n \in Nat
  BY <1>2, ReadTyped DEF View
<1>7. /\ q \in Request /\ q.alone = i.alone /\ q.sound = i.sound /\ q.rev = n
      /\ q.show = i.show /\ q.body = i.body /\ q.kind = i.kind /\ q.text = i.text
  BY <1>3, <1>5, <1>6 DEF Request
<1>8. PathInv("form", q)
  BY <1>4, <1>5, <1>7 DEF PathInv, SavePCs, ReleasePCs
<1>9. i.alone => n = IF head \in DOMAIN pages THEN head ELSE 0
  <2>1. i.alone => /\ Read(u).rev = IF head > 0 THEN head ELSE NoRev
                   /\ Read(u).exists <=> head \in DOMAIN pages
    BY <1>1, <1>4, ReadTrue
  <2>2. head \in DOMAIN pages => head > 0
    BY Texts
  <2> QED BY <1>2, <2>1, <2>2
<1>10. LoadClaim("form", q)
  BY <1>7, <1>9 DEF LoadClaim
<1>11. MergedClaim("form", q)
  <2>1. i.show = "merged" /\ i.sound /\ i.alone => TextOf(head) \subseteq i.body
    BY <1>5 DEF MergedClaim
  <2>2. head \in DOMAIN pages => head \in 1..head
    BY Texts
  <2> QED BY <1>7, <1>9, <2>1, <2>2 DEF MergedClaim, MadeFrom
<1>12. GivenClaim(q) /\ WriteClaim("form", q)
  BY <1>4, <1>7 DEF GivenClaim, WriteClaim
<1>13. "form" \in PCs \ {"put", "unlock"} /\ pc[u] \notin {"put", "unlock"}
  BY <1>4 DEF PCs
<1> QED BY <1>1, <1>4, <1>7, <1>8, <1>10, <1>11, <1>12, <1>13, LookKeeps

\* What was saved is in the merge, if the user's text had all of the original.
LEMMA MergeContains ==
  ASSUME NEW original, NEW saved, NEW mine, original \subseteq mine
  PROVE  saved \subseteq Merge3(original, saved, mine)
BY DEF Merge3

LEMMA MergeEditConflictKeeps ==
  ASSUME TypeInv, ShowInv, NEW u \in Users, MergeEditConflict(u) PROVE TypeInv' /\ ShowInv'
<1>1. PICK i, t : i = req[u] /\ t = Merged(u)
  OBVIOUS
<1>2. PICK b : b = IF t = {} THEN i.body ELSE t
  OBVIOUS
<1>3. PICK q : q = [i EXCEPT !.show = "merged", !.body = b]
  OBVIOUS
<1>4. PICK st : st = IF i.show = "given" THEN "lockRead"
                     ELSE IF t = {} THEN "form" ELSE "reread"
  OBVIOUS
<1>5. /\ pc[u] = "merge" /\ pc' = [pc EXCEPT ![u] = st] /\ Remember(u)
      /\ UNCHANGED <<disk, forms, draft, observed>>
  BY <1>1, <1>4 DEF MergeEditConflict, Goto
<1>6. /\ i \in Request /\ PathInv("merge", i) /\ GivenClaim(i) /\ MergedClaim("merge", i)
  BY <1>1, <1>5, UserTyped, Claims
<1>7. req' = [req EXCEPT ![u] = q]
  <2>1. req' = [req EXCEPT ![u].show = "merged", ![u].body = b]
    BY <1>1, <1>2, <1>6 DEF MergeEditConflict, TypeInv, TypeOK, Request
  <2> QED BY <1>1, <1>3, <2>1
<1>8. t \in Text /\ b \in Text
  <2>1. TextOf(Read(u).rev) \in Text /\ TextOf(i.rev) \in Text /\ i.body \in Text
    BY <1>6, Texts DEF Request
  <2> QED BY <1>1, <1>2, <2>1 DEF Merged, Merge3, Text
<1>9. /\ q \in Request /\ q.alone = i.alone /\ q.sound = i.sound /\ q.rev = i.rev
      /\ q.show = "merged" /\ q.body = b /\ q.kind = i.kind /\ q.text = i.text
  BY <1>3, <1>6, <1>8 DEF Request
<1>10. PathInv(st, q)
  BY <1>4, <1>6, <1>9 DEF PathInv, SavePCs, ReleasePCs
<1>11. i.sound /\ i.alone => MadeFrom(i.rev, i.body)
  <2>1. i.show \in {"given", "merged"}
    BY <1>6 DEF PathInv, Request
  <2> QED BY <1>6, <2>1 DEF GivenClaim, MergedClaim
<1>12. i.sound /\ i.alone => TextOf(head) \subseteq b
  <2> SUFFICES ASSUME i.sound, i.alone PROVE TextOf(head) \subseteq b
    OBVIOUS
  <2>1. Read(u).rev = IF head > 0 THEN head ELSE NoRev
    BY <1>1, <1>5, ReadTrue
  <2>2. CASE head > 0
    <3>1. i.rev # 0 /\ TextOf(i.rev) \subseteq i.body
      BY <1>11 DEF MadeFrom
    <3>2. t = Merge3(TextOf(i.rev), TextOf(head), i.body)
      BY <1>1, <2>1, <2>2, <3>1 DEF Merged
    <3>3. TextOf(head) \subseteq t
      BY <3>1, <3>2, MergeContains
    <3> QED BY <1>2, <3>3
  <2>3. CASE ~(head > 0)
    BY <2>3, Texts, UserTyped
  <2> QED BY <2>2, <2>3
<1>13. MergedClaim(st, q)
  <2>1. st = "form" => b = i.body
    BY <1>2, <1>4
  <2> QED BY <1>4, <1>9, <1>11, <1>12, <2>1 DEF MergedClaim
<1>14. GivenClaim(q) /\ LoadClaim(st, q) /\ WriteClaim(st, q)
  BY <1>4, <1>9 DEF GivenClaim, LoadClaim, WriteClaim
<1>15. st \in PCs \ {"put", "unlock"} /\ pc[u] \notin {"put", "unlock"}
  BY <1>4, <1>5 DEF PCs
<1> QED BY <1>1, <1>5, <1>7, <1>9, <1>10, <1>13, <1>14, <1>15, LookKeeps

LEMMA RereadKeeps ==
  ASSUME TypeInv, ShowInv, NEW u \in Users, Reread(u) PROVE TypeInv' /\ ShowInv'
<1>1. PICK i, n : i = req[u] /\ n = Read(u).rev
  OBVIOUS
<1>2. PICK q : q = [i EXCEPT !.rev = n]
  OBVIOUS
<1>3. /\ pc[u] = "reread" /\ pc' = [pc EXCEPT ![u] = "form"] /\ Remember(u)
      /\ req' = [req EXCEPT ![u] = q] /\ UNCHANGED <<disk, forms, draft, observed>>
  BY <1>1, <1>2 DEF Reread, Goto
<1>4. i \in Request /\ PathInv("reread", i) /\ MergedClaim("reread", i)
  BY <1>1, <1>3, UserTyped, Claims
<1>5. n \in Nat
  BY <1>1, ReadTyped DEF View
<1>6. /\ q \in Request /\ q.alone = i.alone /\ q.sound = i.sound /\ q.rev = n
      /\ q.show = "merged" /\ q.body = i.body /\ q.kind = i.kind /\ q.text = i.text
  BY <1>2, <1>4, <1>5 DEF Request, PathInv
<1>7. PathInv("form", q)
  BY <1>4, <1>6 DEF PathInv, SavePCs, ReleasePCs
<1>8. MergedClaim("form", q)
  <2>1. i.sound /\ i.alone => TextOf(head) \subseteq i.body
    BY <1>4, <1>6 DEF MergedClaim, PathInv
  <2>2. i.alone => n = IF head > 0 THEN head ELSE NoRev
    BY <1>1, <1>3, ReadTrue
  <2>3. head \in DOMAIN pages => head \in 1..head /\ head > 0
    BY Texts
  <2> QED BY <1>6, <2>1, <2>2, <2>3 DEF MergedClaim, MadeFrom
<1>9. GivenClaim(q) /\ LoadClaim("form", q) /\ WriteClaim("form", q)
  BY <1>6 DEF GivenClaim, LoadClaim, WriteClaim
<1>10. "form" \in PCs \ {"put", "unlock"} /\ pc[u] \notin {"put", "unlock"}
  BY <1>3 DEF PCs
<1> QED BY <1>1, <1>3, <1>6, <1>7, <1>8, <1>9, <1>10, LookKeeps

LEMMA SendFormKeeps ==
  ASSUME TypeInv, ShowInv, NEW u \in Users, SendForm(u) PROVE TypeInv' /\ ShowInv'
<1>1. PICK i, t : /\ i = req[u]
                  /\ t = IF ~Read(u).exists THEN {}
                         ELSE IF i.show = "load" THEN TextOf(Read(u).rev) ELSE i.body
  OBVIOUS
<1>2. /\ pc[u] = "form" /\ Serve(u, FormOf(u, t)) /\ draft' = draft
      /\ UNCHANGED <<page, holder, sent, told, lockRace, lockFile>>
  BY <1>1 DEF SendForm, disk
<1>3. /\ i \in Request /\ PathInv("form", i) /\ MergedClaim("form", i) /\ LoadClaim("form", i)
  BY <1>1, <1>2, UserTyped, Claims
<1>4. t \in Text
  BY <1>1, <1>3, NoneTyped, Texts DEF Request
<1>5. i.sound /\ i.alone /\ i.rev # 0 /\ t # {} => MadeFrom(i.rev, t)
  <2> SUFFICES ASSUME i.sound, i.alone, i.rev # 0, t # {} PROVE MadeFrom(i.rev, t)
    OBVIOUS
  <2>1. /\ Read(u).rev = IF head > 0 THEN head ELSE NoRev
        /\ Read(u).exists <=> head \in DOMAIN pages
    BY <1>1, <1>2, ReadTrue
  <2>2. head \in DOMAIN pages /\ head \in 1..head /\ head > 0 /\ Read(u).rev = head
    BY <1>1, <2>1, Texts
  <2>3. CASE i.show = "load"
    <3>1. i.rev = head /\ t = TextOf(head)
      BY <1>1, <1>3, <2>1, <2>2, <2>3 DEF LoadClaim
    <3> QED BY <2>2, <3>1 DEF MadeFrom
  <2>4. CASE i.show = "merged"
    <3>1. t = i.body
      BY <1>1, <2>1, <2>2, <2>4
    <3> QED BY <1>3, <2>2, <2>4, <3>1 DEF MergedClaim
  <2> QED BY <1>3, <2>3, <2>4 DEF PathInv, Request
<1>6. draft' = [draft EXCEPT ![u] = draft[u]] /\ FormInv(draft[u])
  BY <1>2 DEF TypeInv, TypeOK, ShowInv
<1> QED BY <1>1, <1>2, <1>4, <1>5, <1>6, UserTyped, ServeKeeps

------------------------------------------------------------------------------
(* The checks of saveText. *)

LEMMA SayAlreadySavedKeeps ==
  ASSUME TypeInv, ShowInv, NEW u \in Users, SayAlreadySaved(u) PROVE TypeInv' /\ ShowInv'
<1>1. /\ pc[u] \notin {"put", "unlock"} /\ Finish(u)
      /\ UNCHANGED <<page, holder, forms, draft>> /\ RestTyped'
  BY RestIsTyped DEF SayAlreadySaved, RestTyped, disk, observed
<1> QED BY <1>1, QuitKeeps

\* Whatever the check says: the request is the same, and only one that passes
\* relies on what was read.
LEMMA CheckKeeps ==
  ASSUME TypeInv, ShowInv, NEW u \in Users, NEW st \in {"merge", "releaseRead", "write"},
         pc[u] = "check", pc' = [pc EXCEPT ![u] = st], Remember(u),
         UNCHANGED <<disk, req, forms, draft, observed>>,
         st = "merge" => req[u].rev # 0,
         st = "write" => ~Outdated(u)
  PROVE  TypeInv' /\ ShowInv'
<1>1. PICK i : i = req[u]
  OBVIOUS
<1>2. i \in Request /\ PathInv("check", i) /\ GivenClaim(i) /\ req' = [req EXCEPT ![u] = i]
  BY <1>1, UserTyped, Claims DEF TypeInv, TypeOK
<1>3. i.show = "given"
  BY <1>2 DEF PathInv, SavePCs
<1>4. PathInv(st, i)
  BY <1>1, <1>2 DEF PathInv, SavePCs, ReleasePCs
<1>5. MergedClaim(st, i) /\ LoadClaim(st, i)
  BY <1>3 DEF MergedClaim, LoadClaim
<1>6. WriteClaim(st, i)
  <2> SUFFICES ASSUME st = "write", i.sound, i.alone PROVE i.rev = head
    BY DEF WriteClaim
  <2>1. i.rev # 0 /\ i.rev \in 1..head /\ head \in Nat
    BY <1>2, <1>3, UserTyped DEF GivenClaim, MadeFrom
  <2>2. i.rev = Read(u).rev
    BY <1>1, <2>1 DEF Outdated
  <2>3. Read(u).rev = IF head > 0 THEN head ELSE NoRev
    BY <1>1, ReadTrue
  <2> QED BY <2>1, <2>2, <2>3
<1>7. st \in PCs \ {"put", "unlock"}
  BY DEF PCs
<1> QED BY <1>1, <1>2, <1>4, <1>5, <1>6, <1>7, LookKeeps

LEMMA ChecksKeep ==
  ASSUME TypeInv, ShowInv, NEW u \in Users,
         RaiseEditConflict(u) \/ RaiseUnchanged(u) \/ PassChecks(u)
  PROVE  TypeInv' /\ ShowInv'
<1>1. CASE RaiseEditConflict(u)
  <2>1. req[u].rev # 0
    BY <1>1 DEF RaiseEditConflict, Outdated
  <2> QED BY <1>1, <2>1, CheckKeeps DEF RaiseEditConflict, Goto
<1>2. CASE RaiseUnchanged(u)
  BY <1>2, CheckKeeps DEF RaiseUnchanged, Goto
<1>3. CASE PassChecks(u)
  BY <1>3, CheckKeeps DEF PassChecks, Goto
<1> QED BY <1>1, <1>2, <1>3

LEMMA CouldNotLockKeeps ==
  ASSUME TypeInv, ShowInv, NEW u \in Users, CouldNotLock(u) PROVE TypeInv' /\ ShowInv'
<1>1. /\ pc[u] = "write" /\ UNCHANGED <<page, holder, forms, draft>> /\ RestTyped'
  BY RestIsTyped DEF CouldNotLock, RestTyped, disk, observed
<1>2. CASE Finish(u)
  BY <1>1, <1>2, QuitKeeps
<1>3. CASE req[u].kind # "delete" /\ pc' = [pc EXCEPT ![u] = "lockRead"] /\ UNCHANGED <<req, view>>
  <2>1. PathInv("write", req[u])
    BY <1>1, Claims
  <2>2. req[u].kind = "save" /\ req[u].show = "given"
    BY <1>3, <2>1 DEF PathInv, SavePCs
  <2>3. PathInv("lockRead", req[u])
    BY <2>1, <2>2 DEF PathInv, SavePCs, ReleasePCs
  <2>4. /\ MergedClaim("lockRead", req[u]) /\ LoadClaim("lockRead", req[u])
        /\ WriteClaim("lockRead", req[u])
    BY <2>2 DEF MergedClaim, LoadClaim, WriteClaim
  <2>5. "lockRead" \in PCs
    BY DEF PCs
  <2> QED BY <1>1, <1>3, <2>3, <2>4, <2>5, StayKeeps
<1> QED BY <1>2, <1>3 DEF CouldNotLock, Goto

------------------------------------------------------------------------------
(* The write.  Every other request is interrupted: what there was to say of a *)
(* request that has been alone need not be said any more.                     *)

\* The page after a write: nothing that was there has changed.
Extended ==
  /\ lockMode' = lockMode
  /\ head' \in Nat /\ head <= head'
  /\ DOMAIN pages' \subseteq 1..head' /\ \A r \in DOMAIN pages' : pages'[r] \in Text \ {{}}
  /\ log' \in Seq([rev : Nat, by : Users]) /\ Len(log) <= Len(log')
  /\ \A r \in 1..head : TextOf(r)' = TextOf(r)

LEMMA MadeStays ==
  ASSUME TypeInv, Extended, NEW r, NEW t, MadeFrom(r, t) PROVE MadeFrom(r, t)'
<1>1. r \in 1..head /\ TextOf(r) \subseteq t /\ head \in Nat
  BY UserTyped DEF MadeFrom, TypeInv, TypeOK
<1>2. r \in 1..head' /\ TextOf(r)' = TextOf(r)
  BY <1>1 DEF Extended
<1> QED BY <1>1, <1>2 DEF MadeFrom

LEMMA FormStays ==
  ASSUME TypeInv, Extended, NEW f, FormInv(f) PROVE FormInv(f)'
BY MadeStays DEF FormInv

LEMMA InterruptedStays ==
  ASSUME TypeInv, Extended, NEW u \in Users, NEW st, NEW q \in Request, NEW v \in View,
         RequestInv(u, st, q, v)
  PROVE  RequestInv(u, st, [q EXCEPT !.alone = FALSE], v)'
<1>1. PICK p : p = [q EXCEPT !.alone = FALSE]
  OBVIOUS
<1>2. /\ p.alone = FALSE /\ p.kind = q.kind /\ p.rev = q.rev /\ p.text = q.text
      /\ p.sound = q.sound /\ p.body = q.body /\ p.show = q.show
  BY <1>1 DEF Request
<1>3. PathInv(st, p)
  <2>1. PathInv(st, q)
    BY DEF RequestInv
  <2>2. q = NoRequest => p = NoRequest
    <3>1. PICK no : no = FALSE
      OBVIOUS
    <3>2. NoRequest = [kind |-> "none", rev |-> 0, text |-> {}, sound |-> no,
                       body |-> {}, show |-> "load", alone |-> no]
      BY <3>1 DEF NoRequest
    <3>3. [NoRequest EXCEPT !.alone = no] = NoRequest
      BY <3>2
    <3> QED BY <1>1, <3>1, <3>3
  <2> QED BY <1>2, <2>1, <2>2 DEF PathInv
<1>4. AloneInv(u, p, v)'
  <2>1. v.pos <= Len(log) /\ v.pos \in Int /\ Len(log) \in Nat /\ Len(log') \in Nat
    BY UserTyped DEF RequestInv, AloneInv, View, Extended
  <2>2. v.pos <= Len(log')
    BY <2>1 DEF Extended
  <2> QED BY <1>2, <2>2 DEF AloneInv
<1>5. GivenClaim(p)'
  <2>1. GivenClaim(q)
    BY DEF RequestInv
  <2> QED BY <1>2, <2>1, MadeStays DEF GivenClaim
<1>6. PathInv(st, p)' /\ MergedClaim(st, p)' /\ LoadClaim(st, p)' /\ WriteClaim(st, p)'
  BY <1>2, <1>3 DEF MergedClaim, LoadClaim, WriteClaim, PathInv
<1>7. RequestInv(u, st, p, v)'
  BY <1>4, <1>5, <1>6 DEF RequestInv
<1> QED BY <1>1, <1>7

LEMMA WriteKeeps ==
  ASSUME TypeInv, ShowInv, NEW u \in Users, pc[u] \in {"write", "put", "unlock"},
         holder \subseteq {u}, NEW st \in PCs, NEW q \in Request,
         pc' = [pc EXCEPT ![u] = st], req' = [Interrupt(u) EXCEPT ![u] = q],
         UNCHANGED <<view, forms, sent, editing, told, lockRace, lockFile>>,
         NEW d \in Form, draft' = [draft EXCEPT ![u] = d], FormInv(d),
         Extended, holder' = IF st \in {"put", "unlock"} THEN {u} ELSE {},
         NEW v, v = view[u], RequestInv(u, st, q, v)'
  PROVE  TypeInv' /\ ShowInv'
<1>1. \A x \in Users \ {u} : pc[x] \notin {"put", "unlock"}
  BY DEF TypeInv, TypeOK
<1>2. /\ \A x \in Users \ {u} : req'[x] = [req[x] EXCEPT !.alone = FALSE]
      /\ req'[u] = q /\ req' \in [Users -> Request]
  <2>1. req \in [Users -> Request]
    BY DEF TypeInv, TypeOK
  <2>2. \A x \in Users : [req[x] EXCEPT !.alone = FALSE] \in Request
    BY <2>1 DEF Request
  <2>3. DOMAIN Interrupt(u) = Users /\ \A x \in Users \ {u} :
          Interrupt(u)[x] = [req[x] EXCEPT !.alone = FALSE]
    BY DEF Interrupt
  <2>4. req' = [x \in Users |-> IF x = u THEN q ELSE [req[x] EXCEPT !.alone = FALSE]]
    BY <2>3 DEF Interrupt
  <2> QED BY <2>2, <2>4
<1>3. TypeInv'
  <2>1. /\ pc' \in [Users -> PCs] /\ view' \in [Users -> View]
        /\ forms' \in [Users -> SUBSET Form] /\ draft' \in [Users -> Form]
        /\ lockMode' \in LockModes
    BY DEF TypeInv, TypeOK, Extended
  <2>2. holder' = {x \in Users : pc'[x] \in {"put", "unlock"}}
    BY <1>1 DEF TypeInv, TypeOK
  <2>3. Cardinality(holder') <= 1 /\ \A x, y \in holder' : x = y
    <3>1. Cardinality({}) = 0 /\ Cardinality({u}) = 1
      BY FS_EmptySet, FS_Singleton
    <3> QED BY <3>1
  <2>4. RestTyped'
    BY RestIsTyped DEF RestTyped
  <2> QED BY <1>2, <2>1, <2>2, <2>3, <2>4 DEF TypeInv, TypeOK, RestTyped, Sents, Extended
<1>4. ASSUME NEW x \in Users
      PROVE  /\ RequestInv(x, pc[x], req[x], view[x])'
             /\ FormInv(draft[x])' /\ (\A f \in forms[x] : FormInv(f))'
  <2>1. PICK fs, e : fs = forms[x] /\ e = IF x = u THEN d ELSE draft[x]
    OBVIOUS
  <2>2. (\A f \in fs : FormInv(f)) /\ FormInv(e)
    BY <2>1 DEF ShowInv
  <2>3. (\A f \in fs : FormInv(f))' /\ FormInv(e)'
    BY <2>2, FormStays
  <2>4. forms'[x] = fs /\ draft'[x] = e
    BY <2>1 DEF TypeInv, TypeOK
  <2>5. RequestInv(x, pc[x], req[x], view[x])'
    <3>1. CASE x = u
      <4>1. pc'[x] = st /\ req'[x] = q /\ view'[x] = v
        BY <1>2, <3>1 DEF TypeInv, TypeOK
      <4> QED BY <3>1, <4>1
    <3>2. CASE x # u
      <4>1. PICK s, i, w : s = pc[x] /\ i = req[x] /\ w = view[x]
        OBVIOUS
      <4>2. pc'[x] = s /\ req'[x] = [i EXCEPT !.alone = FALSE] /\ view'[x] = w
        BY <1>2, <3>2, <4>1 DEF TypeInv, TypeOK
      <4>3. i \in Request /\ w \in View /\ RequestInv(x, s, i, w)
        BY <4>1, UserTyped DEF ShowInv
      <4>4. RequestInv(x, s, [i EXCEPT !.alone = FALSE], w)'
        BY <4>3, InterruptedStays
      <4> QED BY <4>2, <4>4
    <3> QED BY <3>1, <3>2
  <2> QED BY <2>3, <2>4, <2>5
<1>5. ShowInv'
  BY <1>4 DEF ShowInv
<1> QED BY <1>3, <1>5

\* A request keeps what it knows over a write of its own.
LEMMA OwnClaims ==
  ASSUME TypeInv, Extended, NEW q \in Request, GivenClaim(q), q.show = "given", NEW st
  PROVE  GivenClaim(q)' /\ MergedClaim(st, q)' /\ LoadClaim(st, q)'
<1>1. GivenClaim(q)'
  BY MadeStays DEF GivenClaim
<1> QED BY <1>1 DEF MergedClaim, LoadClaim

LEMMA SamePage ==
  ASSUME TypeInv, UNCHANGED page PROVE Extended
BY DEF TypeInv, TypeOK, Extended, page, TextOf

LEMMA TakePageKeeps ==
  ASSUME TypeInv, ShowInv, NEW u \in Users, TakePage(u) PROVE TypeInv' /\ ShowInv'
<1>1. PICK q, v : q = req[u] /\ v = view[u]
  OBVIOUS
<1>2. /\ pc[u] = "write" /\ holder = {} /\ holder' = {u} /\ pc' = [pc EXCEPT ![u] = "put"]
      /\ req' = Interrupt(u)
      /\ UNCHANGED <<page, view, forms, draft, sent, editing, told, lockRace, lockFile>>
  BY DEF TakePage, PageFree, Goto, observed
<1>3. Extended
  BY <1>2, SamePage
<1>4. req' = [Interrupt(u) EXCEPT ![u] = q] /\ draft' = [draft EXCEPT ![u] = draft[u]]
  BY <1>1, <1>2 DEF Interrupt, TypeInv, TypeOK
<1>5. /\ q \in Request /\ PathInv("write", q) /\ AloneInv(u, q, v) /\ GivenClaim(q)
      /\ WriteClaim("write", q)
  BY <1>1, <1>2, UserTyped, Claims
<1>6. q.show = "given"
  BY <1>5 DEF PathInv, SavePCs
<1>7. RequestInv(u, "put", q, v)'
  <2>1. PathInv("put", q)
    BY <1>5, <1>6 DEF PathInv, SavePCs
  <2>2. AloneInv(u, q, v)' /\ WriteClaim("put", q)'
    BY <1>2, <1>5 DEF AloneInv, WriteClaim, page
  <2>3. PathInv("put", q)'
    BY <2>1 DEF PathInv
  <2> QED BY <1>3, <1>5, <1>6, <2>2, <2>3, OwnClaims DEF RequestInv
<1>8. "put" \in PCs /\ FormInv(draft[u]) /\ holder' = IF "put" \in {"put", "unlock"} THEN {u} ELSE {}
  BY <1>2 DEF PCs, ShowInv
<1> QED BY <1>1, <1>2, <1>3, <1>4, <1>5, <1>7, <1>8, UserTyped, WriteKeeps

\* Whoever writes owns the page alone.
LEMMA WriterOwns ==
  ASSUME TypeInv, NEW u \in Users, pc[u] \in {"put", "unlock"} PROVE holder = {u}
BY DEF TypeInv, TypeOK

\* A revision is added; the ones before it are as they were.
LEMMA PutExtends ==
  ASSUME TypeInv, ShowInv, NEW u \in Users, PutRevision(u)
  PROVE  /\ Extended /\ Len(log') = Len(log) + 1
         /\ req[u].kind = "save" => pages'[head'] = req[u].text /\ head' \in DOMAIN pages'
         /\ \A r \in DOMAIN pages : r \in DOMAIN pages' /\ pages'[r] = pages[r]
<1>1. /\ pc[u] = "put" /\ head' = head + 1 /\ lockMode' = lockMode
      /\ log' = Append(log, [rev |-> head + 1, by |-> u])
      /\ pages' = IF req[u].kind = "delete" THEN pages ELSE Put(pages, head + 1, req[u].text)
  BY DEF PutRevision
<1>2. /\ head \in Nat /\ DOMAIN pages \subseteq 1..head
      /\ \A r \in DOMAIN pages : pages[r] \in Text \ {{}}
      /\ log \in Seq([rev : Nat, by : Users]) /\ lockMode \in LockModes
  BY DEF TypeInv, TypeOK
<1>3. req[u].kind # "delete" => req[u].kind = "save" /\ req[u].text \in Text \ {{}}
  BY <1>1, UserTyped, Claims DEF PathInv, Request
<1>4. log' \in Seq([rev : Nat, by : Users]) /\ Len(log') = Len(log) + 1
  BY <1>1, <1>2
<1>5. CASE req[u].kind = "delete"
  <2>1. pages' = pages
    BY <1>1, <1>5
  <2> QED BY <1>1, <1>2, <1>4, <1>5, <2>1, UserTyped DEF Extended, TextOf
<1>6. CASE req[u].kind # "delete"
  <2>1. /\ DOMAIN pages' = DOMAIN pages \cup {head + 1}
        /\ pages'[head + 1] = req[u].text
        /\ \A r \in DOMAIN pages : r # head + 1 => pages'[r] = pages[r]
    BY <1>1, <1>6 DEF Put
  <2>2. \A r \in 1..head : r # head + 1
    BY <1>2
  <2>3. \A r \in DOMAIN pages' : pages'[r] \in Text \ {{}}
    BY <1>2, <1>3, <1>6, <2>1, <2>2
  <2>4. \A r \in 1..head : TextOf(r)' = TextOf(r)
    BY <2>1, <2>2 DEF TextOf
  <2>5. DOMAIN pages' \subseteq 1..head' /\ head' \in Nat /\ head <= head'
    BY <1>1, <1>2, <2>1
  <2>6. Extended
    BY <1>1, <1>4, <2>3, <2>4, <2>5, UserTyped DEF Extended
  <2> QED BY <1>1, <1>2, <1>4, <2>1, <2>2, <2>6
<1> QED BY <1>5, <1>6

LEMMA PutRevisionKeeps ==
  ASSUME TypeInv, ShowInv, NEW u \in Users, PutRevision(u) PROVE TypeInv' /\ ShowInv'
<1>1. PICK q, v : q = req[u] /\ v = view[u]
  OBVIOUS
<1>2. /\ pc[u] = "put" /\ pc' = [pc EXCEPT ![u] = "unlock"] /\ req' = Interrupt(u)
      /\ UNCHANGED <<holder, view, forms, draft, sent, editing, told, lockRace, lockFile>>
  BY DEF PutRevision, Goto, observed
<1>3. Extended /\ Len(log') = Len(log) + 1 /\ holder = {u} /\ holder' = {u}
  BY <1>2, PutExtends, WriterOwns
<1>4. req' = [Interrupt(u) EXCEPT ![u] = q] /\ draft' = [draft EXCEPT ![u] = draft[u]]
  BY <1>1, <1>2 DEF Interrupt, TypeInv, TypeOK
<1>5. q \in Request /\ v \in View /\ PathInv("put", q) /\ AloneInv(u, q, v) /\ GivenClaim(q)
  BY <1>1, <1>2, UserTyped, Claims
<1>6. q.show = "given"
  BY <1>5 DEF PathInv, SavePCs
<1>7. RequestInv(u, "unlock", q, v)'
  <2>1. PathInv("unlock", q)
    BY <1>5, <1>6 DEF PathInv, SavePCs
  <2>2. AloneInv(u, q, v)'
    <3>1. v.pos <= Len(log) /\ v.pos \in Int /\ Len(log) \in Nat
      BY <1>5, UserTyped DEF AloneInv, View
    <3> QED BY <1>3, <3>1 DEF AloneInv
  <2>3. PathInv("unlock", q)' /\ WriteClaim("unlock", q)'
    BY <2>1 DEF PathInv, WriteClaim
  <2> QED BY <1>3, <1>5, <1>6, <2>2, <2>3, OwnClaims DEF RequestInv
<1>8. /\ "unlock" \in PCs /\ FormInv(draft[u])
      /\ holder' = IF "unlock" \in {"put", "unlock"} THEN {u} ELSE {}
  BY <1>3 DEF PCs, ShowInv
<1> QED BY <1>1, <1>2, <1>3, <1>4, <1>5, <1>7, <1>8, UserTyped, WriteKeeps

LEMMA GiveBackKeeps ==
  ASSUME TypeInv, ShowInv, NEW u \in Users, GiveBack(u) PROVE TypeInv' /\ ShowInv'
<1>1. PICK i, v : i = req[u] /\ v = view[u]
  OBVIOUS
<1>2. PICK k : k = IF i.kind = "save" THEN "saved" ELSE i.kind
  OBVIOUS
<1>3. PICK q : q = [i EXCEPT !.kind = k]
  OBVIOUS
<1>4. /\ pc[u] = "unlock" /\ holder' = {} /\ pc' = [pc EXCEPT ![u] = "releaseRead"]
      /\ draft' = KillDraft(u)
      /\ UNCHANGED <<page, view, forms, sent, editing, told, lockRace, lockFile>>
  BY DEF GiveBack, Goto, observed
<1>5. Extended /\ holder = {u}
  BY <1>4, SamePage, WriterOwns
<1>6. i \in Request /\ PathInv("unlock", i) /\ AloneInv(u, i, v) /\ GivenClaim(i)
  BY <1>1, <1>4, UserTyped, Claims
<1>7. req' = [Interrupt(u) EXCEPT ![u] = q]
  <2>1. Interrupt(u)[u] = i /\ DOMAIN Interrupt(u) = Users
    BY <1>1 DEF Interrupt
  <2>2. req' = [Interrupt(u) EXCEPT ![u].kind = k]
    BY <1>2, <2>1 DEF GiveBack
  <2> QED BY <1>3, <2>1, <2>2
<1>8. PICK d : d = IF i.kind = "save" THEN NoForm ELSE draft[u]
  OBVIOUS
<1>9. d \in Form /\ FormInv(d) /\ draft' = [draft EXCEPT ![u] = d]
  <2>1. draft' = [draft EXCEPT ![u] = d]
    BY <1>1, <1>4, <1>8 DEF KillDraft, TypeInv, TypeOK
  <2>2. NoForm \in Form /\ FormInv(NoForm) /\ draft[u] \in Form /\ FormInv(draft[u])
    BY NoneTyped, UserTyped DEF NoForm, FormInv, ShowInv
  <2> QED BY <1>8, <2>1, <2>2
<1>10. /\ q \in Request /\ q.alone = i.alone /\ q.sound = i.sound /\ q.rev = i.rev
       /\ q.show = i.show /\ q.body = i.body /\ q.kind = k /\ q.text = i.text
  BY <1>2, <1>3, <1>6 DEF Request
<1>11. i.show = "given" /\ q.show = "given" /\ GivenClaim(q)
  BY <1>6, <1>10 DEF PathInv, SavePCs, GivenClaim
<1>12. RequestInv(u, "releaseRead", q, v)'
  <2>1. PathInv("releaseRead", q)
    BY <1>2, <1>6, <1>10, <1>11 DEF PathInv, SavePCs, ReleasePCs
  <2>2. AloneInv(u, q, v)'
    BY <1>4, <1>6, <1>10 DEF AloneInv, page
  <2>3. PathInv("releaseRead", q)' /\ WriteClaim("releaseRead", q)'
    BY <2>1 DEF PathInv, WriteClaim
  <2> QED BY <1>5, <1>10, <1>11, <2>2, <2>3, OwnClaims DEF RequestInv
<1>13. /\ "releaseRead" \in PCs
       /\ holder' = IF "releaseRead" \in {"put", "unlock"} THEN {u} ELSE {}
  BY <1>4 DEF PCs
<1> QED BY <1>1, <1>4, <1>5, <1>7, <1>9, <1>10, <1>12, <1>13, WriteKeeps

\* The locking period passes.
LEMMA ExpireTyped ==
  ASSUME TypeInv, Expire
  PROVE  lockFile' \in Seq(LockLine) /\ DOMAIN lockFile' = DOMAIN lockFile
<1>1. lockFile \in Seq(LockLine)
  BY RestIsTyped DEF RestTyped
<1>2. \A i \in DOMAIN lockFile : [lockFile[i] EXCEPT !.stale = TRUE] \in LockLine
  <2>1. \A i \in DOMAIN lockFile : lockFile[i] \in LockLine
    BY <1>1
  <2>2. \A l \in LockLine : [l EXCEPT !.stale = TRUE] \in LockLine
    BY DEF LockLine
  <2> QED BY <2>1, <2>2
<1>3. lockFile' = [i \in DOMAIN lockFile |-> [lockFile[i] EXCEPT !.stale = TRUE]]
  BY DEF Expire
<1> QED BY <1>1, <1>2, <1>3

LEMMA ExpireKeeps ==
  ASSUME TypeInv, ShowInv, Expire PROVE TypeInv' /\ ShowInv'
<1>1. /\ UNCHANGED <<page, holder, pc, req, view, forms, draft, sent, editing, lockRace>>
      /\ lockFile' = [i \in DOMAIN lockFile |-> [lockFile[i] EXCEPT !.stale = TRUE]]
      /\ told' = [u \in Users |-> FALSE]
  BY DEF Expire, session
<1>2. RestTyped'
  BY <1>1, ExpireTyped, RestIsTyped DEF RestTyped
<1>3. TypeInv'
  BY <1>1, <1>2 DEF TypeInv, TypeOK, RestTyped, Sents, page
<1>4. ShowInv'
  BY <1>1 DEF ShowInv, RequestInv, PathInv, AloneInv, GivenClaim, MergedClaim, LoadClaim,
              WriteClaim, FormInv, MadeFrom, TextOf, page
<1> QED BY <1>3, <1>4

------------------------------------------------------------------------------
(* The two invariants, and what follows from them. *)

LEMMA InitHolds ==
  Init => TypeInv /\ ShowInv
<1> SUFFICES ASSUME Init PROVE TypeInv /\ ShowInv
  OBVIOUS
<1>1. \A r \in 1..head : pages[r] = {1} /\ {1} \in Text \ {{}}
  BY ConstantsAssumption DEF Init, Text, Edit
<1>2. /\ head \in Nat /\ DOMAIN pages = 1..head /\ log = <<>> /\ Len(log) = 0
      /\ log \in Seq([rev : Nat, by : Users]) /\ lockFile \in Seq(LockLine)
  BY DEF Init
<1>3. Cardinality(holder) = 0 /\ holder = {u \in Users : pc[u] \in {"put", "unlock"}}
  BY FS_EmptySet DEF Init
<1>4. /\ pc \in [Users -> PCs] /\ req \in [Users -> Request] /\ view \in [Users -> View]
      /\ forms \in [Users -> SUBSET Form] /\ draft \in [Users -> Form]
  BY NoneTyped DEF Init, PCs
<1>5. sent \in Sents
  BY NoneTyped DEF Init, Sents
<1>6. TypeInv
  <2>1. \A r \in DOMAIN pages : pages[r] \in Text \ {{}}
    BY <1>1, <1>2
  <2>2. RestTyped /\ lockMode \in LockModes
    BY <1>2, <1>5 DEF RestTyped, Init
  <2>3. Cardinality(holder) <= 1 /\ \A u, v \in holder : u = v
    BY <1>3 DEF Init
  <2> QED BY <1>2, <1>3, <1>4, <2>1, <2>2, <2>3 DEF TypeInv, TypeOK, Sents, RestTyped
<1>7. ASSUME NEW u \in Users
      PROVE  /\ RequestInv(u, pc[u], req[u], view[u]) /\ FormInv(draft[u])
             /\ \A f \in forms[u] : FormInv(f)
  <2>1. pc[u] = "idle" /\ req[u] = NoRequest /\ view[u] = NoView /\ draft[u] = NoForm
        /\ forms[u] = {}
    BY DEF Init
  <2>2. AloneInv(u, NoRequest, NoView)
    BY <1>2 DEF AloneInv, NoRequest, NoView
  <2>3. RequestInv(u, "idle", NoRequest, NoView) /\ FormInv(NoForm)
    BY <2>2 DEF RequestInv, PathInv, GivenClaim, MergedClaim, LoadClaim, WriteClaim, NoRequest,
                SavePCs, ReleasePCs, FormInv, NoForm
  <2> QED BY <2>1, <2>3
<1> QED BY <1>6, <1>7 DEF ShowInv

LEMMA NextKeeps ==
  ASSUME TypeInv, ShowInv, Next PROVE TypeInv' /\ ShowInv'
<1>1. CASE Expire
  BY <1>1, ExpireKeeps
<1>2. ASSUME NEW u \in Users,
             \/ Open(u) \/ LoadDraft(u) \/ Preview(u) \/ Save(u) \/ Cancel(u) \/ Delete(u)
      PROVE  TypeInv' /\ ShowInv'
  BY <1>2, ArrivalsKeep
<1>3. ASSUME NEW u \in Users,
             \/ LockRead(u) \/ LockRemove(u) \/ LockAdd(u) \/ ReleaseRead(u) \/ ReleaseRemove(u)
      PROVE  TypeInv' /\ ShowInv'
  BY <1>3, LockReadKeeps, LockRemoveKeeps, LockAddKeeps, ReleaseReadKeeps, ReleaseRemoveKeeps
<1>4. ASSUME NEW u \in Users,
             \/ ShowAgain(u) \/ FindConflict(u) \/ FindRevision(u) \/ MergeEditConflict(u)
             \/ Reread(u) \/ SendForm(u)
      PROVE  TypeInv' /\ ShowInv'
  BY <1>4, ShowAgainKeeps, FindConflictKeeps, FindRevisionKeeps, MergeEditConflictKeeps,
     RereadKeeps, SendFormKeeps
<1>5. ASSUME NEW u \in Users,
             \/ SayAlreadySaved(u) \/ RaiseEditConflict(u) \/ RaiseUnchanged(u) \/ PassChecks(u)
             \/ CouldNotLock(u) \/ TakePage(u) \/ PutRevision(u) \/ GiveBack(u)
      PROVE  TypeInv' /\ ShowInv'
  BY <1>5, SayAlreadySavedKeeps, ChecksKeep, CouldNotLockKeeps, TakePageKeeps,
     PutRevisionKeeps, GiveBackKeeps
<1> QED BY <1>1, <1>2, <1>3, <1>4, <1>5 DEF Next

LEMMA StutterKeeps ==
  ASSUME TypeInv, ShowInv, UNCHANGED vars PROVE TypeInv' /\ ShowInv'
<1>1. UNCHANGED <<lockMode, head, pages, log, holder, lockFile, pc, req, view, forms, draft,
                  sent, editing, told, lockRace>>
  BY DEF vars, disk, page, session, observed
<1>2. TypeInv'
  BY <1>1 DEF TypeInv, TypeOK
<1>3. ShowInv'
  BY <1>1 DEF ShowInv, RequestInv, PathInv, AloneInv, GivenClaim, MergedClaim, LoadClaim,
              WriteClaim, FormInv, MadeFrom, TextOf
<1> QED BY <1>2, <1>3

\* At each step of sendEditor and saveText what the request holds is what the page,
\* the form or the draft said when it was read (the inductive invariant of the
\* theorems on forms and edits).
THEOREM EditorInvariant == Spec => [](TypeInv /\ ShowInv)
<1>1. TypeInv /\ ShowInv /\ [Next]_vars => (TypeInv /\ ShowInv)'
  BY NextKeeps, StutterKeeps
<1> QED BY <1>1, InitHolds, PTL DEF Spec

\* Every variable keeps its type, and no two requests write the page at once: the
\* mutual exclusion that renaming `current` away gives.
THEOREM TypeCorrect == Spec => []TypeOK
<1>1. TypeInv /\ ShowInv => TypeOK
  BY DEF TypeInv
<1> QED BY <1>1, EditorInvariant, PTL

\* A form that a request made undisturbed shows, or contains after a merge, all the
\* text of the revision whose number it carries, however many saves lie between.
THEOREM FormsShowTheirRevision == Spec => []FormShowsItsRevision
<1>1. TypeInv /\ ShowInv => FormShowsItsRevision
  BY DEF ShowInv, FormInv, MadeFrom, FormShowsItsRevision
<1> QED BY <1>1, EditorInvariant, PTL

\* The page only changes when a request puts a revision.
LEMMA OnlyPutChanges ==
  ASSUME Next, head' # head PROVE \E u \in Users : PutRevision(u)
<1>1. ASSUME Expire PROVE FALSE
  BY <1>1 DEF Expire, page
<1>2. ASSUME NEW u \in Users,
             \/ Open(u) \/ LoadDraft(u) \/ Preview(u) \/ Save(u) \/ Cancel(u) \/ Delete(u)
      PROVE  FALSE
  BY <1>2 DEF Open, LoadDraft, Preview, Save, Cancel, Delete, Submit, Arrive, disk, page
<1>3. ASSUME NEW u \in Users,
             \/ LockRead(u) \/ LockRemove(u) \/ LockAdd(u) \/ ReleaseRead(u) \/ ReleaseRemove(u)
      PROVE  FALSE
  BY <1>3 DEF LockRead, LockRemove, LockAdd, ReleaseRead, ReleaseRemove, disk, page
<1>4. ASSUME NEW u \in Users,
             \/ ShowAgain(u) \/ FindConflict(u) \/ FindRevision(u) \/ MergeEditConflict(u)
             \/ Reread(u) \/ SendForm(u)
      PROVE  FALSE
  BY <1>4 DEF ShowAgain, FindConflict, FindRevision, MergeEditConflict, Reread, SendForm,
              disk, page
<1>5. ASSUME NEW u \in Users,
             \/ SayAlreadySaved(u) \/ RaiseEditConflict(u) \/ RaiseUnchanged(u) \/ PassChecks(u)
             \/ CouldNotLock(u) \/ TakePage(u) \/ GiveBack(u)
      PROVE  FALSE
  BY <1>5 DEF SayAlreadySaved, RaiseEditConflict, RaiseUnchanged, PassChecks, CouldNotLock,
              TakePage, GiveBack, disk, page
<1> QED BY <1>1, <1>2, <1>3, <1>4, <1>5 DEF Next

LEMMA PutKeepsText ==
  ASSUME TypeInv, ShowInv, NEW w \in Users, PutRevision(w), NEW u \in Users, pc[u] = "put",
         req[u].kind = "save", req[u].sound, req[u].alone
  PROVE  TextOf(head) \subseteq pages'[head']
<1>1. u = w
  <2>1. pc[w] = "put"
    BY DEF PutRevision
  <2> QED BY <2>1, WriterOwns
<1>2. /\ PathInv("put", req[u]) /\ GivenClaim(req[u]) /\ WriteClaim("put", req[u])
  BY Claims
<1>3. TextOf(req[u].rev) \subseteq req[u].text /\ req[u].rev = head
  BY <1>2 DEF PathInv, SavePCs, GivenClaim, MadeFrom, WriteClaim
<1> QED BY <1>1, <1>3, PutExtends

\* Saving never makes somebody's edit disappear, if no other request wrote during
\* the requests that made the form and the one that saved it: the comparison of the
\* number in the form with the current one finds every save between them.
THEOREM NoEditIsLost == Spec => NoEditLost
<1> DEFINE A == \A u \in Users :
                  /\ pc[u] = "put" /\ pc'[u] = "unlock"
                  /\ req[u].kind = "save" /\ req[u].sound /\ req[u].alone
                  => TextOf(head) \subseteq pages'[head']
<1>1. TypeInv /\ ShowInv /\ [Next]_vars => [A]_head
  <2> SUFFICES ASSUME TypeInv, ShowInv, [Next]_vars, head' # head PROVE A
    OBVIOUS
  <2>1. Next
    BY DEF vars, disk, page
  <2>2. PICK w \in Users : PutRevision(w)
    BY <2>1, OnlyPutChanges
  <2> QED BY <2>2, PutKeepsText
<1>2. Spec => [][A]_head
  <2> HIDE DEF A
  <2> QED BY <1>1, EditorInvariant, PTL DEF Spec
<1> QED BY <1>2 DEF NoEditLost

\* What the merge for an edit conflict does: if the author took nothing out of the
\* revision the editing began with, the result has all that was saved meanwhile,
\* unless the editing began with no revision at all.  So the number 0, for which
\* the current text is taken as its own original, is the only way to lose it.
LEMMA MergeHasSaved ==
  ASSUME NEW u \in Users, MergeEditConflict(u), TypeInv,
         req[u].rev # 0, TextOf(req[u].rev) \subseteq req[u].body
  PROVE  TextOf(Read(u).rev) \subseteq req'[u].body
<1>1. TextOf(Read(u).rev) \subseteq Merged(u)
  BY MergeContains DEF Merged
<1>2. req'[u].body = IF Merged(u) = {} THEN req[u].body ELSE Merged(u)
  BY UserTyped DEF MergeEditConflict, TypeInv, TypeOK, Request
<1> QED BY <1>1, <1>2

\* Only one's own request goes on.
LEMMA OnlyMergeMerges ==
  ASSUME TypeInv, Next, NEW u \in Users, pc[u] = "merge", pc'[u] # "merge"
  PROVE  MergeEditConflict(u)
<1>0. pc \in [Users -> PCs]
  BY DEF TypeInv, TypeOK
<1>1. ASSUME Expire PROVE FALSE
  BY <1>1 DEF Expire, session
<1>2. ASSUME NEW w \in Users,
             \/ Open(w) \/ LoadDraft(w) \/ Preview(w) \/ Save(w) \/ Cancel(w) \/ Delete(w)
      PROVE  FALSE
  BY <1>0, <1>2 DEF Open, LoadDraft, Preview, Save, Cancel, Delete, Submit, Arrive, Goto
<1>3. ASSUME NEW w \in Users,
             \/ LockRead(w) \/ LockRemove(w) \/ LockAdd(w) \/ ReleaseRead(w) \/ ReleaseRemove(w)
      PROVE  FALSE
  BY <1>0, <1>3 DEF LockRead, LockRemove, LockAdd, ReleaseRead, ReleaseRemove, Released, Finish,
                    Goto
<1>4. ASSUME NEW w \in Users,
             \/ ShowAgain(w) \/ FindConflict(w) \/ FindRevision(w) \/ Reread(w) \/ SendForm(w)
      PROVE  FALSE
  BY <1>0, <1>4 DEF ShowAgain, FindConflict, FindRevision, Reread, SendForm, Serve, Finish, Goto
<1>5. ASSUME NEW w \in Users,
             \/ SayAlreadySaved(w) \/ RaiseEditConflict(w) \/ RaiseUnchanged(w) \/ PassChecks(w)
             \/ CouldNotLock(w) \/ TakePage(w) \/ PutRevision(w) \/ GiveBack(w)
      PROVE  FALSE
  BY <1>0, <1>5 DEF SayAlreadySaved, RaiseEditConflict, RaiseUnchanged, PassChecks,
                    CouldNotLock, TakePage, PutRevision, GiveBack, Finish, Goto
<1>6. ASSUME NEW w \in Users, MergeEditConflict(w) PROVE u = w
  BY <1>0, <1>6 DEF MergeEditConflict, Goto
<1> QED BY <1>1, <1>2, <1>3, <1>4, <1>5, <1>6 DEF Next

\* The merge for an edit conflict keeps what was saved meanwhile, if the page existed
\* when the editing began and the user took nothing out of it.  Without the first
\* condition it is what MergeKeepsSaved says, and the code does otherwise.
THEOREM MergeKeepsSavedOfOldPages ==
  Spec => [][\A u \in Users :
               /\ pc[u] = "merge" /\ pc'[u] # "merge" /\ req[u].rev # 0
               /\ TextOf(req[u].rev) \subseteq req[u].body
               => TextOf(Read(u).rev) \subseteq req'[u].body]_pc
<1> DEFINE A == \A u \in Users :
                  /\ pc[u] = "merge" /\ pc'[u] # "merge" /\ req[u].rev # 0
                  /\ TextOf(req[u].rev) \subseteq req[u].body
                  => TextOf(Read(u).rev) \subseteq req'[u].body
<1>1. TypeInv /\ ShowInv /\ [Next]_vars => [A]_pc
  <2> SUFFICES ASSUME TypeInv, [Next]_vars, pc' # pc PROVE A
    OBVIOUS
  <2>1. Next
    BY DEF vars, session
  <2> QED BY <2>1, OnlyMergeMerges, MergeHasSaved
<1>2. Spec => [][A]_pc
  <2> HIDE DEF A
  <2> QED BY <1>1, EditorInvariant, PTL DEF Spec
<1> QED BY <1>2

------------------------------------------------------------------------------
(* What a step of one user leaves alone of the others. *)

Undisturbed(x) ==
  /\ pc'[x] = pc[x] /\ req'[x].kind = req[x].kind /\ req'[x].text = req[x].text
  /\ req'[x].show = req[x].show
  /\ sent'[x] = sent[x] /\ draft'[x] = draft[x] /\ editing'[x] = editing[x]
  /\ told'[x] = told[x]

LEMMA FunctionsTyped ==
  ASSUME TypeInv
  PROVE  /\ pc \in [Users -> PCs] /\ req \in [Users -> Request] /\ draft \in [Users -> Form]
         /\ editing \in [Users -> BOOLEAN] /\ told \in [Users -> BOOLEAN] /\ DOMAIN sent = Users
BY DEF TypeInv, TypeOK

LEMMA InterruptLeaves ==
  ASSUME TypeInv, NEW u \in Users, NEW x \in Users, req' = Interrupt(u)
  PROVE  /\ req'[x].kind = req[x].kind /\ req'[x].text = req[x].text
         /\ req'[x].show = req[x].show
<1>1. req[x] \in Request
  BY UserTyped
<1>2. req'[x] = IF x = u THEN req[x] ELSE [req[x] EXCEPT !.alone = FALSE]
  BY DEF Interrupt
<1> QED BY <1>1, <1>2 DEF Request

LEMMA OthersUndisturbed ==
  ASSUME TypeInv, NEW u \in Users, NEW x \in Users \ {u},
         \/ Open(u) \/ LoadDraft(u) \/ Preview(u) \/ Save(u) \/ Cancel(u) \/ Delete(u)
         \/ LockRead(u) \/ LockRemove(u) \/ LockAdd(u) \/ ReleaseRead(u) \/ ReleaseRemove(u)
         \/ ShowAgain(u) \/ FindConflict(u) \/ FindRevision(u) \/ MergeEditConflict(u)
         \/ Reread(u) \/ SendForm(u)
         \/ SayAlreadySaved(u) \/ RaiseEditConflict(u) \/ RaiseUnchanged(u) \/ PassChecks(u)
         \/ TakePage(u) \/ CouldNotLock(u) \/ PutRevision(u) \/ GiveBack(u)
  PROVE  Undisturbed(x)
<1> USE FunctionsTyped
<1>1. CASE \/ Open(u) \/ LoadDraft(u) \/ Preview(u) \/ Save(u) \/ Cancel(u) \/ Delete(u)
  BY <1>1 DEF Open, LoadDraft, Preview, Save, Cancel, Delete, Submit, DraftOf, Arrive, Goto,
              Undisturbed
<1>2. CASE \/ LockRead(u) \/ LockRemove(u) \/ LockAdd(u) \/ ReleaseRead(u) \/ ReleaseRemove(u)
  BY <1>2 DEF LockRead, LockRemove, LockAdd, ReleaseRead, ReleaseRemove, Released, Finish, Goto,
              counters, observed, Undisturbed
<1>3. CASE \/ ShowAgain(u) \/ FindConflict(u) \/ FindRevision(u) \/ MergeEditConflict(u)
           \/ Reread(u) \/ SendForm(u)
  BY <1>3 DEF ShowAgain, FindConflict, FindRevision, MergeEditConflict, Reread, SendForm,
              Serve, Finish, Goto, observed, Undisturbed
<1>4. CASE \/ SayAlreadySaved(u) \/ RaiseEditConflict(u) \/ RaiseUnchanged(u) \/ PassChecks(u)
           \/ CouldNotLock(u)
  BY <1>4 DEF SayAlreadySaved, RaiseEditConflict, RaiseUnchanged, PassChecks, CouldNotLock,
              Finish, Goto, observed, Undisturbed
<1>5. CASE TakePage(u) \/ PutRevision(u)
  BY <1>5, InterruptLeaves DEF TakePage, PutRevision, Goto, observed, Undisturbed
<1>6. CASE GiveBack(u)
  <2>1. /\ DOMAIN Interrupt(u) = Users
        /\ Interrupt(u)[x] = [req[x] EXCEPT !.alone = FALSE] /\ req[x] \in Request
    BY DEF Interrupt
  <2>2. req'[x] = [req[x] EXCEPT !.alone = FALSE]
    BY <1>6, <2>1 DEF GiveBack
  <2> QED BY <1>6, <2>1, <2>2 DEF GiveBack, KillDraft, Goto, observed, Undisturbed, Request
<1> QED BY <1>1, <1>2, <1>3, <1>4, <1>5, <1>6

------------------------------------------------------------------------------
(* Nothing a user sent is lost. *)

SavesStay == \A t : Saved(t) => Saved(t)'

LEMMA SamePagesSave ==
  ASSUME pages' = pages PROVE SavesStay
BY DEF SavesStay, Saved

\* A user whose text nobody touches.
LEMMA SentStays ==
  ASSUME NEW x \in Users, SentInv(x), SavesStay, pc'[x] = "unlock" => pc[x] = "unlock",
         sent'[x] = sent[x], draft'[x] = draft[x],
         req'[x].kind \in {"save", "preview"} =>
           req'[x].kind = req[x].kind /\ req'[x].text = req[x].text
  PROVE  SentInv(x)'
BY DEF SentInv, SavesStay

\* Steps that neither send a text nor touch the draft.
LEMMA PlainStepsKeepSent ==
  ASSUME TypeInv, NEW u \in Users, SentInv(u),
         \/ Open(u) \/ LoadDraft(u) \/ Delete(u)
         \/ LockRead(u) \/ LockRemove(u) \/ LockAdd(u) \/ ReleaseRead(u) \/ ReleaseRemove(u)
         \/ FindConflict(u) \/ FindRevision(u) \/ MergeEditConflict(u)
         \/ Reread(u) \/ SendForm(u)
         \/ SayAlreadySaved(u) \/ RaiseEditConflict(u) \/ RaiseUnchanged(u) \/ PassChecks(u)
         \/ TakePage(u) \/ CouldNotLock(u)
  PROVE  SentInv(u)' /\ SavesStay
<1> USE FunctionsTyped
<1>1. pages' = pages /\ sent' = sent /\ draft' = draft
  <2>1. CASE Open(u) \/ LoadDraft(u) \/ Delete(u)
    BY <2>1 DEF Open, LoadDraft, Delete, Arrive, disk, page
  <2>2. CASE \/ LockRead(u) \/ LockRemove(u) \/ LockAdd(u) \/ ReleaseRead(u) \/ ReleaseRemove(u)
    BY <2>2 DEF LockRead, LockRemove, LockAdd, ReleaseRead, ReleaseRemove, disk, page, observed
  <2>3. CASE \/ FindConflict(u) \/ FindRevision(u) \/ MergeEditConflict(u) \/ Reread(u)
             \/ SendForm(u)
    BY <2>3 DEF FindConflict, FindRevision, MergeEditConflict, Reread, SendForm, disk, page,
                observed
  <2>4. CASE \/ SayAlreadySaved(u) \/ RaiseEditConflict(u) \/ RaiseUnchanged(u) \/ PassChecks(u)
             \/ TakePage(u) \/ CouldNotLock(u)
    BY <2>4 DEF SayAlreadySaved, RaiseEditConflict, RaiseUnchanged, PassChecks, TakePage,
                CouldNotLock, disk, page, observed
  <2> QED BY <2>1, <2>2, <2>3, <2>4
<1>2. /\ pc'[u] # "unlock"
      /\ req'[u].kind \in {"save", "preview"} =>
           req'[u].kind = req[u].kind /\ req'[u].text = req[u].text
  <2>1. CASE Open(u) \/ LoadDraft(u) \/ Delete(u)
    BY <2>1 DEF Open, LoadDraft, Delete, Arrive, Goto
  <2>2. CASE \/ LockRead(u) \/ LockRemove(u) \/ LockAdd(u) \/ ReleaseRead(u) \/ ReleaseRemove(u)
    BY <2>2 DEF LockRead, LockRemove, LockAdd, ReleaseRead, ReleaseRemove, Released, Finish,
                Goto, NoRequest
  <2>3. CASE \/ FindConflict(u) \/ FindRevision(u) \/ MergeEditConflict(u) \/ Reread(u)
    <3>1. req[u] \in Request
      OBVIOUS
    <3> QED BY <2>3, <3>1 DEF FindConflict, FindRevision, MergeEditConflict, Reread, Goto, Request
  <2>4. CASE SendForm(u)
    BY <2>4 DEF SendForm, Serve, Finish, Goto, NoRequest
  <2>5. CASE SayAlreadySaved(u) \/ RaiseEditConflict(u) \/ RaiseUnchanged(u)
    BY <2>5 DEF SayAlreadySaved, RaiseEditConflict, RaiseUnchanged, Finish, Goto, NoRequest
  <2>6. CASE PassChecks(u)
    BY <2>6 DEF PassChecks, Goto
  <2>7. CASE CouldNotLock(u)
    BY <2>7 DEF CouldNotLock, Finish, Goto, NoRequest
  <2>8. CASE TakePage(u)
    BY <2>8, InterruptLeaves DEF TakePage, Goto
  <2> QED BY <2>1, <2>2, <2>3, <2>4, <2>5, <2>6, <2>7, <2>8
<1>3. SavesStay
  BY <1>1, SamePagesSave
<1> QED BY <1>1, <1>2, <1>3, SentStays

\* A text is sent, which Save and Cancel keep as the draft.
LEMMA SubmitSends ==
  ASSUME TypeInv, NEW u \in Users, Preview(u) \/ Save(u) \/ Cancel(u)
  PROVE  SentInv(u)' /\ SavesStay
<1>1. PICK kind \in {"preview", "save", "cancel"}, st \in {"lockRead", "check", "releaseRead"} :
        Submit(u, kind, st)
  BY DEF Preview, Save, Cancel
<1>2. PICK f, t : /\ f \in forms[u]
                  /\ Arrive(u, kind, [f EXCEPT !.text = t], st)
                  /\ sent' = [sent EXCEPT ![u] = [kind |-> kind, text |-> t]]
                  /\ draft' = DraftOf(u, kind, [f EXCEPT !.text = t])
  BY <1>1 DEF Submit
<1>3. PICK form : form = [f EXCEPT !.text = t]
  OBVIOUS
<1>4. form.text = t
  BY <1>3, UserTyped DEF Form
<1>5. req'[u].kind = kind /\ req'[u].text = t /\ pc'[u] = st /\ pages' = pages
  BY <1>2, <1>3, <1>4, FunctionsTyped DEF Arrive, Goto, disk, page
<1>6. sent'[u] = [kind |-> kind, text |-> t] /\ (kind # "preview" => draft'[u].text = t)
  BY <1>2, <1>3, <1>4, FunctionsTyped DEF DraftOf
<1>7. SentInv(u)'
  BY <1>5, <1>6 DEF SentInv
<1> QED BY <1>5, <1>7, SamePagesSave

\* A text that fits the page is the draft of a user who sent it with Save.
LEMMA ShowAgainSent ==
  ASSUME TypeInv, ShowInv, NEW u \in Users, SentInv(u), ShowAgain(u)
  PROVE  SentInv(u)' /\ SavesStay
<1>1. /\ pc'[u] = "idle" /\ req'[u].kind = "none" /\ sent' = sent /\ pages' = pages
      /\ pc[u] = "revision" /\ req[u].show = "given"
  BY FunctionsTyped DEF ShowAgain, Serve, Finish, Goto, NoRequest, disk, page
<1>2. SavesStay
  BY <1>1, SamePagesSave
<1>3. CASE req[u].kind = "draft"
  <2>1. draft' = draft
    BY <1>3 DEF ShowAgain
  <2> QED BY <1>1, <1>2, <2>1, SentStays
<1>4. CASE req[u].kind # "draft"
  <2>1. draft'[u].text = req[u].text
    BY <1>4, FunctionsTyped DEF ShowAgain, FormOf
  <2>2. req[u].kind \in {"preview", "save"}
    BY <1>1, <1>4, UserTyped, Claims DEF PathInv, Request, SavePCs, ReleasePCs
  <2>3. sent'[u] = [kind |-> req[u].kind, text |-> req[u].text]
    BY <1>1, <2>2 DEF SentInv
  <2> QED BY <1>1, <1>2, <2>1, <2>3 DEF SentInv
<1> QED BY <1>3, <1>4

LEMMA PutSaves ==
  ASSUME TypeInv, ShowInv, NEW u \in Users, SentInv(u), PutRevision(u)
  PROVE  SentInv(u)' /\ SavesStay
<1>1. /\ sent' = sent /\ draft' = draft /\ pc'[u] = "unlock"
      /\ req'[u].kind = req[u].kind /\ req'[u].text = req[u].text
  BY InterruptLeaves, FunctionsTyped DEF PutRevision, Goto, observed
<1>2. SavesStay
  BY PutExtends DEF SavesStay, Saved
<1>3. req[u].kind = "save" => \E r \in DOMAIN pages' : pages'[r] = req'[u].text
  BY <1>1, PutExtends
<1> QED BY <1>1, <1>2, <1>3 DEF SentInv, SavesStay, Saved

\* The draft is dropped only when the text is in the history.
LEMMA GiveBackSent ==
  ASSUME TypeInv, NEW u \in Users, SentInv(u), GiveBack(u)
  PROVE  SentInv(u)' /\ SavesStay
<1>1. /\ pc[u] = "unlock" /\ pc'[u] = "releaseRead" /\ sent' = sent /\ pages' = pages
      /\ draft' = KillDraft(u)
  BY FunctionsTyped DEF GiveBack, Goto, page, observed
<1>2. SavesStay
  BY <1>1, SamePagesSave
<1>3. req'[u].kind = IF req[u].kind = "save" THEN "saved" ELSE req[u].kind
  <2>1. Interrupt(u)[u] = req[u] /\ DOMAIN Interrupt(u) = Users /\ req[u] \in Request
    BY FunctionsTyped DEF Interrupt
  <2> QED BY <2>1 DEF GiveBack, Request
<1>4. req'[u].text = req[u].text
  <2>1. Interrupt(u)[u] = req[u] /\ DOMAIN Interrupt(u) = Users /\ req[u] \in Request
    BY FunctionsTyped DEF Interrupt
  <2> QED BY <2>1 DEF GiveBack, Request
<1>5. CASE req[u].kind = "save"
  <2>1. sent'[u] = [kind |-> "save", text |-> req[u].text] /\ Saved(req[u].text)
    BY <1>1, <1>5 DEF SentInv
  <2>2. SavesStay => \E r \in DOMAIN pages' : pages'[r] = req[u].text
    BY <2>1 DEF SavesStay, Saved
  <2> QED BY <1>1, <1>2, <1>3, <1>5, <2>1, <2>2 DEF SentInv, Saved
<1>6. CASE req[u].kind # "save"
  <2>1. draft' = draft
    BY <1>1, <1>6 DEF KillDraft
  <2> QED BY <1>1, <1>2, <1>3, <1>4, <1>6, <2>1, SentStays
<1> QED BY <1>2, <1>5, <1>6

LEMMA SentInductive ==
  ASSUME TypeInv, ShowInv, \A x \in Users : SentInv(x), [Next]_vars
  PROVE  (\A x \in Users : SentInv(x))'
<1>1. CASE UNCHANGED vars
  BY <1>1 DEF vars, disk, page, session, observed, SentInv, Saved
<1>2. CASE Expire
  BY <1>2 DEF Expire, page, session, SentInv, Saved
<1>3. ASSUME NEW u \in Users, NEW x \in Users \ {u}, Undisturbed(x), SavesStay PROVE SentInv(x)'
  BY <1>3, SentStays DEF Undisturbed
<1>4. ASSUME NEW u \in Users,
             \/ Open(u) \/ LoadDraft(u) \/ Delete(u)
             \/ LockRead(u) \/ LockRemove(u) \/ LockAdd(u) \/ ReleaseRead(u) \/ ReleaseRemove(u)
             \/ FindConflict(u) \/ FindRevision(u) \/ MergeEditConflict(u)
             \/ Reread(u) \/ SendForm(u)
             \/ SayAlreadySaved(u) \/ RaiseEditConflict(u) \/ RaiseUnchanged(u) \/ PassChecks(u)
             \/ TakePage(u) \/ CouldNotLock(u)
      PROVE  (\A x \in Users : SentInv(x))'
  BY <1>3, <1>4, OthersUndisturbed, PlainStepsKeepSent
<1>5. ASSUME NEW u \in Users, Preview(u) \/ Save(u) \/ Cancel(u)
      PROVE  (\A x \in Users : SentInv(x))'
  BY <1>3, <1>5, OthersUndisturbed, SubmitSends
<1>6. ASSUME NEW u \in Users, ShowAgain(u) \/ PutRevision(u) \/ GiveBack(u)
      PROVE  (\A x \in Users : SentInv(x))'
  BY <1>3, <1>6, OthersUndisturbed, ShowAgainSent, PutSaves, GiveBackSent
<1> QED BY <1>1, <1>2, <1>4, <1>5, <1>6 DEF Next

\* What a user sent with Save or Cancel is in the page's history or still is the
\* user's draft, whether the request ended in a save, a conflict, a page that could
\* not be locked or a locked-out editor.
THEOREM NothingSentIsLost == Spec => []SavedOrDraft
<1>1. Init => \A x \in Users : SentInv(x)
  BY DEF Init, SentInv, NoRequest
<1>2. TypeInv /\ ShowInv /\ (\A x \in Users : SentInv(x)) /\ [Next]_vars
        => (\A x \in Users : SentInv(x))'
  BY SentInductive
<1>3. (\A x \in Users : SentInv(x)) => SavedOrDraft
  BY DEF SentInv, SavedOrDraft, Saved
<1> QED BY <1>1, <1>2, <1>3, EditorInvariant, PTL DEF Spec

------------------------------------------------------------------------------
(* The edit lock comes back. *)

FirstIs(x) == lockFile # <<>> /\ Head(lockFile).owner = x

LEMMA LocksTyped ==
  ASSUME TypeInv
  PROVE  /\ lockFile \in Seq(LockLine)
         /\ \A u \in Users : Owns(u) <=> FirstIs(u)
         /\ lockFile # <<>> => 1 \in DOMAIN lockFile /\ lockFile[1] = Head(lockFile)
         /\ lockFile # <<>> => Head(lockFile) \in LockLine
<1>1. lockFile \in Seq(LockLine)
  BY DEF TypeInv, TypeOK
<1>2. lockFile # <<>> => /\ 1 \in DOMAIN lockFile /\ lockFile[1] = Head(lockFile)
                         /\ Head(lockFile) \in LockLine
  BY <1>1
<1>3. lockFile = <<>> => DOMAIN lockFile = {}
  OBVIOUS
<1> QED BY <1>1, <1>2, <1>3 DEF Owns, FirstIs

LEMMA SameFileKeepsLock ==
  ASSUME TypeInv, NEW u \in Users, LockInv(u), lockFile' = lockFile,
         editing'[u] = editing[u], pc[u] \notin {"revision", "reread", "form", "merge"}
  PROVE  LockInv(u)'
BY DEF LockInv

\* The steps that look at the file or write it.
LEMMA LockStepsKeepLock ==
  ASSUME TypeInv, NEW u \in Users, LockInv(u),
         \/ LockRead(u) \/ LockRemove(u) \/ LockAdd(u) \/ ReleaseRead(u) \/ ReleaseRemove(u)
  PROVE  LockInv(u)'
<1>1. CASE LockRead(u)
  BY <1>1, SameFileKeepsLock DEF LockRead, disk
<1>2. CASE LockRemove(u) \/ ReleaseRemove(u)
  BY <1>2 DEF LockRemove, ReleaseRemove, LockInv
<1>3. CASE LockAdd(u)
  BY <1>3, FunctionsTyped DEF LockAdd, Goto, LockInv
<1>4. CASE ReleaseRead(u)
  <2>1. lockFile' = lockFile /\ pc[u] = "releaseRead"
    BY <1>4 DEF ReleaseRead, disk
  <2>2. CASE Owns(u) /\ editing' = editing
    BY <2>1, <2>2, SameFileKeepsLock
  <2>3. CASE ~Owns(u)
    BY <2>1, <2>3, LocksTyped DEF LockInv, FirstIs
  <2> QED BY <1>4, <2>2, <2>3 DEF ReleaseRead
<1> QED BY <1>1, <1>2, <1>3, <1>4

\* The steps that have nothing to do with it.
LEMMA OtherStepsKeepLock ==
  ASSUME TypeInv, NEW u \in Users, LockInv(u),
         \/ Open(u) \/ LoadDraft(u) \/ Preview(u) \/ Save(u) \/ Cancel(u) \/ Delete(u)
         \/ ShowAgain(u) \/ FindConflict(u) \/ FindRevision(u) \/ MergeEditConflict(u)
         \/ Reread(u) \/ SendForm(u)
         \/ SayAlreadySaved(u) \/ RaiseEditConflict(u) \/ RaiseUnchanged(u) \/ PassChecks(u)
         \/ TakePage(u) \/ CouldNotLock(u) \/ PutRevision(u) \/ GiveBack(u)
  PROVE  LockInv(u)' /\ lockFile' = lockFile /\ lockRace' = lockRace
<1>1. CASE \/ Open(u) \/ LoadDraft(u) \/ Preview(u) \/ Save(u) \/ Cancel(u) \/ Delete(u)
  <2>1. /\ lockFile' = lockFile /\ editing' = editing /\ pc[u] = "idle" /\ lockRace' = lockRace
    BY <1>1 DEF Open, LoadDraft, Preview, Save, Cancel, Delete, Submit, Arrive, disk
  <2> QED BY <2>1, SameFileKeepsLock
<1>2. CASE \/ SayAlreadySaved(u) \/ RaiseEditConflict(u) \/ RaiseUnchanged(u) \/ PassChecks(u)
           \/ TakePage(u) \/ CouldNotLock(u) \/ PutRevision(u) \/ GiveBack(u)
  <2>1. /\ lockFile' = lockFile /\ editing' = editing /\ lockRace' = lockRace
        /\ pc[u] \in {"check", "write", "put", "unlock"}
    BY <1>2 DEF SayAlreadySaved, RaiseEditConflict, RaiseUnchanged, PassChecks, TakePage,
                CouldNotLock, PutRevision, GiveBack, disk, observed
  <2> QED BY <2>1, SameFileKeepsLock
<1>3. CASE ShowAgain(u) \/ SendForm(u)
  BY <1>3, FunctionsTyped DEF ShowAgain, SendForm, Serve, LockInv, disk
<1>4. CASE FindConflict(u) \/ FindRevision(u) \/ Reread(u)
  <2>1. req[u] \in Request
    BY UserTyped
  <2>2. lockFile' = lockFile /\ lockRace' = lockRace
    BY <1>4 DEF FindConflict, FindRevision, Reread, disk, observed
  <2>3. CASE FindConflict(u)
    BY <2>1, <2>2, <2>3, FunctionsTyped DEF FindConflict, Goto, LockInv, Request
  <2>4. CASE FindRevision(u) \/ Reread(u)
    BY <2>2, <2>4, FunctionsTyped DEF FindRevision, Reread, Goto, LockInv
  <2> QED BY <1>4, <2>2, <2>3, <2>4
<1>5. CASE MergeEditConflict(u)
  <2>1. /\ lockFile' = lockFile /\ editing' = editing /\ lockRace' = lockRace /\ pc[u] = "merge"
        /\ pc'[u] = IF req[u].show = "given" THEN "lockRead"
                    ELSE IF Merged(u) = {} THEN "form" ELSE "reread"
    BY <1>5, FunctionsTyped DEF MergeEditConflict, Goto, disk, observed
  <2> QED BY <2>1 DEF LockInv
<1> QED BY <1>1, <1>2, <1>3, <1>4, <1>5

\* A step of another user does not give anybody the first line.
LEMMA OthersKeepLock ==
  ASSUME TypeInv, NEW u \in Users, NEW x \in Users \ {u}, LockInv(x), Undisturbed(x),
         \/ lockFile' = lockFile \/ lockFile' = <<>>
         \/ lockFile' = Append(lockFile, [owner |-> u, stale |-> FALSE])
  PROVE  LockInv(x)'
<1>1. FirstIs(x)' => FirstIs(x)
  <2>1. lockFile \in Seq(LockLine)
    BY LocksTyped
  <2>2. CASE lockFile' = Append(lockFile, [owner |-> u, stale |-> FALSE])
    <3>1. PICK line : line = [owner |-> u, stale |-> FALSE]
      OBVIOUS
    <3>2. line \in LockLine /\ line.owner = u
      BY <3>1 DEF LockLine
    <3>3. Head(lockFile') = IF lockFile = <<>> THEN line ELSE Head(lockFile)
      BY <2>1, <2>2, <3>1, <3>2
    <3> QED BY <3>2, <3>3 DEF FirstIs
  <2> QED BY <2>2 DEF FirstIs
<1> QED BY <1>1 DEF LockInv, FirstIs, Undisturbed

LEMMA FileSteps ==
  ASSUME NEW u \in Users,
         \/ LockRead(u) \/ LockRemove(u) \/ LockAdd(u) \/ ReleaseRead(u) \/ ReleaseRemove(u)
  PROVE  \/ lockFile' = lockFile \/ lockFile' = <<>>
         \/ lockFile' = Append(lockFile, [owner |-> u, stale |-> FALSE])
BY DEF LockRead, LockRemove, LockAdd, ReleaseRead, ReleaseRemove, disk

LEMMA ExpireOwners ==
  ASSUME TypeInv, Expire
  PROVE  /\ lockFile' # <<>> /\ lockFile # <<>>
         /\ Head(lockFile').owner = Head(lockFile).owner
<1>1. lockFile # <<>> /\ lockFile \in Seq(LockLine) /\ 1 \in DOMAIN lockFile
      /\ lockFile[1] = Head(lockFile) /\ Head(lockFile) \in LockLine
  BY LocksTyped DEF Expire
<1>2. lockFile' = [i \in DOMAIN lockFile |-> [lockFile[i] EXCEPT !.stale = TRUE]]
  BY DEF Expire
<1>3. lockFile'[1] = [Head(lockFile) EXCEPT !.stale = TRUE] /\ DOMAIN lockFile' = DOMAIN lockFile
  BY <1>1, <1>2
<1>4. lockFile' # <<>> /\ Head(lockFile') = lockFile'[1]
  BY <1>1, <1>3, ExpireTyped
<1>5. lockFile'[1].owner = Head(lockFile).owner
  BY <1>1, <1>3 DEF LockLine
<1> QED BY <1>1, <1>4, <1>5

LEMMA LockInductive ==
  ASSUME TypeInv, \A x \in Users : LockInv(x), [Next]_vars
  PROVE  (\A x \in Users : LockInv(x))'
<1>1. CASE UNCHANGED vars
  BY <1>1 DEF vars, disk, session, observed, LockInv
<1>2. CASE Expire
  <2>1. UNCHANGED <<editing, pc, req>>
    BY <1>2 DEF Expire, session
  <2> QED BY <1>2, <2>1, ExpireOwners DEF LockInv
<1>3. ASSUME NEW u \in Users,
             \/ LockRead(u) \/ LockRemove(u) \/ LockAdd(u) \/ ReleaseRead(u) \/ ReleaseRemove(u)
      PROVE  (\A x \in Users : LockInv(x))'
  <2>1. LockInv(u)'
    BY <1>3, LockStepsKeepLock
  <2>2. \A x \in Users \ {u} : LockInv(x)'
    BY <1>3, FileSteps, OthersUndisturbed, OthersKeepLock
  <2> QED BY <2>1, <2>2
<1>4. ASSUME NEW u \in Users,
             \/ Open(u) \/ LoadDraft(u) \/ Preview(u) \/ Save(u) \/ Cancel(u) \/ Delete(u)
             \/ ShowAgain(u) \/ FindConflict(u) \/ FindRevision(u) \/ MergeEditConflict(u)
             \/ Reread(u) \/ SendForm(u)
             \/ SayAlreadySaved(u) \/ RaiseEditConflict(u) \/ RaiseUnchanged(u)
             \/ PassChecks(u) \/ TakePage(u) \/ CouldNotLock(u) \/ PutRevision(u)
             \/ GiveBack(u)
      PROVE  (\A x \in Users : LockInv(x))'
  <2>1. LockInv(u)' /\ lockFile' = lockFile
    BY <1>4, OtherStepsKeepLock
  <2>2. \A x \in Users \ {u} : LockInv(x)'
    BY <1>4, <2>1, OthersUndisturbed, OthersKeepLock
  <2> QED BY <2>1, <2>2
<1> QED BY <1>1, <1>2, <1>3, <1>4 DEF Next

\* A user whose editing ended with a save or with Cancel does not own edit-lock,
\* whoever else was writing that file meanwhile.
THEOREM LockComesBack == Spec => []LockReturned
<1>1. Init => \A x \in Users : LockInv(x)
  BY DEF Init, LockInv
<1>2. TypeInv /\ ShowInv /\ (\A x \in Users : LockInv(x)) /\ [Next]_vars
        => (\A x \in Users : LockInv(x))'
  BY LockInductive
<1>3. (\A x \in Users : LockInv(x)) => LockReturned
  BY DEF LockInv, LockReturned
<1> QED BY <1>1, <1>2, <1>3, EditorInvariant, PTL DEF Spec

------------------------------------------------------------------------------
(* Strict locking. *)

\* Without a race: one request at a time is updating the file, ...
LEMMA RaceIs ==
  ASSUME RaceInv, ~lockRace
  PROVE  /\ \A u, v \in Users : pc[u] \in LockPCs /\ pc[v] \in LockPCs => u = v
         /\ \A u, v \in Users : pc[u] \in LockPCs /\ told[v] => u = v
         /\ \A u \in Users : pc[u] = "lockAdd" => lockFile = <<>>
         /\ \A u \in Users : told[u] /\ pc[u] # "lockAdd" =>
              lockFile # <<>> /\ Head(lockFile) = [owner |-> u, stale |-> FALSE]
BY DEF RaceInv

\* ... so that a request which may begin to is the only one, and the lock is not
\* promised to anybody else.
LEMMA GrantedAlone ==
  ASSUME TypeInv, RaceInv, ~lockRace, NEW u \in Users, ~Races(u), pc[u] \notin LockPCs,
         Grants(u)
  PROVE  /\ \A v \in Users : pc[v] \notin LockPCs
         /\ \A v \in Users : told[v] => v = u
<1>1. \A v \in Users : pc[v] \notin LockPCs
  BY DEF Races
<1>2. ASSUME NEW v \in Users, told[v] PROVE v = u
  <2>1. lockFile # <<>> /\ Head(lockFile) = [owner |-> v, stale |-> FALSE]
    BY <1>1, <1>2, RaceIs DEF LockPCs
  <2>2. Granted(u, Head(lockFile))
    BY <2>1, LocksTyped DEF Grants
  <2>3. PICK line : line = Head(lockFile) /\ line.owner = v /\ line.stale = FALSE
    BY <2>1
  <2> QED BY <2>2, <2>3 DEF Granted
<1> QED BY <1>1, <1>2

LEMMA OwnsAlone ==
  ASSUME TypeInv, RaceInv, ~lockRace, NEW u \in Users, ~Races(u), pc[u] \notin LockPCs, Owns(u)
  PROVE  /\ \A v \in Users : pc[v] \notin LockPCs
         /\ \A v \in Users : told[v] => v = u
<1>1. Grants(u)
  BY LocksTyped DEF Owns, Grants, Granted
<1> QED BY <1>1, GrantedAlone

LEMMA LockReadRace ==
  ASSUME TypeInv, RaceInv, NEW u \in Users, LockRead(u) PROVE RaceInv'
<1> SUFFICES ASSUME ~lockRace' PROVE RaceInv'
  BY DEF RaceInv
<1>1. pc[u] = "lockRead" /\ lockFile' = lockFile /\ told' = told /\ ~lockRace
  <2>1. lockRace' = (lockRace \/ Races(u)) \/ lockRace' = lockRace
    BY DEF LockRead
  <2>2. ~lockRace
    BY <2>1
  <2> QED BY <2>2 DEF LockRead, disk
<1>2. pc[u] \notin LockPCs /\ pc \in [Users -> PCs]
  BY <1>1, FunctionsTyped DEF LockPCs
<1>3. CASE Grants(u) /\ pc' = [pc EXCEPT ![u] = "lockRemove"] /\ lockRace' = (lockRace \/ Races(u))
  <2>1. /\ \A v \in Users : pc[v] \notin LockPCs
        /\ \A v \in Users : told[v] => v = u
    BY <1>1, <1>2, <1>3, GrantedAlone
  <2>2. \A v \in Users : pc'[v] \in LockPCs => v = u
    BY <1>2, <1>3, <2>1
  <2>3. \A v \in Users : pc'[v] # "lockAdd" /\ pc[v] # "lockAdd"
    BY <1>2, <1>3, <2>1 DEF LockPCs
  <2> QED BY <1>1, <2>1, <2>2, <2>3, RaceIs DEF RaceInv
<1>4. CASE \E st \in {"revision", "idle"} : pc' = [pc EXCEPT ![u] = st]
  <2>1. \A v \in Users : /\ pc'[v] \in LockPCs => pc[v] \in LockPCs
                         /\ pc'[v] = "lockAdd" <=> pc[v] = "lockAdd"
    BY <1>1, <1>2, <1>4 DEF LockPCs
  <2> QED BY <1>1, <2>1, RaceIs DEF RaceInv
<1> QED BY <1>3, <1>4 DEF LockRead, Goto, Finish

LEMMA LockWriteRace ==
  ASSUME TypeInv, RaceInv, NEW u \in Users, LockRemove(u) \/ LockAdd(u) PROVE RaceInv'
<1> SUFFICES ASSUME ~lockRace PROVE RaceInv'
  BY DEF RaceInv, LockRemove, LockAdd, observed
<1>1. /\ pc \in [Users -> PCs] /\ told \in [Users -> BOOLEAN] /\ pc[u] \in LockPCs
  BY FunctionsTyped DEF LockRemove, LockAdd, LockPCs
<1>2. \A v \in Users : (pc[v] \in LockPCs => v = u) /\ (told[v] => v = u)
  BY <1>1, RaceIs
<1>3. CASE LockRemove(u)
  <2>1. pc' = [pc EXCEPT ![u] = "lockAdd"] /\ lockFile' = <<>> /\ told' = told
    BY <1>3 DEF LockRemove, Goto, observed
  <2>2. \A v \in Users : pc'[v] \in LockPCs => v = u
    BY <1>1, <1>2, <2>1
  <2> QED BY <1>1, <1>2, <2>1, <2>2 DEF RaceInv
<1>4. CASE LockAdd(u)
  <2>1. /\ pc' = [pc EXCEPT ![u] = "revision"] /\ pc[u] = "lockAdd"
        /\ lockFile' = Append(lockFile, [owner |-> u, stale |-> FALSE])
        /\ told' = [told EXCEPT ![u] = TRUE]
    BY <1>4 DEF LockAdd, Goto
  <2>2. PICK line : line = [owner |-> u, stale |-> FALSE]
    OBVIOUS
  <2>3. lockFile' = <<line>> /\ lockFile' # <<>> /\ Head(lockFile') = line
    <3>1. lockFile = <<>>
      BY <2>1, RaceIs
    <3>2. lockFile' = Append(<<>>, line)
      BY <2>1, <2>2, <3>1
    <3> QED BY <3>2
  <2>4. \A v \in Users : pc'[v] \notin LockPCs /\ pc'[v] # "lockAdd"
    BY <1>1, <1>2, <2>1 DEF LockPCs
  <2>5. \A v \in Users : told'[v] => v = u
    BY <1>1, <1>2, <2>1
  <2> QED BY <2>2, <2>3, <2>4, <2>5 DEF RaceInv
<1> QED BY <1>3, <1>4

LEMMA ReleaseRace ==
  ASSUME TypeInv, RaceInv, NEW u \in Users, ReleaseRead(u) \/ ReleaseRemove(u) PROVE RaceInv'
<1> SUFFICES ASSUME ~lockRace' PROVE RaceInv'
  BY DEF RaceInv
<1>1. pc \in [Users -> PCs] /\ told \in [Users -> BOOLEAN] /\ ~lockRace
  <2>1. lockRace' = (lockRace \/ Races(u)) \/ lockRace' = lockRace
    BY DEF ReleaseRead, ReleaseRemove
  <2>2. ~lockRace
    BY <2>1
  <2> QED BY <2>2, FunctionsTyped
<1>2. CASE ReleaseRead(u) /\ Owns(u)
  <2>1. /\ pc[u] = "releaseRead" /\ pc' = [pc EXCEPT ![u] = "releaseRemove"] /\ ~Races(u)
        /\ told' = told /\ lockFile' = lockFile
    BY <1>2 DEF ReleaseRead, Goto, disk
  <2>2. /\ \A v \in Users : pc[v] \notin LockPCs
        /\ \A v \in Users : told[v] => v = u
    BY <1>1, <1>2, <2>1, OwnsAlone DEF LockPCs
  <2>3. \A v \in Users : pc'[v] \in LockPCs => v = u
    BY <1>1, <2>1, <2>2
  <2>4. \A v \in Users : pc'[v] # "lockAdd" /\ pc[v] # "lockAdd"
    BY <1>1, <2>1, <2>2 DEF LockPCs
  <2> QED BY <1>1, <2>1, <2>2, <2>3, <2>4, RaceIs DEF RaceInv
<1>3. ASSUME Released(u)
      PROVE  /\ \A v \in Users \ {u} : pc'[v] = pc[v] /\ told'[v] = told[v]
             /\ ~told'[u] /\ pc'[u] \notin LockPCs /\ pc'[u] # "lockAdd"
  BY <1>1, <1>3 DEF Released, Goto, Finish, LockPCs
<1>4. CASE ReleaseRead(u) /\ ~Owns(u)
  <2>1. Released(u) /\ lockFile' = lockFile
    BY <1>4 DEF ReleaseRead, disk
  <2> QED BY <1>1, <1>3, <2>1, RaceIs DEF RaceInv
<1>5. CASE ReleaseRemove(u)
  <2>1. Released(u) /\ lockFile' = <<>> /\ pc[u] \in LockPCs
    BY <1>5 DEF ReleaseRemove, LockPCs
  <2>2. \A v \in Users : (pc[v] \in LockPCs => v = u) /\ (told[v] => v = u)
    BY <1>1, <2>1, RaceIs
  <2>3. \A v \in Users : pc'[v] \notin LockPCs /\ pc'[v] # "lockAdd" /\ ~told'[v]
    BY <1>3, <2>1, <2>2 DEF LockPCs
  <2> QED BY <2>3 DEF RaceInv
<1> QED BY <1>2, <1>4, <1>5

LEMMA OtherStepsRace ==
  ASSUME TypeInv, RaceInv, NEW u \in Users, LockInv(u),
         \/ Open(u) \/ LoadDraft(u) \/ Preview(u) \/ Save(u) \/ Cancel(u) \/ Delete(u)
         \/ ShowAgain(u) \/ FindConflict(u) \/ FindRevision(u) \/ MergeEditConflict(u)
         \/ Reread(u) \/ SendForm(u)
         \/ SayAlreadySaved(u) \/ RaiseEditConflict(u) \/ RaiseUnchanged(u) \/ PassChecks(u)
         \/ TakePage(u) \/ CouldNotLock(u) \/ PutRevision(u) \/ GiveBack(u)
  PROVE  RaceInv'
<1>1. lockFile' = lockFile /\ lockRace' = lockRace
  BY OtherStepsKeepLock
<1>2. told' = told /\ pc[u] \notin LockPCs /\ pc'[u] \notin LockPCs
  <2> USE FunctionsTyped
  <2>1. CASE \/ Open(u) \/ LoadDraft(u) \/ Preview(u) \/ Save(u) \/ Cancel(u) \/ Delete(u)
    BY <2>1 DEF Open, LoadDraft, Preview, Save, Cancel, Delete, Submit, Arrive, Goto, LockPCs
  <2>2. CASE \/ ShowAgain(u) \/ FindConflict(u) \/ FindRevision(u) \/ MergeEditConflict(u)
             \/ Reread(u) \/ SendForm(u)
    BY <2>2 DEF ShowAgain, FindConflict, FindRevision, MergeEditConflict, Reread, SendForm,
                Serve, Finish, Goto, observed, LockPCs
  <2>3. CASE \/ SayAlreadySaved(u) \/ RaiseEditConflict(u) \/ RaiseUnchanged(u) \/ PassChecks(u)
             \/ TakePage(u) \/ CouldNotLock(u) \/ PutRevision(u) \/ GiveBack(u)
    BY <2>3 DEF SayAlreadySaved, RaiseEditConflict, RaiseUnchanged, PassChecks, TakePage,
                CouldNotLock, PutRevision, GiveBack, Finish, Goto, observed, LockPCs
  <2> QED BY <2>1, <2>2, <2>3
<1>3. \A v \in Users \ {u} : pc'[v] = pc[v]
  BY OthersUndisturbed DEF Undisturbed
<1>4. \A v \in Users : /\ pc'[v] \in LockPCs => pc[v] \in LockPCs
                       /\ pc'[v] = "lockAdd" <=> pc[v] = "lockAdd"
  BY <1>2, <1>3 DEF LockPCs
<1> QED BY <1>1, <1>2, <1>4 DEF RaceInv

LEMMA RaceInductive ==
  ASSUME TypeInv, \A x \in Users : LockInv(x), RaceInv, [Next]_vars
  PROVE  RaceInv'
<1>1. CASE UNCHANGED vars
  BY <1>1 DEF vars, disk, session, observed, RaceInv
<1>2. CASE Expire
  <2>1. \A u \in Users : pc'[u] = "idle" /\ ~told'[u]
    BY <1>2 DEF Expire, session
  <2> QED BY <2>1 DEF RaceInv, LockPCs
<1> QED BY <1>1, <1>2, LockReadRace, LockWriteRace, ReleaseRace, OtherStepsRace DEF Next

\* Strict locking keeps its promise to one user at a time, unless two requests were
\* updating the file edit-lock at the same time.
THEOREM StrictLocking == Spec => []StrictUnlessRaced
<1> DEFINE Locks == \A x \in Users : LockInv(x)
<1>1. Init => Locks /\ RaceInv
  BY DEF Init, LockInv, RaceInv, LockPCs
<1>2. TypeInv /\ ShowInv /\ Locks /\ RaceInv /\ [Next]_vars => Locks' /\ RaceInv'
  BY LockInductive, RaceInductive
<1>3. Locks /\ RaceInv => StrictUnlessRaced
  <2> SUFFICES ASSUME RaceInv, ~lockRace, NEW u \in Users, NEW v \in Users, told[u], told[v]
               PROVE  u = v
    BY DEF StrictUnlessRaced
  <2>1. CASE pc[u] = "lockAdd" \/ pc[v] = "lockAdd"
    BY <2>1, RaceIs DEF LockPCs
  <2>2. CASE pc[u] # "lockAdd" /\ pc[v] # "lockAdd"
    <3>1. PICK a, b : a = [owner |-> u, stale |-> FALSE] /\ b = [owner |-> v, stale |-> FALSE]
      OBVIOUS
    <3>2. a = b
      BY <2>2, <3>1, RaceIs
    <3> QED BY <3>1, <3>2
  <2> QED BY <2>1, <2>2
<1> HIDE DEF Locks
<1> QED BY <1>1, <1>2, <1>3, EditorInvariant, PTL DEF Spec
===============================================================================
