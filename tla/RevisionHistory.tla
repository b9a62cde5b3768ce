--------------------------- MODULE RevisionHistory ---------------------------
(***************************************************************************)
(* What the storage of one wiki page promises to everybody who saves it,   *)
(* without files, retries or error paths.                                  *)
(*                                                                         *)
(* A page is a head number, a partial function from revision numbers to    *)
(* stored texts and a local log.  A single token gives the right to change *)
(* them: its owner may advance the head by one, store a text under the     *)
(* head (and under no other number), and log the head, once and in order.  *)
(* An owner that dies keeps the token for good.                            *)
(*                                                                         *)
(* Module PageStore, the protocol of PageEditor._write_file, implements    *)
(* this specification.                                                     *)
(***************************************************************************)
EXTENDS Naturals, Sequences

CONSTANTS
  Writers,  \* the processes that may save the page
  Texts     \* the contents a revision file can have

VARIABLES
  token,    \* "absent" before the page exists, then "free" or "held"
  owner,    \* the writer holding the token: a set of at most one writer
  head,     \* the number the page's current revision has
  pages,    \* revision number -> stored content
  log       \* the revision numbers in the page's local log

vars == <<token, owner, head, pages, log>>

\* The function f with k mapped to v, whether or not k was in its domain.
Put(f, k, v) == [x \in DOMAIN f \cup {k} |-> IF x = k THEN v ELSE f[x]]

Init ==
  /\ token = "absent"
  /\ owner = {}
  /\ head = 0
  /\ pages = [r \in {} |-> r]
  /\ log = <<>>

\* The page directory becomes usable.
Create ==
  /\ token = "absent"
  /\ token' = "free"
  /\ UNCHANGED <<owner, head, pages, log>>

Acquire(w) ==
  /\ token = "free"
  /\ token' = "held"
  /\ owner' = {w}
  /\ UNCHANGED <<head, pages, log>>

Advance(w) ==
  /\ w \in owner
  /\ head' = head + 1
  /\ UNCHANGED <<token, owner, pages, log>>

Store(w) ==
  /\ w \in owner
  /\ head > 0
  /\ \E t \in Texts : pages' = Put(pages, head, t)
  /\ UNCHANGED <<token, owner, head, log>>

\* The head is logged at most once, and after every older revision.
Record(w) ==
  /\ w \in owner
  /\ \A i \in DOMAIN log : log[i] < head
  /\ log' = Append(log, head)
  /\ UNCHANGED <<token, owner, head, pages>>

Release(w) ==
  /\ w \in owner
  /\ token' = "free"
  /\ owner' = {}
  /\ UNCHANGED <<head, pages, log>>

\* The owner dies: nobody holds the token any more, and it is not free.
Abandon(w) ==
  /\ w \in owner
  /\ owner' = {}
  /\ UNCHANGED <<token, head, pages, log>>

Next ==
  \/ Create
  \/ \E w \in Writers :
        \/ Acquire(w) \/ Advance(w) \/ Store(w)
        \/ Record(w) \/ Release(w) \/ Abandon(w)

Spec == Init /\ [][Next]_vars
==============================================================================
