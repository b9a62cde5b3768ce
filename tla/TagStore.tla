------------------------------ MODULE TagStore ------------------------------
(***************************************************************************)
(* PickleTagStore of MoinMoin/wikisync.py: the tags a page has from its    *)
(* synchronisations are a file that is read under a ReadLock when the      *)
(* store is made, and read, extended and written under a WriteLock for     *)
(* every new tag.  (MetaDict of MoinMoin/wikiutil.py works the same way.)  *)
(*                                                                         *)
(* As in the SyncPages action, each client makes a store and adds one tag, *)
(* which is named for the client here.                                     *)
(***************************************************************************)
EXTENDS DirLock

VARIABLES
  file,     \* the tags in the data file
  torn,     \* the file has been truncated and not yet written
  tags,     \* per client, PickleTagStore.tags
  work,     \* per client, what it does next while it has a lock
  added,    \* the clients whose add has returned
  lost      \* observed: a client failed or died between truncating and
            \* writing the file

tagVars == <<file, torn, tags, work, added, lost>>

TInit ==
  /\ Init
  /\ file = {} /\ torn = FALSE
  /\ tags = [c \in Client |-> {}]
  /\ work = [c \in Client |-> "none"]
  /\ added = {} /\ lost = FALSE

Working(c, from, to) == work[c] = from /\ work' = [work EXCEPT ![c] = to]

\* __init__ and add; what has raised "Could not lock" is not tried again.
Start(c) ==
  /\ \/ Working(c, "none", "load") /\ Acquire(c, "read")
     \/ Working(c, "made", "reload") /\ Acquire(c, "write")
  /\ UNCHANGED <<file, torn, tags, added, lost>>

\* load: an empty file is no error.
Loaded == IF torn THEN {} ELSE file

Load(c) ==
  /\ pc[c] = "shared"
  /\ Working(c, "load", "made")
  /\ tags' = [tags EXCEPT ![c] = Loaded]
  /\ UNCHANGED <<lockVars, file, torn, added, lost>>

\* Mutant of Fresh: add extends what was loaded when the store was made.
FreshNot(c) == tags[c]

\* add loads again.
Fresh(c) == Loaded

AppendTag(c) ==
  /\ pc[c] = "exclusive"
  /\ Working(c, "reload", "open")
  /\ tags' = [tags EXCEPT ![c] = Fresh(c) \cup {c}]
  /\ UNCHANGED <<lockVars, file, torn, added, lost>>

\* commit: open the file, which truncates it, then write.
Open(c) ==
  /\ pc[c] = "exclusive"
  /\ Working(c, "open", "dump")
  /\ torn' = TRUE
  /\ UNCHANGED <<lockVars, file, tags, added, lost>>

Dump(c) ==
  /\ pc[c] = "exclusive"
  /\ Working(c, "dump", "written")
  /\ torn' = FALSE /\ file' = tags[c]
  /\ UNCHANGED <<lockVars, tags, added, lost>>

Release(c) ==
  \/ /\ work[c] = "made" /\ ReleaseRead(c)
     /\ UNCHANGED tagVars
  \/ /\ Working(c, "written", "end") /\ ReleaseWrite(c)
     /\ added' = added \cup {c}
     /\ UNCHANGED <<file, torn, tags, lost>>

\* An error while writing: the lock is released, the file stays as it is.
DumpFails(c) ==
  /\ Working(c, "dump", "end") /\ ReleaseWrite(c)
  /\ lost' = TRUE
  /\ UNCHANGED <<file, torn, tags, added>>

Die(c) ==
  /\ Crash(c)
  /\ lost' = (lost \/ work[c] = "dump")
  /\ UNCHANGED <<file, torn, tags, work, added>>

TNext ==
  \/ (Ageing /\ UNCHANGED tagVars)
  \/ \E c \in Client :
       \/ Start(c) \/ Load(c) \/ AppendTag(c) \/ Open(c) \/ Dump(c) \/ DumpFails(c)
       \/ Release(c)
       \/ Waiting(c) /\ UNCHANGED tagVars
       \/ Die(c)

TSpec == TInit /\ [][TNext]_<<lockVars, tagVars>>
------------------------------------------------------------------------------
(***************************************************************************)
(* Properties.                                                             *)
(***************************************************************************)
TypeOK ==
  /\ LockTypeOK
  /\ file \subseteq Client /\ torn \in BOOLEAN
  /\ tags \in [Client -> SUBSET Client]
  /\ work \in [Client -> {"none", "load", "made", "reload", "open", "dump",
                         "written", "end"}]
  /\ added \subseteq Client /\ lost \in BOOLEAN

\* What is in the file, or is just being written to it.
Kept == IF torn THEN UNION {tags[c] : c \in {d \in Client : work[d] = "dump"}}
        ELSE file

\* A tag whose add has returned is not lost, whatever others add, unless a lock
\* was stolen or a client failed or died with the file truncated.
TagsKept == stolen \/ lost \/ added \subseteq Kept
=============================================================================
