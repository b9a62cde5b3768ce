---------------------------- MODULE IndexerQueue ----------------------------
(***************************************************************************)
(* IndexerQueue of MoinMoin/search/builtin.py: the jobs of the search      *)
(* indexer are one pickled list in a CacheEntry (MoinMoin/caching.py).     *)
(* Every operation locks the cache entry, reads the list, writes the       *)
(* changed list to a temporary file that replaces the old one, and         *)
(* unlocks.  The lock is a LazyWriteLock: a directory lock on win32 (see   *)
(* DirLock), nothing at all on POSIX.                                      *)
(***************************************************************************)
EXTENDS Naturals, Sequences

CONSTANTS
  Client,     \* requests and scripts
  Job,        \* a job is known by the page to index
  NoClient,   \* nobody has the lock
  Dead,       \* the lock of a process that died
  Torn,       \* a file that was not written completely
  MaxFaults   \* bound: I/O errors and lock timeouts

ASSUME QueueAssumption ==
  /\ NoClient \notin Client /\ Dead \notin Client /\ NoClient # Dead
  /\ Torn \notin Seq(Job)
  /\ MaxFaults \in Nat

VARIABLES
  locking,  \* "real" where LazyWriteLock locks, "lazy" where it does not
  holder,   \* who has the lock, if it is real
  file,     \* the list in the cache file, or Torn
  pc,       \* per client, the next step of its operation
  op,       \* per client, the operation
  blind,    \* per client, its read of the file failed
  list,     \* per client, the list it has read
  got,      \* per client, the entries of its last get or mget
  result,   \* per client, how its last operation ended
  faults,   \* bound: errors that may still happen
  losses    \* observed: lists replaced by a client that had not read them

queueVars == <<locking, holder, file, pc, op, blind, list, got, result, faults, losses>>

Ops == {o \in [kind : {"put", "get", "mget"}, jobs : Seq(Job), count : Nat] :
          o.kind = "get" => o.count = 1}

PutOf(js)  == [kind |-> "put", jobs |-> js, count |-> 0]
Get        == [kind |-> "get", jobs |-> <<>>, count |-> 1]
MGet(n)    == [kind |-> "mget", jobs |-> <<>>, count |-> n]

Init ==
  /\ locking \in {"real", "lazy"}
  /\ holder = NoClient
  /\ file = <<>>
  /\ pc = [c \in Client |-> "idle"]
  /\ op = [c \in Client |-> Get]
  /\ blind = [c \in Client |-> FALSE]
  /\ list = [c \in Client |-> <<>>]
  /\ got = [c \in Client |-> <<>>]
  /\ result = [c \in Client |-> "ok"]
  /\ faults \in 0..MaxFaults /\ losses = 0

Goto(c, from, to) == pc[c] = from /\ pc' = [pc EXCEPT ![c] = to]

Faulty == faults > 0 /\ faults' = faults - 1

\* Mutant of Lock: a read lock, which others may have too.
LockShared(c) == UNCHANGED holder

\* cache.lock('w', 60.0).
Lock(c) ==
  IF locking = "real" THEN holder = NoClient /\ holder' = c ELSE UNCHANGED holder

\* _queue: any CacheError, a file that does not unpickle too, means [].
Content == IF file = Torn THEN <<>> ELSE file

Upto(n, q) == SubSeq(q, 1, IF n < Len(q) THEN n ELSE Len(q))
After(n, q)  == SubSeq(q, n + 1, Len(q))

\* What the operation makes of the list it read.
Changed(o, q) == IF o.kind = "put" THEN q \o o.jobs ELSE After(o.count, q)

\* The entries it returns.
Entries(o, q) == Upto(o.count, q)

\* put, mput, get or mget starts: it locks and reads the list.  get on an empty
\* list raises IndexError and writes nothing.
EnterAs(c, o, q) ==
  /\ Lock(c)
  /\ op' = [op EXCEPT ![c] = o]
  /\ list' = [list EXCEPT ![c] = q]
  /\ IF o.kind = "get" /\ q = <<>>
     THEN Goto(c, "idle", "leave") /\ result' = [result EXCEPT ![c] = "empty"]
     ELSE Goto(c, "idle", "write") /\ UNCHANGED result
  /\ UNCHANGED <<locking, file, got, losses>>

Enter(c, o) ==
  /\ EnterAs(c, o, Content)
  /\ UNCHANGED <<blind, faults>>

\* An I/O error while reading is taken for an empty list, too.
EnterBlind(c, o) ==
  /\ EnterAs(c, o, <<>>)
  /\ blind' = [blind EXCEPT ![c] = TRUE]
  /\ Faulty

\* The lock was not free for a minute: CacheError.
TimesOut(c) ==
  /\ pc[c] = "idle" /\ locking = "real" /\ holder # NoClient
  /\ Faulty
  /\ UNCHANGED <<locking, holder, file, pc, op, blind, list, got, result, losses>>

\* cache.update: the temporary file is renamed over the old one.
Replace(c) ==
  /\ Goto(c, "write", "leave")
  /\ file' = Changed(op[c], list[c])
  /\ got' = IF op[c].kind = "put" THEN got
            ELSE [got EXCEPT ![c] = Entries(op[c], list[c])]
  /\ result' = [result EXCEPT ![c] = "ok"]
  /\ losses' = IF blind[c] THEN losses + 1 ELSE losses
  /\ UNCHANGED <<locking, holder, op, blind, list, faults>>

\* An error in update: CacheError.  When write fails, the finally clause of
\* update calls close, and close renames what there is of the new file.
ReplaceFails(c) ==
  /\ Goto(c, "write", "leave")
  /\ Faulty
  /\ result' = [result EXCEPT ![c] = "error"]
  /\ \/ UNCHANGED <<file, losses>>
     \/ file' = Torn /\ losses' = losses + 1
  /\ UNCHANGED <<locking, holder, op, blind, list, got>>

\* The operation's local variables are gone.
Forget(c) ==
  /\ op' = [op EXCEPT ![c] = Get]
  /\ list' = [list EXCEPT ![c] = <<>>]
  /\ blind' = [blind EXCEPT ![c] = FALSE]
  /\ result' = [result EXCEPT ![c] = "ok"]

\* unlock, and the operation returns or raises, as result says.
Leave(c) ==
  /\ Goto(c, "leave", "idle")
  /\ holder' = IF holder = c THEN NoClient ELSE holder
  /\ Forget(c)
  /\ UNCHANGED <<locking, file, got, faults, losses>>

\* The process dies; a real lock stays ...
Die(c) ==
  /\ pc' = [pc EXCEPT ![c] = "idle"]
  /\ holder' = IF holder = c THEN Dead ELSE holder
  /\ Forget(c)
  /\ UNCHANGED <<locking, file, got, faults, losses>>

\* ... until the next who wants it finds it too old.
Expire ==
  /\ holder = Dead /\ holder' = NoClient
  /\ UNCHANGED <<locking, file, pc, op, blind, list, got, result, faults, losses>>

Step(c) == Replace(c) \/ ReplaceFails(c) \/ Leave(c)

Next ==
  \/ \E c \in Client :
       \/ \E o \in Ops : Enter(c, o) \/ EnterBlind(c, o)
       \/ TimesOut(c)
       \/ Step(c)
       \/ pc[c] # "idle" /\ Die(c)
  \/ Expire

Spec == Init /\ [][Next]_queueVars
------------------------------------------------------------------------------
(***************************************************************************)
(* Properties.                                                             *)
(***************************************************************************)
QueueTypeOK ==
  /\ locking \in {"real", "lazy"}
  /\ holder \in Client \cup {NoClient, Dead}
  /\ file \in Seq(Job) \cup {Torn}
  /\ pc \in [Client -> {"idle", "write", "leave"}]
  /\ op \in [Client -> Ops]
  /\ blind \in [Client -> BOOLEAN]
  /\ list \in [Client -> Seq(Job)]
  /\ got \in [Client -> Seq(Job)]
  /\ result \in [Client -> {"ok", "empty", "error"}]
  /\ faults \in 0..MaxFaults
  /\ losses \in Nat

\* Where the lock is real, the read-modify-writes of all clients, their errors
\* and their deaths amount to an atomic queue.
Atomic(x, fixed) == IF locking = "real" THEN x ELSE fixed

AtomicQueue == INSTANCE JobQueue WITH
  queue  <- Atomic(Content, <<>>),
  hand   <- Atomic(got, [c \in Client |-> <<>>]),
  losses <- Atomic(losses, 0)

ImplementsQueue == AtomicQueue!Spec
=============================================================================
