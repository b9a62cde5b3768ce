------------------------- MODULE SearchIndexProofs -------------------------
(***************************************************************************)
(* Proofs about IndexerQueue and SearchIndex, for any requests, pages,     *)
(* changes, errors and deaths: that the queue is an atomic one where its   *)
(* lock is real; then the types of SearchIndex, and that IndexInv is       *)
(* inductive, from which the properties follow.                            *)
(***************************************************************************)
EXTENDS SearchIndex, FiniteSetTheorems, SequenceTheorems, TLAPS
------------------------------------------------------------------------------
(* The queue by itself: it is an atomic one where its lock is real. *)

\* Only one client is at work where the lock is real, and what it is about to
\* write is made from what the file still says.
AloneAtWork ==
  locking = "real" =>
    \A c \in Client :
      pc[c] # "idle" =>
        holder = c /\ (pc[c] = "write" => list[c] = IF blind[c] THEN <<>> ELSE Content)

\* A client between two operations has forgotten the error of the last one.
IdleSees == \A c \in Client : pc[c] = "idle" => ~blind[c]

IInv == QueueTypeOK /\ IdleSees /\ AloneAtWork
------------------------------------------------------------------------------
\* The parts of a list are lists.
LEMMA PartTypes ==
  ASSUME NEW q \in Seq(Job), NEW n \in Nat
  PROVE  Upto(n, q) \in Seq(Job) /\ After(n, q) \in Seq(Job)
<1>1. \A i \in 1..Len(q) : q[i] \in Job
  OBVIOUS
<1>2. Len(q) \in Nat
  OBVIOUS
<1>3. Upto(n, q) \in Seq(Job)
  BY <1>1, <1>2, SubSeqProperties DEF Upto
<1>4. After(n, q) \in Seq(Job)
  <2>1. \A i \in (n + 1)..Len(q) : q[i] \in Job
    BY <1>1, <1>2
  <2> QED
    BY <2>1, <1>2, SubSeqProperties DEF After
<1> QED
  BY <1>3, <1>4

\* An operation turns a list into a list, and returns one.
LEMMA OpTypes ==
  ASSUME NEW o \in Ops, NEW q \in Seq(Job)
  PROVE  Changed(o, q) \in Seq(Job) /\ Entries(o, q) \in Seq(Job)
<1>1. o.jobs \in Seq(Job) /\ o.count \in Nat
  BY DEF Ops
<1>2. q \o o.jobs \in Seq(Job)
  BY <1>1, ConcatProperties
<1> QED
  BY <1>1, <1>2, PartTypes DEF Changed, Entries

\* What is put behind a list is what comes after it.
LEMMA PutBehind ==
  ASSUME NEW q \in Seq(Job), NEW js \in Seq(Job)
  PROVE  After(Len(q), q \o js) = js
<1>1. q \o js \in Seq(Job) /\ Len(q \o js) = Len(q) + Len(js) /\ Len(q) \in Nat /\ Len(js) \in Nat
  BY ConcatProperties
<1>2. CASE js = <<>>
  BY <1>1, <1>2, SubSeqEmpty DEF After
<1>3. CASE js # <<>>
  <2>1. Len(js) > 0
    BY <1>1, <1>3, EmptySeq
  <2>2. SubSeq(q \o js, Len(q) + 1, Len(q) + Len(js)) = SubSeq(js, 1, Len(js))
    BY <1>1, <2>1, SubSeqOfConcat2
  <2> QED
    BY <1>1, <2>2, SubSeqFull DEF After
<1> QED
  BY <1>2, <1>3
------------------------------------------------------------------------------
\* A read gives a list, from whichever file.
LEMMA ContentType == QueueTypeOK => Content \in Seq(Job)
<1>1. <<>> \in Seq(Job)
  BY EmptySeq
<1> QED
  BY <1>1 DEF QueueTypeOK, Content

\* The first operation of every client, and of one that has returned.
LEMMA GetIsOp == Get \in Ops /\ <<>> \in Seq(Job)
<1>1. <<>> \in Seq(Job)
  BY EmptySeq
<1> QED
  BY <1>1, SMT DEF Get, Ops

\* Lock and unlock keep the holder a client or nobody.
LEMMA LockTypes ==
  ASSUME NEW c \in Client, QueueTypeOK, Lock(c), locking' = locking
  PROVE  holder' \in Client \cup {NoClient, Dead}
BY DEF Lock, QueueTypeOK

LEMMA EnterTypes ==
  ASSUME NEW c \in Client, NEW o \in Ops, NEW q \in Seq(Job), QueueTypeOK,
         EnterAs(c, o, q), blind' \in [Client -> BOOLEAN], faults' \in 0..MaxFaults
  PROVE  QueueTypeOK'
<1>1. holder' \in Client \cup {NoClient, Dead}
  BY LockTypes DEF EnterAs
<1>2. op' \in [Client -> Ops] /\ list' \in [Client -> Seq(Job)]
  BY SMT DEF EnterAs, QueueTypeOK
<1>3. /\ pc' \in [Client -> {"idle", "write", "leave"}]
      /\ result' \in [Client -> {"ok", "empty", "error"}]
  <2>1. CASE o.kind = "get" /\ q = <<>>
    BY <2>1 DEF EnterAs, QueueTypeOK, Goto
  <2>2. CASE ~ (o.kind = "get" /\ q = <<>>)
    BY <2>2 DEF EnterAs, QueueTypeOK, Goto
  <2> QED
    BY <2>1, <2>2
<1> QED
  BY <1>1, <1>2, <1>3 DEF EnterAs, QueueTypeOK

\* Every step keeps the types.
LEMMA TypeInductive == QueueTypeOK /\ [Next]_queueVars => QueueTypeOK'
<1> SUFFICES ASSUME QueueTypeOK, [Next]_queueVars PROVE QueueTypeOK'
  OBVIOUS
<1>1. ASSUME NEW c \in Client, NEW o \in Ops, Enter(c, o) PROVE QueueTypeOK'
  BY <1>1, ContentType, EnterTypes DEF Enter, QueueTypeOK
<1>2. ASSUME NEW c \in Client, NEW o \in Ops, EnterBlind(c, o) PROVE QueueTypeOK'
  <2>1. blind' \in [Client -> BOOLEAN]
    BY <1>2 DEF EnterBlind, QueueTypeOK
  <2>2. faults' \in 0..MaxFaults
    BY <1>2, QueueAssumption, SMT DEF EnterBlind, Faulty, QueueTypeOK
  <2> QED
    BY <1>2, <2>1, <2>2, GetIsOp, EnterTypes DEF EnterBlind
<1>3. ASSUME NEW c \in Client, TimesOut(c) PROVE QueueTypeOK'
  <2>1. faults' \in 0..MaxFaults
    BY <1>3, QueueAssumption, SMT DEF TimesOut, Faulty, QueueTypeOK
  <2> QED
    BY <1>3, <2>1 DEF TimesOut, QueueTypeOK
<1>4. ASSUME NEW c \in Client, Replace(c) PROVE QueueTypeOK'
  <2>1. op[c] \in Ops /\ list[c] \in Seq(Job)
    BY DEF QueueTypeOK
  <2>2. file' \in Seq(Job) /\ got' \in [Client -> Seq(Job)]
    BY <1>4, <2>1, OpTypes, SMT DEF Replace, QueueTypeOK
  <2>3. losses' \in Nat
    BY <1>4, SMT DEF Replace, QueueTypeOK
  <2>4. /\ pc' \in [Client -> {"idle", "write", "leave"}]
        /\ result' \in [Client -> {"ok", "empty", "error"}]
    BY <1>4, SMT DEF Replace, QueueTypeOK, Goto
  <2> QED
    BY <1>4, <2>2, <2>3, <2>4 DEF Replace, QueueTypeOK
<1>5. ASSUME NEW c \in Client, ReplaceFails(c) PROVE QueueTypeOK'
  <2>1. faults' \in 0..MaxFaults /\ losses' \in Nat
    BY <1>5, QueueAssumption, SMT DEF ReplaceFails, Faulty, QueueTypeOK
  <2>2. file' \in Seq(Job) \cup {Torn}
    BY <1>5 DEF ReplaceFails, QueueTypeOK
  <2>3. /\ pc' \in [Client -> {"idle", "write", "leave"}]
        /\ result' \in [Client -> {"ok", "empty", "error"}]
    BY <1>5, SMT DEF ReplaceFails, QueueTypeOK, Goto
  <2> QED
    BY <1>5, <2>1, <2>2, <2>3 DEF ReplaceFails, QueueTypeOK
<1>6. ASSUME NEW c \in Client, Forget(c)
      PROVE  /\ op' \in [Client -> Ops]
             /\ list' \in [Client -> Seq(Job)]
             /\ blind' \in [Client -> BOOLEAN]
             /\ result' \in [Client -> {"ok", "empty", "error"}]
  BY <1>6, GetIsOp DEF Forget, QueueTypeOK
<1>7. ASSUME NEW c \in Client, Leave(c) PROVE QueueTypeOK'
  BY <1>7, <1>6 DEF Leave, Goto, QueueTypeOK
<1>8. ASSUME NEW c \in Client, Die(c) PROVE QueueTypeOK'
  BY <1>8, <1>6 DEF Die, QueueTypeOK
<1>9. CASE Expire
  BY <1>9 DEF Expire, QueueTypeOK
<1>10. CASE UNCHANGED queueVars
  BY <1>10 DEF queueVars, QueueTypeOK
<1> QED
  BY <1>1, <1>2, <1>3, <1>4, <1>5, <1>7, <1>8, <1>9, <1>10 DEF Next, Step

\* The queue starts empty.
LEMMA InitInv == Init => IInv
<1> SUFFICES ASSUME Init PROVE IInv
  OBVIOUS
<1>1. QueueTypeOK
  BY GetIsOp, QueueAssumption DEF Init, QueueTypeOK
<1>2. AloneAtWork /\ IdleSees
  BY DEF Init, AloneAtWork, IdleSees
<1> QED
  BY <1>1, <1>2 DEF IInv
------------------------------------------------------------------------------
\* Where the lock is real, another client is idle while c has the lock.
LEMMA EnterAlone ==
  ASSUME NEW c \in Client, NEW o \in Ops, NEW q \in Seq(Job), IInv,
         EnterAs(c, o, q), q = IF blind'[c] THEN <<>> ELSE Content
  PROVE  AloneAtWork'
<1> SUFFICES ASSUME locking' = "real", NEW d \in Client, pc'[d] # "idle"
             PROVE  holder' = d /\ (pc'[d] = "write" => list'[d] = IF blind'[d] THEN <<>> ELSE Content')
  BY DEF AloneAtWork
<1>1. holder = NoClient /\ holder' = c
  BY DEF EnterAs, Lock
<1>2. \A e \in Client : pc[e] = "idle"
  BY <1>1, QueueAssumption DEF IInv, AloneAtWork, EnterAs
<1>3. d = c
  BY <1>2 DEF EnterAs, Goto, IInv, QueueTypeOK
<1>4. list'[c] = q /\ Content' = Content
  BY DEF EnterAs, Content, IInv, QueueTypeOK
<1> QED
  BY <1>1, <1>3, <1>4

\* A client that gives up or loses its place leaves the others as they are.
LEMMA ExitAlone ==
  ASSUME NEW c \in Client, IInv, pc' = [pc EXCEPT ![c] = "idle"], Forget(c),
         locking' = locking, file' = file,
         holder' = holder \/ holder = c
  PROVE  AloneAtWork'
<1> SUFFICES ASSUME locking' = "real", NEW d \in Client, pc'[d] # "idle"
             PROVE  holder' = d /\ (pc'[d] = "write" => list'[d] = IF blind'[d] THEN <<>> ELSE Content')
  BY DEF AloneAtWork
<1>1. d # c /\ pc[d] # "idle" /\ pc'[d] = pc[d]
  BY DEF IInv, QueueTypeOK
<1>2. holder = d
  BY <1>1 DEF IInv, AloneAtWork
<1>3. list'[d] = list[d] /\ blind'[d] = blind[d] /\ Content' = Content
  BY <1>1 DEF Forget, Content, IInv, QueueTypeOK
<1> QED
  BY <1>1, <1>2, <1>3 DEF IInv, AloneAtWork

\* Only the client at work steps on to "leave".
LEMMA WriteAlone ==
  ASSUME NEW c \in Client, IInv, Goto(c, "write", "leave"),
         locking' = locking, holder' = holder
  PROVE  AloneAtWork'
<1> SUFFICES ASSUME locking' = "real", NEW d \in Client, pc'[d] # "idle"
             PROVE  holder' = d /\ pc'[d] # "write"
  BY DEF AloneAtWork
<1>1. holder = c
  BY DEF IInv, AloneAtWork, Goto
<1>2. pc[d] # "idle"
  BY DEF IInv, QueueTypeOK, Goto
<1>3. holder = d
  BY <1>2 DEF IInv, AloneAtWork
<1> QED
  BY <1>1, <1>3 DEF IInv, QueueTypeOK, Goto

LEMMA AloneInductive == IInv /\ [Next]_queueVars => AloneAtWork'
<1> SUFFICES ASSUME IInv, [Next]_queueVars PROVE AloneAtWork'
  OBVIOUS
<1>1. ASSUME NEW c \in Client, NEW o \in Ops, Enter(c, o) PROVE AloneAtWork'
  <2>1. ~blind'[c]
    BY <1>1 DEF Enter, EnterAs, Goto, IInv, IdleSees
  <2> QED
    BY <1>1, <2>1, ContentType, EnterAlone DEF Enter, IInv
<1>2. ASSUME NEW c \in Client, NEW o \in Ops, EnterBlind(c, o) PROVE AloneAtWork'
  <2>1. blind'[c]
    BY <1>2 DEF EnterBlind, IInv, QueueTypeOK
  <2> QED
    BY <1>2, <2>1, GetIsOp, EnterAlone DEF EnterBlind
<1>3. ASSUME NEW c \in Client, TimesOut(c) PROVE AloneAtWork'
  BY <1>3 DEF TimesOut, IInv, AloneAtWork, Content
<1>4. ASSUME NEW c \in Client, Replace(c) PROVE AloneAtWork'
  BY <1>4, WriteAlone DEF Replace
<1>5. ASSUME NEW c \in Client, ReplaceFails(c) PROVE AloneAtWork'
  BY <1>5, WriteAlone DEF ReplaceFails
<1>6. ASSUME NEW c \in Client, Leave(c) PROVE AloneAtWork'
  BY <1>6, ExitAlone DEF Leave, Goto
<1>7. ASSUME NEW c \in Client, Die(c) PROVE AloneAtWork'
  BY <1>7, ExitAlone DEF Die
<1>8. CASE Expire
  <2>1. \A c \in Client : locking = "real" => pc[c] = "idle"
    BY <1>8, QueueAssumption DEF Expire, IInv, AloneAtWork
  <2> QED
    BY <1>8, <2>1 DEF Expire, AloneAtWork
<1>9. CASE UNCHANGED queueVars
  BY <1>9 DEF queueVars, IInv, AloneAtWork, Content
<1> QED
  BY <1>1, <1>2, <1>3, <1>4, <1>5, <1>6, <1>7, <1>8, <1>9 DEF Next, Step

\* Whoever becomes idle forgets, and nobody becomes blind without leaving idle.
LEMMA IdleInductive == IInv /\ [Next]_queueVars => IdleSees'
<1> SUFFICES ASSUME IInv, [Next]_queueVars, NEW d \in Client, pc'[d] = "idle"
             PROVE  ~blind'[d]
  BY DEF IdleSees
<1> USE DEF IInv, QueueTypeOK, IdleSees
<1>1. ASSUME NEW c \in Client, NEW o \in Ops, Enter(c, o) \/ EnterBlind(c, o)
      PROVE  ~blind'[d]
  <2>1. d # c /\ pc[d] = "idle"
    BY <1>1 DEF Enter, EnterBlind, EnterAs, Goto
  <2> QED
    BY <1>1, <2>1 DEF Enter, EnterBlind
<1>2. ASSUME NEW c \in Client, TimesOut(c) PROVE ~blind'[d]
  BY <1>2 DEF TimesOut
<1>3. ASSUME NEW c \in Client, Replace(c) \/ ReplaceFails(c) PROVE ~blind'[d]
  <2>1. pc[d] = "idle"
    BY <1>3 DEF Replace, ReplaceFails, Goto
  <2> QED
    BY <1>3, <2>1 DEF Replace, ReplaceFails
<1>4. ASSUME NEW c \in Client, Leave(c) \/ Die(c) PROVE ~blind'[d]
  <2>1. CASE d = c
    BY <1>4, <2>1 DEF Leave, Die, Forget
  <2>2. CASE d # c
    <3>1. pc[d] = "idle"
      BY <1>4, <2>2 DEF Leave, Die, Goto
    <3> QED
      BY <1>4, <2>2, <3>1 DEF Leave, Die, Forget
  <2> QED
    BY <2>1, <2>2
<1>5. CASE Expire
  BY <1>5 DEF Expire
<1>6. CASE UNCHANGED queueVars
  BY <1>6 DEF queueVars
<1> QED
  BY <1>1, <1>2, <1>3, <1>4, <1>5, <1>6 DEF Next, Step

\* All parts together.
LEMMA StepInv == IInv /\ [Next]_queueVars => IInv'
BY TypeInductive, IdleInductive, AloneInductive DEF IInv

\* The types hold, for any number of requests and any bound on the errors.
THEOREM QueueTypeCorrect == Spec => []QueueTypeOK
<1>1. IInv => QueueTypeOK
  BY DEF IInv
<1> QED
  BY InitInv, StepInv, <1>1, PTL DEF Spec
------------------------------------------------------------------------------
\* Taking more than there is takes what there is.
LEMMA TakeAll ==
  ASSUME NEW q \in Seq(Job), NEW n \in Nat
  PROVE  \E k \in 0..Len(q) :
           Upto(n, q) = AtomicQueue!Upto(k, q) /\ After(n, q) = AtomicQueue!After(k, q)
<1>1. Len(q) \in Nat
  BY LenProperties
<1>2. CASE n <= Len(q)
  BY <1>1, <1>2 DEF Upto, After, AtomicQueue!Upto, AtomicQueue!After
<1>3. CASE ~ (n <= Len(q))
  <2>1. After(n, q) = <<>>
    BY <1>1, <1>3, SubSeqEmpty DEF After
  <2>2. AtomicQueue!After(Len(q), q) = <<>>
    BY <1>1, SubSeqEmpty DEF AtomicQueue!After
  <2>3. Upto(n, q) = AtomicQueue!Upto(Len(q), q)
    BY <1>1, <1>3 DEF Upto, AtomicQueue!Upto
  <2>4. Len(q) \in 0..Len(q)
    BY <1>1
  <2> QED
    BY <2>1, <2>2, <2>3, <2>4
<1> QED
  BY <1>2, <1>3

\* The steps that change the file, as the atomic queue sees them.  A put:
LEMMA PutMaps ==
  ASSUME NEW c \in Client, IInv, locking = "real", Replace(c),
         op[c].kind = "put", ~blind[c]
  PROVE  AtomicQueue!Put
<1>1. list[c] = Content /\ op[c].jobs \in Seq(Job) /\ Content \in Seq(Job)
  BY ContentType DEF IInv, AloneAtWork, Replace, Goto, QueueTypeOK, Ops
<1>2. file' = Content \o op[c].jobs
  BY <1>1 DEF Replace, Changed
<1>3. file' \in Seq(Job)
  BY <1>1, <1>2, ConcatProperties
<1>4. Content' = file'
  BY <1>3, QueueAssumption DEF Content
<1>5. After(Len(Content), file') = op[c].jobs
  BY <1>1, <1>2, PutBehind
<1> QED
  BY <1>2, <1>4, <1>5 DEF AtomicQueue!Put, AtomicQueue!After, After, Atomic, Replace

\* A get or mget:
LEMMA TakeMaps ==
  ASSUME NEW c \in Client, IInv, locking = "real", Replace(c),
         op[c].kind # "put", ~blind[c]
  PROVE  \E n \in 0..Len(Content) : AtomicQueue!Take(c, n)
<1>1. list[c] = Content /\ op[c].count \in Nat /\ Content \in Seq(Job)
  BY ContentType DEF IInv, AloneAtWork, Replace, Goto, QueueTypeOK, Ops
<1>2. PICK n \in 0..Len(Content) :
        /\ Upto(op[c].count, Content) = AtomicQueue!Upto(n, Content)
        /\ After(op[c].count, Content) = AtomicQueue!After(n, Content)
  BY <1>1, TakeAll
<1>3. file' = After(op[c].count, Content) /\ file' \in Seq(Job)
  BY <1>1, PartTypes DEF Replace, Changed
<1>4. Content' = file'
  BY <1>3, QueueAssumption DEF Content
<1>5. got' = [got EXCEPT ![c] = Upto(op[c].count, Content)]
  BY <1>1 DEF Replace, Entries
<1>6. losses' = losses
  BY DEF Replace
<1>7. AtomicQueue!Take(c, n)
  BY <1>2, <1>3, <1>4, <1>5, <1>6 DEF AtomicQueue!Take, Atomic, Replace
<1> QED
  BY <1>7

\* A write of a client that could not read:
LEMMA BlindMaps ==
  ASSUME NEW c \in Client, IInv, locking = "real", Replace(c), blind[c],
         list[c] = <<>>
  PROVE  AtomicQueue!Lose(c)
<1>1. op[c] \in Ops /\ op[c].count \in Nat
  BY DEF IInv, QueueTypeOK, Ops
<1>2. file' \in Seq(Job)
  BY <1>1, OpTypes, GetIsOp DEF Replace
<1>3. Content' = file'
  BY <1>2, QueueAssumption DEF Content
<1>4. got' = got \/ got' = [got EXCEPT ![c] = <<>>]
  <2>1. Upto(op[c].count, <<>>) = <<>>
    <3>1. Len(<<>>) = 0 /\ 0 < 1
      BY EmptySeq
    <3>2. SubSeq(<<>>, 1, 0) = <<>>
      BY SubSeqEmpty
    <3>3. CASE op[c].count < 0
      BY <3>3, <1>1
    <3>4. CASE ~ (op[c].count < 0)
      BY <3>1, <3>2, <3>4 DEF Upto
    <3> QED
      BY <3>3, <3>4
  <2> QED
    BY <2>1 DEF Replace, Entries
<1>5. losses' = losses + 1
  BY DEF Replace
<1> QED
  BY <1>2, <1>3, <1>4, <1>5 DEF AtomicQueue!Lose, Atomic, Replace

\* An error while writing: nothing, or all of it lost.
LEMMA FailureMaps ==
  ASSUME NEW c \in Client, IInv, locking = "real", ReplaceFails(c)
  PROVE  AtomicQueue!Lose(c) \/ UNCHANGED <<Content, got, losses, locking>>
<1>1. CASE UNCHANGED <<file, losses>>
  BY <1>1 DEF ReplaceFails, Content
<1>2. CASE file' = Torn /\ losses' = losses + 1
  <2>1. Content' = <<>>
    BY <1>2 DEF Content
  <2> QED
    BY <1>2, <2>1, GetIsOp DEF AtomicQueue!Lose, Atomic, ReplaceFails
<1> QED
  BY <1>1, <1>2 DEF ReplaceFails

\* What the atomic queue does not see.
LEMMA HiddenStep ==
  ASSUME UNCHANGED <<Content, got, losses, locking>>
  PROVE  UNCHANGED AtomicQueue!vars
BY DEF AtomicQueue!vars, Atomic

LEMMA LazyStep ==
  ASSUME locking = "lazy", locking' = locking
  PROVE  UNCHANGED AtomicQueue!vars
BY DEF AtomicQueue!vars, Atomic

\* No step changes whether the lock is real.
LEMMA SameLocking == [Next]_queueVars => locking' = locking
BY DEF Next, Step, Enter, EnterBlind, EnterAs, TimesOut, Replace, ReplaceFails, Leave,
       Die, Expire, queueVars

\* Every step is one of the atomic queue, or hidden.
LEMMA Simulation == IInv /\ [Next]_queueVars => [AtomicQueue!Next]_(AtomicQueue!vars)
<1> SUFFICES ASSUME IInv, [Next]_queueVars
             PROVE  AtomicQueue!Next \/ UNCHANGED AtomicQueue!vars
  OBVIOUS
<1>1. CASE locking = "lazy"
  BY <1>1, SameLocking, LazyStep
<1>2. CASE locking = "real"
  <2>1. ASSUME NEW c \in Client, Replace(c)
        PROVE  AtomicQueue!Next
    <3>1. CASE blind[c]
      <4>1. list[c] = <<>>
        BY <1>2, <2>1, <3>1 DEF IInv, AloneAtWork, Replace, Goto
      <4> QED
        BY <1>2, <2>1, <3>1, <4>1, BlindMaps DEF AtomicQueue!Next
    <3>2. CASE ~blind[c] /\ op[c].kind = "put"
      BY <1>2, <2>1, <3>2, PutMaps DEF AtomicQueue!Next
    <3>3. CASE ~blind[c] /\ op[c].kind # "put"
      <4>1. PICK n \in 0..Len(Content) : AtomicQueue!Take(c, n)
        BY <1>2, <2>1, <3>3, TakeMaps
      <4>2. n \in 0..Len(Atomic(Content, <<>>))
        BY <1>2 DEF Atomic
      <4> QED
        BY <4>1, <4>2 DEF AtomicQueue!Next
    <3> QED
      BY <3>1, <3>2, <3>3
  <2>2. ASSUME NEW c \in Client, ReplaceFails(c)
        PROVE  AtomicQueue!Next \/ UNCHANGED AtomicQueue!vars
    BY <1>2, <2>2, FailureMaps, HiddenStep DEF AtomicQueue!Next
  <2>3. ASSUME NEW c \in Client,
               \/ \E o \in Ops : Enter(c, o) \/ EnterBlind(c, o)
               \/ TimesOut(c) \/ Leave(c) \/ Die(c)
        PROVE  UNCHANGED AtomicQueue!vars
    <3>1. UNCHANGED <<file, got, losses, locking>>
      BY <2>3 DEF Enter, EnterBlind, EnterAs, TimesOut, Leave, Die
    <3> QED
      BY <3>1, HiddenStep DEF Content
  <2>4. CASE Expire \/ UNCHANGED queueVars
    <3>1. UNCHANGED <<file, got, losses, locking>>
      BY <2>4 DEF Expire, queueVars
    <3> QED
      BY <3>1, HiddenStep DEF Content
  <2> QED
    BY <2>1, <2>2, <2>3, <2>4 DEF Next, Step
<1> QED
  BY <1>1, <1>2 DEF IInv, QueueTypeOK

\* It starts empty.
LEMMA InitMaps == Init => AtomicQueue!Init
<1> SUFFICES ASSUME Init PROVE AtomicQueue!Init
  OBVIOUS
<1>1. Content = <<>>
  BY DEF Init, Content
<1> QED
  BY <1>1 DEF Init, AtomicQueue!Init, Atomic

\* Where LazyWriteLock locks, overlapping put and get of any number of requests,
\* their errors, timeouts and deaths amount to an atomic queue, from which only
\* a storage error takes jobs without giving them to anybody.
THEOREM QueueImplemented == Spec => ImplementsQueue
<1>1. ImplementsQueue <=> AtomicQueue!Init /\ [][AtomicQueue!Next]_(AtomicQueue!vars)
  BY DEF ImplementsQueue, AtomicQueue!Spec
<1> QED
  BY InitInv, StepInv, InitMaps, Simulation, <1>1, PTL DEF Spec
------------------------------------------------------------------------------
(* Types. *)

LEMMA PutIsOp ==
  ASSUME NEW js \in Seq(Page) PROVE PutOf(js) \in Ops /\ Get \in Ops
BY IndexAssumption, GetIsOp, SMT DEF PutOf, Ops

\* What has been put into a list of lists.
LEMMA AgendaParts ==
  ASSUME NEW q \in Seq(Seq(Page)), q # <<>>
  PROVE  /\ q[1] \in Seq(Page) /\ Tail(q) \in Seq(Seq(Page))
         /\ Len(q) \in Nat \ {0} /\ DOMAIN q = 1..Len(q)
         /\ DOMAIN Tail(q) = 1..(Len(q) - 1)
         /\ \A i \in 1..(Len(q) - 1) : Tail(q)[i] = q[i + 1]
OBVIOUS

LEMMA SetOfType ==
  ASSUME NEW q \in Seq(Page) PROVE ToSet(q) \subseteq Page
BY DEF ToSet

LEMMA AgendaPages ==
  ASSUME TypeOK, NEW c \in Client
  PROVE  Unput(c) \subseteq Page
<1> SUFFICES ASSUME NEW i \in DOMAIN agenda[c] PROVE ToSet(agenda[c][i]) \subseteq Page
  BY DEF Unput
<1>1. agenda[c] \in Seq(Seq(Page))
  BY DEF TypeOK
<1> QED BY <1>1, SetOfType

\* The documents that a connection loses are of pages.
LEMMA UnwrittenPages == TypeOK => Unwritten \subseteq Page
BY DEF TypeOK, Unwritten

LEMMA FirstOf ==
  ASSUME NEW n \in Nat, NEW S \in SUBSET (0..n), S # {}
  PROVE  First(S) \in S /\ \A m \in S : m <= First(S)
<1> DEFINE T == {k..n : k \in S}
<1>1. T \subseteq FiniteSubsetsOf(Nat) /\ T # {}
  <2>1. ASSUME NEW k \in S PROVE k..n \in FiniteSubsetsOf(Nat)
    BY FS_Interval DEF FiniteSubsetsOf
  <2> QED BY <2>1
<1>2. PICK x \in T : \A y \in T : <<y, x>> \notin StrictSubsetOrdering(Nat)
  <2> HIDE DEF T
  <2> QED BY <1>1, WFMin, FS_StrictSubsetOrderingWellFounded
<1>3. PICK m \in S : x = m..n
  OBVIOUS
<1>4. ASSUME NEW k \in S, ~(k <= m) PROVE FALSE
  <2>1. k..n \subseteq m..n /\ m \in m..n /\ m \notin k..n /\ k..n \in T
    BY <1>4
  <2>2. k..n \in SUBSET Nat /\ m..n \in SUBSET Nat /\ k..n # m..n
    BY <2>1
  <2>3. <<k..n, m..n>> \in StrictSubsetOrdering(Nat)
    BY <2>1, <2>2 DEF StrictSubsetOrdering
  <2> QED BY <1>2, <1>3, <2>1, <2>3
<1> QED BY <1>4 DEF First

\* The revisions a page has texts of.
LEMMA RevListType ==
  ASSUME TypeOK, NEW p \in Page
  PROVE  /\ clock \in Nat /\ RevList(p) \subseteq 1..clock
         /\ \A n \in RevList(p) : revs[p][n] \in 1..clock /\ Time(p, n) = revs[p][n]
<1>1. revs[p] \in Seq(1..clock \cup {NoText}) /\ Len(revs[p]) <= clock /\ clock \in Nat
  BY DEF TypeOK, Newest
<1>2. DOMAIN revs[p] = 1..Len(revs[p]) /\ Len(revs[p]) \in Nat
  BY <1>1
<1>3. \A n \in DOMAIN revs[p] : revs[p][n] \in 1..clock \cup {NoText}
  BY <1>1, <1>2
<1> QED BY <1>1, <1>2, <1>3 DEF RevList, Time

LEMMA TopOf ==
  ASSUME TypeOK, NEW p \in Page, RevList(p) # {}
  PROVE  Top(p) \in RevList(p) /\ \A n \in RevList(p) : n <= Top(p)
<1>1. RevList(p) \in SUBSET (0..clock) /\ clock \in Nat
  BY RevListType
<1> QED BY <1>1, FirstOf DEF Top

LEMMA TodoFirst ==
  ASSUME TypeOK, NEW c \in Client, todo[c] # {}
  PROVE  /\ First(todo[c]) \in todo[c] /\ First(todo[c]) \in 1..clock
         /\ \A n \in todo[c] : n <= First(todo[c])
<1>1. todo[c] \subseteq 1..clock /\ clock \in Nat
  BY DEF TypeOK
<1>2. todo[c] \in SUBSET (0..clock)
  BY <1>1
<1> QED BY <1>1, <1>2, FirstOf

LEMMA TimeType ==
  ASSUME TypeOK, NEW p \in Page, NEW n PROVE Time(p, n) \in 0..clock
<1>1. n \in RevList(p) => Time(p, n) \in 0..clock
  BY RevListType
<1>2. n \notin RevList(p) => Time(p, n) = 0
  BY DEF Time, RevList
<1> QED BY <1>1, <1>2, RevListType
------------------------------------------------------------------------------
(* Each kind of step keeps the types. *)

LEMMA QueueSame == QueueTypeOK /\ UNCHANGED queueVars => QueueTypeOK'
BY DEF QueueTypeOK, queueVars

\* What there are errors left for.
LEMMA FaultyTyped ==
  ASSUME TypeOK, Faulty, QueueUnused PROVE QueueTypeOK'
<1>1. faults' \in 0..MaxFaults
  BY QueueAssumption, SMT DEF Faulty, TypeOK, QueueTypeOK
<1> QED BY <1>1 DEF QueueUnused, TypeOK, QueueTypeOK

\* The variables that are not of the queue, pages apart.
LEMMA Grown ==
  ASSUME TypeOK, clock' = clock + 1
  PROVE  /\ clock' \in Nat /\ 1..clock \subseteq 1..clock' /\ 0..clock \subseteq 0..clock'
         /\ Seq(1..clock \cup {NoText}) \subseteq Seq(1..clock' \cup {NoText})
<1>1. clock \in Nat
  BY DEF TypeOK
<1>2. 1..clock \subseteq 1..clock' /\ 0..clock \subseteq 0..clock'
  BY <1>1
<1>3. ASSUME NEW q \in Seq(1..clock \cup {NoText}) PROVE q \in Seq(1..clock' \cup {NoText})
  <2>1. Len(q) \in Nat /\ q \in [1..Len(q) -> 1..clock \cup {NoText}]
    BY <1>3
  <2>2. q \in [1..Len(q) -> 1..clock' \cup {NoText}]
    BY <1>2, <2>1
  <2> QED BY <2>1, <2>2
<1> QED BY <1>1, <1>2, <1>3

\* One change, death or script less.
LEMMA BudgetSpent ==
  ASSUME bounds \in Budget
  PROVE  /\ bounds.changes > 0 => [bounds EXCEPT !.changes = @ - 1] \in Budget
         /\ bounds.crashes > 0 => [bounds EXCEPT !.crashes = @ - 1] \in Budget
         /\ bounds.scripts > 0 => [bounds EXCEPT !.scripts = @ - 1] \in Budget
BY SMT DEF Budget

LEMMA ChangeTyped ==
  ASSUME TypeOK, NEW c \in Client, NEW new, NEW jobs \in Seq(Seq(Page)),
         Change(c, new, jobs), forgotten' \subseteq Page,
         new \in [Page -> Seq(1..(clock + 1) \cup {NoText})],
         \A p \in Page : Len(new[p]) <= clock + 1
  PROVE  TypeOK'
<1>1. clock' = clock + 1 /\ revs' = new
  BY DEF Change
<1>2. QueueTypeOK'
  BY QueueSame DEF Change, TypeOK
<1>3. revs' \in [Page -> Seq(1..clock' \cup {NoText})] /\ \A p \in Page : Newest(p)' <= clock'
  BY <1>1 DEF Newest
<1>4. bounds' \in Budget
  BY BudgetSpent DEF Change, TypeOK
<1>5. /\ stage' \in [Client -> Stages]
      /\ agenda' \in [Client -> Seq(Seq(Page))] /\ amount' \in [Client -> {-1, 0, 1}]
  <2>1. stage' \in [Client -> Stages]
    BY DEF Change, TypeOK, Stages
  <2>2. agenda' \in [Client -> Seq(Seq(Page))]
    BY DEF Change, TypeOK
  <2>3. amount' \in [Client -> {-1, 0, 1}]
    BY DEF Change, TypeOK
  <2> QED BY <2>1, <2>2, <2>3
<1>6. /\ todo' \in [Client -> SUBSET (1..clock')] /\ gone' \in [Client -> SUBSET (1..clock')]
      /\ index' \cup pending' \subseteq [page : Page, rev : 1..clock', time : 0..clock']
  <2>1. UNCHANGED <<todo, gone, index, pending>>
    BY DEF Change, docVars
  <2>2. todo \in [Client -> SUBSET (1..clock)] /\ gone \in [Client -> SUBSET (1..clock)]
        /\ index \cup pending \subseteq [page : Page, rev : 1..clock, time : 0..clock]
    BY DEF TypeOK
  <2> QED BY <1>1, <2>1, <2>2, Grown
<1>7. history' \in BOOLEAN /\ database' \in Client \cup {NoClient}
      /\ forgotten' \cup partial' \cup reused' \subseteq Page /\ unattended' \in BOOLEAN
  BY DEF Change, TypeOK, docVars
<1> QED BY <1>1, <1>2, <1>3, <1>4, <1>5, <1>6, <1>7, Grown DEF TypeOK

\* What a page has after another revision, and what its copy has.
LEMMA AppendType ==
  ASSUME TypeOK, NEW p \in Page, NEW t \in 1..(clock + 1) \cup {NoText}
  PROVE  /\ Append(revs[p], t) \in Seq(1..(clock + 1) \cup {NoText})
         /\ Len(Append(revs[p], t)) = Len(revs[p]) + 1 /\ Len(revs[p]) <= clock
         /\ Len(revs[p]) \in Nat /\ clock \in Nat
         /\ \A q \in Page : /\ revs[q] \in Seq(1..(clock + 1) \cup {NoText})
                            /\ Len(revs[q]) <= clock + 1
<1>1. clock \in Nat /\ \A q \in Page : revs[q] \in Seq(1..clock \cup {NoText}) /\ Len(revs[q]) <= clock
  BY DEF TypeOK, Newest
<1>2. ASSUME NEW q \in Page PROVE revs[q] \in Seq(1..(clock + 1) \cup {NoText})
  <2>1. Len(revs[q]) \in Nat /\ revs[q] \in [1..Len(revs[q]) -> 1..clock \cup {NoText}]
    BY <1>1
  <2>2. revs[q] \in [1..Len(revs[q]) -> 1..(clock + 1) \cup {NoText}]
    BY <1>1, <2>1
  <2> QED BY <2>1, <2>2
<1> QED BY <1>1, <1>2

LEMMA WithRevType ==
  ASSUME TypeOK, NEW p \in Page, NEW t \in 1..(clock + 1) \cup {NoText}
  PROVE  /\ WithRev(p, t) \in [Page -> Seq(1..(clock + 1) \cup {NoText})]
         /\ \A q \in Page : Len(WithRev(p, t)[q]) <= clock + 1
BY AppendType, revs \in [Page -> Seq(1..clock \cup {NoText})] DEF WithRev, TypeOK

LEMMA CopiedType ==
  ASSUME TypeOK, NEW p \in Page, NEW q \in Page
  PROVE  /\ CopiedTo(p, q) \in [Page -> Seq(1..(clock + 1) \cup {NoText})]
         /\ \A r \in Page : Len(CopiedTo(p, q)[r]) <= clock + 1
<1>1. clock + 1 \in 1..(clock + 1)
  BY DEF TypeOK
<1> QED BY <1>1, AppendType, revs \in [Page -> Seq(1..clock \cup {NoText})] DEF CopiedTo, TypeOK
LEMMA ChangesTyped ==
  ASSUME TypeOK, NEW c \in Client, NEW p \in Page,
         \/ Save(c, p) \/ Delete(c, p) \/ Revert(c, p)
         \/ \E q \in Page : Copy(c, p, q) \/ Rename(c, p, q)
  PROVE  TypeOK'
<1>1. clock + 1 \in 1..(clock + 1) \cup {NoText} /\ forgotten \subseteq Page
  BY DEF TypeOK
<1>2. /\ <<>> \in Seq(Seq(Page)) /\ <<<<p>>>> \in Seq(Seq(Page))
      /\ \A q \in Page : <<<<q>>>> \in Seq(Seq(Page)) /\ <<<<p>>, <<q>>>> \in Seq(Seq(Page))
  OBVIOUS
<1>3. CASE Save(c, p)
  BY <1>1, <1>2, <1>3, WithRevType, ChangeTyped DEF Save
<1>4. CASE Delete(c, p)
  BY <1>1, <1>2, <1>4, WithRevType, ChangeTyped DEF Delete
<1>5. CASE Revert(c, p)
  BY <1>1, <1>2, <1>5, WithRevType, ChangeTyped DEF Revert
<1>6. ASSUME NEW q \in Page, Copy(c, p, q) PROVE TypeOK'
  BY <1>1, <1>2, <1>6, CopiedType, ChangeTyped DEF Copy
<1>7. ASSUME NEW q \in Page, Rename(c, p, q) PROVE TypeOK'
  <2> DEFINE new == [CopiedTo(p, q) EXCEPT ![p] = <<>>]
  <2>1. new \in [Page -> Seq(1..(clock + 1) \cup {NoText})]
    BY CopiedType
  <2>2. \A r \in Page : Len(new[r]) <= clock + 1
    BY CopiedType, clock \in Nat DEF TypeOK
  <2>3. Change(c, new, RenameJobs(p, q)) /\ forgotten' = forgotten
    BY <1>7 DEF Rename
  <2> HIDE DEF new
  <2> QED BY <1>1, <1>2, <2>1, <2>2, <2>3, ChangeTyped DEF RenameJobs
<1> QED BY <1>3, <1>4, <1>5, <1>6, <1>7

\* Steps that leave the pages as they are.
Still == UNCHANGED pageVars

LEMMA StillTyped ==
  ASSUME TypeOK, Still, QueueTypeOK', bounds' \in Budget,
         stage' \in [Client -> Stages], agenda' \in [Client -> Seq(Seq(Page))],
         amount' \in [Client -> {-1, 0, 1}],
         todo' \in [Client -> SUBSET (1..clock)], gone' \in [Client -> SUBSET (1..clock)],
         database' \in Client \cup {NoClient},
         index' \cup pending' \subseteq [page : Page, rev : 1..clock, time : 0..clock],
         forgotten' \subseteq Page, partial' \subseteq Page, unattended' \in BOOLEAN
  PROVE  TypeOK'
BY DEF TypeOK, Still, pageVars, Newest

\* Steps that leave the pages, the documents and the database as they are.
LEMMA QueueStepTyped ==
  ASSUME TypeOK, Still, UNCHANGED docVars, QueueTypeOK', bounds' \in Budget,
         stage' \in [Client -> Stages], agenda' \in [Client -> Seq(Seq(Page))],
         amount' \in [Client -> {-1, 0, 1}],
         forgotten' \subseteq Page, partial' = partial, unattended' \in BOOLEAN
  PROVE  TypeOK'
BY StillTyped DEF TypeOK, docVars

LEMMA ScriptTyped ==
  ASSUME TypeOK, NEW c \in Client,
         QueuePages(c) \/ \E n \in {-1, 1} : IndexPagesQueued(c, n)
  PROVE  TypeOK'
<1>1. PICK to \in Stages : Script(c, to)
  BY DEF QueuePages, IndexPagesQueued, Stages
<1>2. Still /\ UNCHANGED docVars /\ QueueTypeOK' /\ stage' \in [Client -> Stages]
  BY <1>1, QueueSame DEF Script, Still, pageVars, docVars, TypeOK, Stage, queueVars
<1>3. bounds' \in Budget
  BY <1>1, BudgetSpent DEF Script, TypeOK
<1>4. agenda' \in [Client -> Seq(Seq(Page))] /\ amount' \in [Client -> {-1, 0, 1}]
  <2>1. CASE QueuePages(c)
    <3>1. PICK pages \in SetToSeqs({p \in Page : Exists(p)}) :
            agenda' = [agenda EXCEPT ![c] = <<pages>>]
      BY <2>1 DEF QueuePages
    <3>2. Cardinality({p \in Page : Exists(p)}) \in Nat
      BY IndexAssumption, FS_Subset, FS_CardinalityType
    <3>3. pages \in Seq({p \in Page : Exists(p)})
      BY <3>2 DEF SetToSeqs
    <3>4. pages \in Seq(Page)
      BY <3>3
    <3>5. <<pages>> \in Seq(Seq(Page))
      BY <3>4
    <3>6. amount' \in [Client -> {-1, 0, 1}]
      BY <2>1 DEF QueuePages, TypeOK
    <3> QED BY <3>1, <3>5, <3>6 DEF TypeOK
  <2>2. ASSUME NEW n \in {-1, 1}, IndexPagesQueued(c, n)
        PROVE  agenda' \in [Client -> Seq(Seq(Page))] /\ amount' \in [Client -> {-1, 0, 1}]
    BY <2>2 DEF IndexPagesQueued, TypeOK
  <2> QED BY <2>1, <2>2
<1>5. forgotten' \subseteq Page /\ partial' = partial /\ unattended' \in BOOLEAN
  BY <1>1 DEF Script, TypeOK
<1> QED BY <1>2, <1>3, <1>4, <1>5, QueueStepTyped
\* The queue's own steps keep its types.
LEMMA QueueStep ==
  ASSUME TypeOK, NEW c \in Client,
         \/ \E o \in Ops : Enter(c, o) \/ EnterBlind(c, o)
         \/ TimesOut(c) \/ Replace(c) \/ ReplaceFails(c) \/ Leave(c)
  PROVE  QueueTypeOK'
<1>1. Next
  BY DEF Next, Step
<1> QED BY <1>1, TypeInductive DEF TypeOK

LEMMA DieTyped ==
  ASSUME TypeOK, NEW c \in Client, Die(c) PROVE QueueTypeOK'
<1>1. /\ op' \in [Client -> Ops] /\ list' \in [Client -> Seq(Job)]
      /\ blind' \in [Client -> BOOLEAN] /\ result' \in [Client -> {"ok", "empty", "error"}]
  BY GetIsOp DEF Die, Forget, TypeOK, QueueTypeOK
<1> QED BY <1>1 DEF Die, TypeOK, QueueTypeOK

\* The page in hand is one.
LEMMA CurrentPage ==
  ASSUME TypeOK, ControlInv, NEW c \in Client, stage[c] \in {"revlist", "exists", "index"}
  PROVE  Current(c) \in Page /\ got[c] # <<>> /\ Current(c) \in ToSet(got[c])
<1>1. got[c] \in Seq(Page) /\ got[c] # <<>>
  BY IndexAssumption DEF TypeOK, QueueTypeOK, ControlInv, Control
<1>2. 1 \in DOMAIN got[c] /\ got[c][1] \in Page
  BY <1>1
<1> QED BY <1>1, <1>2 DEF Current, ToSet

LEMMA AgendaFirst ==
  ASSUME TypeOK, ControlInv, NEW c \in Client, stage[c] = "put"
  PROVE  /\ agenda[c] \in Seq(Seq(Page)) /\ agenda[c] # <<>>
         /\ agenda[c][1] \in Seq(Page) /\ PutOf(agenda[c][1]) \in Ops
<1>1. agenda[c] \in Seq(Seq(Page)) /\ agenda[c] # <<>>
  BY DEF TypeOK, ControlInv, Control
<1> QED BY <1>1, AgendaParts, PutIsOp

LEMMA FailPutTyped ==
  ASSUME TypeOK, NEW c \in Client, FailPut(c)
  PROVE  /\ stage' \in [Client -> Stages] /\ agenda' \in [Client -> Seq(Seq(Page))]
         /\ forgotten' \subseteq Page /\ unattended' \in BOOLEAN
<1>1. stage' \in [Client -> Stages]
  BY DEF FailPut, TypeOK, Stages
<1>2. <<>> \in Seq(Seq(Page))
  OBVIOUS
<1>3. agenda' \in [Client -> Seq(Seq(Page))]
  BY <1>2 DEF FailPut, TypeOK
<1>4. forgotten' \subseteq Page
  BY AgendaPages DEF FailPut, TypeOK
<1> QED BY <1>1, <1>3, <1>4 DEF FailPut

LEMMA PutTyped ==
  ASSUME TypeOK, ControlInv, NEW c \in Client, Put(c) PROVE TypeOK'
<1>1. /\ agenda[c] \in Seq(Seq(Page)) /\ agenda[c] # <<>>
      /\ agenda[c][1] \in Seq(Page) /\ PutOf(agenda[c][1]) \in Ops
  BY AgendaFirst DEF Put
<1>2. QueueTypeOK'
  BY <1>1, QueueStep DEF Put
<1>3. /\ stage' \in [Client -> Stages] /\ agenda' \in [Client -> Seq(Seq(Page))]
      /\ forgotten' \subseteq Page /\ unattended' \in BOOLEAN
  <2>1. CASE UNCHANGED <<stage, agenda, forgotten, unattended>>
    BY <2>1 DEF TypeOK
  <2>2. CASE FailPut(c)
    BY <2>2, FailPutTyped
  <2>3. CASE /\ agenda' = [agenda EXCEPT ![c] = Tail(@)]
             /\ stage' = [stage EXCEPT ![c] =
                               IF Len(agenda[c]) > 1 THEN "put"
                               ELSE IF amount[c] = 0 THEN "idle" ELSE "connect"]
             /\ unattended' = (unattended \/ amount[c] = 0)
             /\ UNCHANGED forgotten
    <3>1. Tail(agenda[c]) \in Seq(Seq(Page))
      BY <1>1, AgendaParts
    <3>2. stage' \in [Client -> Stages]
      BY <2>3 DEF TypeOK, Stages
    <3>3. unattended' \in BOOLEAN
      BY <2>3 DEF TypeOK
    <3> QED BY <2>3, <3>1, <3>2, <3>3 DEF TypeOK
  <2> QED BY <2>1, <2>2, <2>3 DEF Put
<1>4. /\ Still /\ UNCHANGED docVars /\ bounds' \in Budget /\ partial' = partial
      /\ amount' \in [Client -> {-1, 0, 1}]
  BY DEF Put, Still, TypeOK
<1> QED BY <1>2, <1>3, <1>4, QueueStepTyped

LEMMA TakeTyped ==
  ASSUME TypeOK, NEW c \in Client, Take(c) PROVE TypeOK'
<1>1. QueueTypeOK'
  BY GetIsOp, QueueStep, QueueSame DEF Take, TypeOK
<1>2. stage' \in [Client -> Stages]
  BY DEF Take, TypeOK, Stages
<1>3. amount' \in [Client -> {-1, 0, 1}]
  <2>1. amount[c] \in {-1, 0, 1} /\ Spent(amount[c]) \in {-1, 0, 1}
    BY DEF TypeOK, Spent
  <2> QED BY <2>1 DEF Take, TypeOK
<1>4. unattended' \in BOOLEAN
  BY DEF Take, TypeOK
<1>5. /\ Still /\ UNCHANGED docVars /\ bounds' \in Budget /\ partial' = partial
      /\ agenda' \in [Client -> Seq(Seq(Page))] /\ forgotten' \subseteq Page
  BY DEF Take, Still, TypeOK
<1> QED BY <1>1, <1>2, <1>3, <1>4, <1>5, QueueStepTyped

LEMMA WriteTyped ==
  ASSUME TypeOK, NEW c \in Client, Write(c) PROVE TypeOK'
<1>1. QueueTypeOK'
  BY QueueStep DEF Write
<1>2. Content \in Seq(Page)
  BY ContentType, IndexAssumption DEF TypeOK
<1>3. forgotten' \subseteq Page
  BY <1>2, SetOfType DEF Write, TypeOK
<1>4. /\ Still /\ UNCHANGED docVars /\ bounds' \in Budget /\ partial' = partial
      /\ agenda' \in [Client -> Seq(Seq(Page))] /\ stage' \in [Client -> Stages]
      /\ unattended' \in BOOLEAN /\ amount' \in [Client -> {-1, 0, 1}]
  BY DEF Write, Still, TypeOK
<1> QED BY <1>1, <1>3, <1>4, QueueStepTyped
LEMMA ConnectTyped ==
  ASSUME TypeOK, NEW c \in Client, Connect(c) PROVE TypeOK'
<1>1. QueueTypeOK'
  BY QueueSame DEF Connect, TypeOK
<1>2. stage' \in [Client -> Stages]
  BY DEF Connect, Stage, TypeOK, Stages
<1>3. database' \in Client \cup {NoClient} /\ pending' \in {pending, index}
  BY DEF Connect, TypeOK
<1>4. unattended' \in BOOLEAN
  BY DEF Connect, TypeOK
<1> QED BY <1>1, <1>2, <1>3, <1>4, StillTyped DEF Connect, Still, TypeOK

LEMMA RemovePageTyped ==
  ASSUME TypeOK, ControlInv, NEW c \in Client, RemovePage(c) PROVE TypeOK'
<1>1. Current(c) \in Page
  BY CurrentPage DEF RemovePage, Stage
<1>2. QueueTypeOK'
  BY QueueSame DEF RemovePage, TypeOK
<1>3. stage' \in [Client -> Stages] /\ forgotten' \subseteq Page
  BY <1>1 DEF RemovePage, Stage, TypeOK, Stages
<1>4. pending' \subseteq pending
  BY DEF RemovePage
<1> QED BY <1>2, <1>3, <1>4, StillTyped DEF RemovePage, Still, TypeOK

LEMMA ReadRevListTyped ==
  ASSUME TypeOK, ControlInv, NEW c \in Client, ReadRevList(c) PROVE TypeOK'
<1>1. RevList(Current(c)) \subseteq 1..clock
  BY CurrentPage, RevListType DEF ReadRevList, Stage
<1>2. QueueTypeOK'
  BY QueueSame DEF ReadRevList, TypeOK
<1>3. stage' \in [Client -> Stages]
  BY DEF ReadRevList, Stage, TypeOK, Stages
<1>4. todo' \in [Client -> SUBSET (1..clock)]
  BY <1>1 DEF ReadRevList, TypeOK
<1> QED BY <1>2, <1>3, <1>4, StillTyped DEF ReadRevList, Still, TypeOK

LEMMA CheckExistsTyped ==
  ASSUME TypeOK, ControlInv, NEW c \in Client, CheckExists(c) PROVE TypeOK'
<1>1. First(todo[c]) \in 1..clock /\ todo[c] \subseteq 1..clock
  BY TodoFirst DEF ControlInv, Control, CheckExists, Stage, TypeOK
<1>2. QueueTypeOK'
  BY QueueSame DEF CheckExists, TypeOK
<1>3. stage' \in [Client -> Stages]
  BY DEF CheckExists, Stage, TypeOK, Stages
<1>4. todo' \in [Client -> SUBSET (1..clock)] /\ gone' \in [Client -> SUBSET (1..clock)]
  <2>1. {First(todo[c])} \subseteq 1..clock /\ todo[c] \ {First(todo[c])} \subseteq 1..clock
    BY <1>1
  <2>2. CASE Exists(Current(c))
    <3>1. /\ todo' = [todo EXCEPT ![c] = {First(todo[c])}]
          /\ gone' = [gone EXCEPT ![c] = todo[c] \ {First(todo[c])}]
      BY <2>2 DEF CheckExists, TypeOK
    <3>2. todo \in [Client -> SUBSET (1..clock)] /\ gone \in [Client -> SUBSET (1..clock)]
      BY DEF TypeOK
    <3> QED BY <2>1, <3>1, <3>2
  <2>3. CASE ~Exists(Current(c))
    BY <1>1, <2>3 DEF CheckExists, TypeOK
  <2> QED BY <2>2, <2>3
<1> QED BY <1>2, <1>3, <1>4, StillTyped DEF CheckExists, Still, TypeOK

\* What is written for a revision is a document.
LEMMA DocType ==
  ASSUME TypeOK, ControlInv, NEW c \in Client, stage[c] = "index", todo[c] # {}
  PROVE  Doc(Current(c), First(todo[c]), Time(Current(c), First(todo[c])))
           \in [page : Page, rev : 1..clock, time : 0..clock]
<1>1. /\ Current(c) \in Page /\ First(todo[c]) \in 1..clock
      /\ Time(Current(c), First(todo[c])) \in 0..clock
  BY CurrentPage, TodoFirst, TimeType
<1> QED BY <1>1 DEF Doc

LEMMA IndexRevTyped ==
  ASSUME TypeOK, ControlInv, NEW c \in Client, IndexRev(c) PROVE TypeOK'
<1>1. QueueTypeOK'
  BY QueueSame DEF IndexRev, TypeOK
<1>2. todo' \in [Client -> SUBSET (1..clock)]
  BY DEF IndexRev, TypeOK
<1>3. pending' \subseteq [page : Page, rev : 1..clock, time : 0..clock]
  BY DocType DEF IndexRev, TypeOK
<1>4. index' \in {index, pending'}
  BY DEF IndexRev
<1> QED BY <1>1, <1>2, <1>3, <1>4, StillTyped DEF IndexRev, Still, TypeOK

LEMMA RemoveRevsTyped ==
  ASSUME TypeOK, NEW c \in Client, RemoveRevs(c) PROVE TypeOK'
<1>1. QueueTypeOK'
  BY QueueSame DEF RemoveRevs, TypeOK
<1>2. stage' \in [Client -> Stages]
  BY DEF RemoveRevs, Stage, TypeOK, Stages
<1>3. gone' \in [Client -> SUBSET (1..clock)] /\ pending' \subseteq pending
  BY DEF RemoveRevs, TypeOK
<1> QED BY <1>1, <1>2, <1>3, StillTyped DEF RemoveRevs, Still, TypeOK

LEMMA IndexFailsTyped ==
  ASSUME TypeOK, ControlInv, NEW c \in Client, IndexFails(c) PROVE TypeOK'
<1>1. Current(c) \in Page
  BY CurrentPage DEF IndexFails
<1>2. QueueTypeOK'
  BY FaultyTyped DEF IndexFails
<1>3. stage' \in [Client -> Stages] /\ unattended' \in BOOLEAN
  BY DEF IndexFails, TypeOK, Stages
<1>4. todo' \in [Client -> SUBSET (1..clock)] /\ gone' \in [Client -> SUBSET (1..clock)]
  BY DEF IndexFails, TypeOK
<1>5. forgotten' \subseteq Page /\ partial' \subseteq Page
  BY <1>1 DEF IndexFails, TypeOK
<1> QED BY <1>2, <1>3, <1>4, <1>5, StillTyped DEF IndexFails, Still, TypeOK

LEMMA CloseTyped ==
  ASSUME TypeOK, NEW c \in Client, Close(c) PROVE TypeOK'
<1>1. QueueTypeOK'
  BY FaultyTyped, QueueSame DEF Close, TypeOK
<1>2. stage' \in [Client -> Stages]
  BY DEF Close, Stage, TypeOK, Stages
<1>3. /\ index' \in {index, pending} /\ pending' = {} /\ database' = NoClient
      /\ forgotten' \subseteq Page /\ partial' \subseteq Page
  BY UnwrittenPages DEF Close, Disconnect, TypeOK
<1> QED BY <1>1, <1>2, <1>3, StillTyped DEF Close, Still, TypeOK

LEMMA CrashTyped ==
  ASSUME TypeOK, NEW c \in Client, Crash(c) PROVE TypeOK'
<1>1. QueueTypeOK'
  BY DieTyped DEF Crash
<1>2. stage' \in [Client -> Stages] /\ agenda' \in [Client -> Seq(Seq(Page))]
  <2>1. <<>> \in Seq(Seq(Page))
    OBVIOUS
  <2> QED BY <2>1 DEF Crash, TypeOK, Stages
<1>3. bounds' \in Budget
  BY BudgetSpent DEF Crash, TypeOK
<1>4. ToSet(got[c]) \subseteq Page
  BY SetOfType, IndexAssumption DEF TypeOK, QueueTypeOK
<1>5. forgotten' \subseteq Page /\ partial' \subseteq Page
  <2>1. /\ forgotten \subseteq Page /\ partial \subseteq Page /\ Unwritten \subseteq Page
        /\ Unput(c) \subseteq Page
    BY AgendaPages, UnwrittenPages DEF TypeOK
  <2> QED BY <1>4, <2>1 DEF Crash
<1>6. todo' \in [Client -> SUBSET (1..clock)] /\ gone' \in [Client -> SUBSET (1..clock)]
  BY DEF Crash, TypeOK
<1>7. /\ database' \in Client \cup {NoClient} /\ pending' \subseteq pending /\ index' = index
      /\ unattended' \in BOOLEAN /\ amount' = amount /\ Still
  BY DEF Crash, Disconnect, TypeOK, Still
<1> QED BY <1>1, <1>2, <1>3, <1>5, <1>6, <1>7, StillTyped DEF TypeOK

LEMMA ExpireTyped ==
  ASSUME TypeOK, Expire,
         UNCHANGED <<pageVars, docVars, stage, agenda, amount, bounds, forgotten, partial, unattended>>
  PROVE  TypeOK'
<1>1. QueueTypeOK'
  BY TypeInductive DEF Next, TypeOK
<1> QED BY <1>1, QueueStepTyped DEF TypeOK, Still
------------------------------------------------------------------------------
(* What a request has when. *)

\* What a client does leaves the others' own variables as they are.
Alone(c) ==
  \A d \in Client \ {c} :
    /\ stage'[d] = stage[d] /\ agenda'[d] = agenda[d] /\ got'[d] = got[d]
    /\ pc'[d] = pc[d] /\ op'[d] = op[d] /\ list'[d] = list[d] /\ result'[d] = result[d]
    /\ todo'[d] = todo[d] /\ gone'[d] = gone[d]
    /\ database' = d <=> database = d

LEMMA ControlStep ==
  ASSUME ControlInv, NEW c \in Client, Alone(c), history' = history, Control(c)'
  PROVE  ControlInv'
<1> SUFFICES ASSUME NEW d \in Client, d # c PROVE Control(d)'
  BY DEF ControlInv
<1>1. Control(d)
  BY DEF ControlInv
<1> QED BY <1>1 DEF Alone, Control

LEMMA ChangeControl ==
  ASSUME TypeOK, ControlInv, NEW c \in Client, NEW new, NEW jobs, Change(c, new, jobs)
  PROVE  ControlInv'
<1>1. Alone(c) /\ history' = history
  BY DEF Alone, Change, TypeOK, queueVars, docVars
<1>2. Control(c)'
  <2>1. stage[c] = "idle" /\ Control(c)
    BY DEF Change, ControlInv
  <2>2. /\ stage'[c] = (IF jobs = <<>> THEN "idle" ELSE "put") /\ agenda'[c] = jobs
        /\ UNCHANGED <<queueVars, docVars, history>>
    BY DEF Change, TypeOK
  <2>3. pc[c] = "idle" /\ database # c /\ gone[c] = {}
    BY <2>1 DEF Control, InIndexer
  <2> QED BY <2>1, <2>2, <2>3 DEF Control, InIndexer, queueVars, docVars
<1> QED BY <1>1, <1>2, ControlStep

LEMMA ScriptControl ==
  ASSUME TypeOK, ControlInv, NEW c \in Client,
         QueuePages(c) \/ \E n \in {-1, 1} : IndexPagesQueued(c, n)
  PROVE  ControlInv'
<1>1. PICK to \in {"put", "connect"} :
        /\ Script(c, to)
        /\ IF to = "put" THEN \E pages : agenda' = [agenda EXCEPT ![c] = <<pages>>]
           ELSE agenda' = agenda
  BY DEF QueuePages, IndexPagesQueued
<1>2. Alone(c) /\ history' = history
  BY <1>1 DEF Alone, Script, Stage, TypeOK, queueVars, docVars, pageVars
<1>3. Control(c)'
  <2>1. stage[c] = "idle" /\ Control(c)
    BY <1>1 DEF Script, Stage, ControlInv
  <2>2. pc[c] = "idle" /\ database # c /\ gone[c] = {} /\ agenda[c] = <<>>
    BY <2>1 DEF Control, InIndexer
  <2>3. /\ stage'[c] = to /\ (to = "put" => agenda'[c] # <<>>) /\ (to # "put" => agenda'[c] = <<>>)
        /\ UNCHANGED <<queueVars, docVars, history>>
    <3>1. stage'[c] = to /\ UNCHANGED <<queueVars, docVars, history>>
      BY <1>1 DEF Script, Stage, TypeOK, pageVars
    <3>2. CASE to = "put"
      <4>1. PICK pages : agenda' = [agenda EXCEPT ![c] = <<pages>>]
        BY <1>1, <3>2
      <4>2. agenda'[c] = <<pages>> /\ <<pages>> # <<>>
        BY <4>1 DEF TypeOK
      <4> QED BY <3>1, <3>2, <4>2
    <3>3. CASE to # "put"
      BY <1>1, <2>2, <3>1, <3>3
    <3> QED BY <3>1, <3>2, <3>3
  <2> QED BY <2>1, <2>2, <2>3 DEF Control, InIndexer, queueVars, docVars
<1> QED BY <1>2, <1>3, ControlStep

\* What an operation of the queue does with the client's variables.
LEMMA EnterParts ==
  ASSUME QueueTypeOK, NEW c \in Client, NEW o, Enter(c, o) \/ EnterBlind(c, o)
  PROVE  /\ pc[c] = "idle" /\ op'[c] = o /\ got' = got /\ file' = file
         /\ \/ o.kind = "get" /\ list'[c] = <<>> /\ pc'[c] = "leave" /\ result'[c] = "empty"
            \/ ~(o.kind = "get" /\ list'[c] = <<>>) /\ pc'[c] = "write" /\ result' = result
         /\ \A d \in Client \ {c} : /\ pc'[d] = pc[d] /\ op'[d] = op[d]
                                    /\ list'[d] = list[d] /\ result'[d] = result[d]
<1>1. PICK q : EnterAs(c, o, q)
  BY DEF Enter, EnterBlind
<1> QED BY <1>1 DEF EnterAs, Goto, QueueTypeOK

LEMMA LeaveParts ==
  ASSUME QueueTypeOK, NEW c \in Client, Leave(c) \/ Die(c)
  PROVE  /\ pc'[c] = "idle" /\ got' = got /\ file' = file /\ result'[c] = "ok"
         /\ Leave(c) => pc[c] = "leave"
         /\ \A d \in Client \ {c} : /\ pc'[d] = pc[d] /\ op'[d] = op[d]
                                    /\ list'[d] = list[d] /\ result'[d] = result[d]
BY DEF Leave, Die, Forget, Goto, QueueTypeOK

LEMMA WriteParts ==
  ASSUME QueueTypeOK, NEW c \in Client, Replace(c) \/ ReplaceFails(c)
  PROVE  /\ pc[c] = "write" /\ pc'[c] = "leave" /\ op' = op /\ list' = list
         /\ Replace(c) => /\ file' = Changed(op[c], list[c]) /\ result'[c] = "ok"
                          /\ got'[c] = IF op[c].kind = "put" THEN got[c]
                                       ELSE Entries(op[c], list[c])
         /\ ReplaceFails(c) => got' = got /\ result'[c] = "error" /\ file' \in {file, Torn}
         /\ \A d \in Client \ {c} : /\ pc'[d] = pc[d] /\ result'[d] = result[d]
                                    /\ got'[d] = got[d]
<1>1. CASE Replace(c)
  BY <1>1 DEF Replace, ReplaceFails, Goto, QueueTypeOK
<1>2. CASE ReplaceFails(c)
  BY <1>2 DEF Replace, ReplaceFails, Goto, QueueTypeOK
<1> QED BY <1>1, <1>2
\* There is more to put after the first unless it was the only one.
LEMMA TailEmpty ==
  ASSUME NEW S, NEW q \in Seq(S), q # <<>>
  PROVE  Tail(q) # <<>> <=> Len(q) > 1
<1>1. Tail(q) \in Seq(S) /\ Len(Tail(q)) = Len(q) - 1
  BY HeadTailProperties
<1>2. Len(q) \in Nat /\ Len(Tail(q)) \in Nat
  BY <1>1, LenProperties
<1>3. Tail(q) # <<>> => Len(Tail(q)) \in Nat \ {0}
  BY <1>1, EmptySeq
<1>4. Tail(q) = <<>> => Len(Tail(q)) = 0
  <2>1. Len(<<>>) = 0
    BY EmptySeq
  <2> QED BY <2>1
<1> DEFINE t == Tail(q)
<1> HIDE DEF t
<1> QED BY <1>1, <1>2, <1>3, <1>4 DEF t

LEMMA PutControl ==
  ASSUME TypeOK, ControlInv, NEW c \in Client, Put(c) PROVE ControlInv'
<1>1. /\ Control(c) /\ stage[c] = "put" /\ QueueTypeOK
      /\ agenda[c] \in Seq(Seq(Page)) /\ agenda[c] # <<>>
  BY AgendaFirst DEF Put, ControlInv, TypeOK
<1>2. UNCHANGED <<history, todo, gone, database>>
  BY DEF Put, pageVars, docVars
<1>3. CASE /\ Enter(c, PutOf(agenda[c][1])) \/ EnterBlind(c, PutOf(agenda[c][1]))
           /\ UNCHANGED <<stage, agenda, forgotten, unattended>>
  <2>1. PutOf(agenda[c][1]).kind = "put"
    BY DEF PutOf
  <2>2. /\ pc'[c] = "write" /\ op'[c] = PutOf(agenda[c][1]) /\ got' = got
        /\ \A d \in Client \ {c} : /\ pc'[d] = pc[d] /\ op'[d] = op[d]
                                   /\ list'[d] = list[d] /\ result'[d] = result[d]
    BY <1>1, <1>3, <2>1, EnterParts
  <2>3. Alone(c)
    BY <1>2, <1>3, <2>2 DEF Alone
  <2>4. Control(c)'
    BY <1>1, <1>2, <1>3, <2>1, <2>2 DEF Control
  <2> QED BY <1>2, <2>3, <2>4, ControlStep
<1>4. CASE TimesOut(c) /\ FailPut(c)
  <2>1. pc[c] = "idle" /\ UNCHANGED <<pc, op, list, got, result>>
    BY <1>4 DEF TimesOut
  <2>2. stage' = [stage EXCEPT ![c] = "idle"] /\ agenda' = [agenda EXCEPT ![c] = <<>>]
    BY <1>4 DEF FailPut
  <2>3. Alone(c)
    BY <1>2, <2>1, <2>2 DEF Alone, TypeOK
  <2>4. Control(c)'
    BY <1>1, <1>2, <2>1, <2>2 DEF Control, TypeOK, InIndexer
  <2> QED BY <1>2, <2>3, <2>4, ControlStep
<1>5. CASE Leave(c) /\ FailPut(c)
  <2>1. /\ pc'[c] = "idle" /\ got' = got
        /\ \A d \in Client \ {c} : /\ pc'[d] = pc[d] /\ op'[d] = op[d]
                                   /\ list'[d] = list[d] /\ result'[d] = result[d]
    BY <1>1, <1>5, LeaveParts
  <2>2. stage' = [stage EXCEPT ![c] = "idle"] /\ agenda' = [agenda EXCEPT ![c] = <<>>]
    BY <1>5 DEF FailPut
  <2>3. Alone(c)
    BY <1>2, <2>1, <2>2 DEF Alone, TypeOK
  <2>4. Control(c)'
    BY <1>1, <1>2, <2>1, <2>2 DEF Control, TypeOK, InIndexer
  <2> QED BY <1>2, <2>3, <2>4, ControlStep
<1>6. CASE /\ Leave(c) /\ agenda' = [agenda EXCEPT ![c] = Tail(@)]
           /\ stage' = [stage EXCEPT ![c] =
                          IF Len(agenda[c]) > 1 THEN "put"
                          ELSE IF amount[c] = 0 THEN "idle" ELSE "connect"]
  <2>1. /\ pc'[c] = "idle" /\ got' = got
        /\ \A d \in Client \ {c} : /\ pc'[d] = pc[d] /\ op'[d] = op[d]
                                   /\ list'[d] = list[d] /\ result'[d] = result[d]
    BY <1>1, <1>6, LeaveParts
  <2>2. agenda'[c] = Tail(agenda[c]) /\ (Len(agenda[c]) > 1 <=> Tail(agenda[c]) # <<>>)
    <3>1. Tail(agenda[c]) # <<>> <=> Len(agenda[c]) > 1
      BY <1>1, TailEmpty
    <3> QED BY <1>6, <3>1 DEF TypeOK
  <2>3. stage'[c] \in {"put", "idle", "connect"} /\ (stage'[c] = "put" <=> Len(agenda[c]) > 1)
    BY <1>6 DEF TypeOK
  <2>4. Alone(c)
    BY <1>2, <1>6, <2>1 DEF Alone, TypeOK
  <2>5. Control(c)'
    BY <1>1, <1>2, <2>1, <2>2, <2>3 DEF Control, InIndexer
  <2> QED BY <1>2, <2>4, <2>5, ControlStep
<1> QED BY <1>3, <1>4, <1>5, <1>6 DEF Put

LEMMA TakeControl ==
  ASSUME TypeOK, ControlInv, NEW c \in Client, Take(c) PROVE ControlInv'
<1>1. Control(c) /\ stage[c] = "take" /\ QueueTypeOK
  BY DEF Take, ControlInv, TypeOK
<1>2. UNCHANGED <<history, todo, gone, database, agenda>>
  BY DEF Take, pageVars, docVars
<1>3. CASE (Enter(c, Get) \/ EnterBlind(c, Get)) /\ stage' = stage
  <2>1. Get.kind = "get"
    BY DEF Get
  <2>2. /\ op'[c] = Get /\ got' = got
        /\ \/ list'[c] = <<>> /\ pc'[c] = "leave" /\ result'[c] = "empty"
           \/ list'[c] # <<>> /\ pc'[c] = "write"
        /\ \A d \in Client \ {c} : /\ pc'[d] = pc[d] /\ op'[d] = op[d]
                                   /\ list'[d] = list[d] /\ result'[d] = result[d]
    BY <1>1, <1>3, <2>1, EnterParts
  <2>3. Alone(c)
    BY <1>2, <1>3, <2>2 DEF Alone
  <2>4. Control(c)'
    BY <1>1, <1>2, <1>3, <2>1, <2>2 DEF Control
  <2> QED BY <1>2, <2>3, <2>4, ControlStep
<1>4. CASE /\ UNCHANGED <<pc, op, list, got, result>> /\ pc[c] = "idle"
           /\ stage' = [stage EXCEPT ![c] = "close"]
  <2>1. Alone(c)
    BY <1>2, <1>4 DEF Alone, TypeOK
  <2>2. Control(c)'
    BY <1>1, <1>2, <1>4 DEF Control, TypeOK, InIndexer
  <2> QED BY <1>2, <2>1, <2>2, ControlStep
<1>5. CASE /\ Leave(c)
           /\ stage' = [stage EXCEPT ![c] = IF result[c] = "ok" THEN "revlist" ELSE "close"]
  <2>1. /\ pc'[c] = "idle" /\ got' = got /\ pc[c] = "leave"
        /\ \A d \in Client \ {c} : /\ pc'[d] = pc[d] /\ op'[d] = op[d]
                                   /\ list'[d] = list[d] /\ result'[d] = result[d]
    BY <1>1, <1>5, LeaveParts
  <2>2. op[c].kind = "get" /\ (result[c] = "ok" => got[c] # <<>>)
    BY <1>1, <2>1 DEF Control, Get
  <2>3. Alone(c)
    BY <1>2, <1>5, <2>1 DEF Alone, TypeOK
  <2>4. stage'[c] \in {"revlist", "close"} /\ (stage'[c] = "revlist" => result[c] = "ok")
    BY <1>5 DEF TypeOK
  <2>5. Control(c)'
    BY <1>1, <1>2, <2>1, <2>2, <2>4 DEF Control, InIndexer
  <2> QED BY <1>2, <2>3, <2>5, ControlStep
<1> QED BY <1>3, <1>4, <1>5 DEF Take, TimesOut, queueVars

LEMMA WriteControl ==
  ASSUME TypeOK, ControlInv, NEW c \in Client, Write(c) PROVE ControlInv'
<1>1. Control(c) /\ QueueTypeOK /\ (Replace(c) \/ ReplaceFails(c))
  BY DEF Write, ControlInv, TypeOK
<1>2. UNCHANGED <<history, todo, gone, database, agenda, stage>>
  BY DEF Write, pageVars, docVars
<1>3. /\ pc[c] = "write" /\ pc'[c] = "leave" /\ op' = op /\ list' = list
      /\ Replace(c) => /\ result'[c] = "ok"
                       /\ got'[c] = IF op[c].kind = "put" THEN got[c]
                                    ELSE Entries(op[c], list[c])
      /\ ReplaceFails(c) => got' = got /\ result'[c] = "error"
      /\ \A d \in Client \ {c} : /\ pc'[d] = pc[d] /\ result'[d] = result[d]
                                 /\ got'[d] = got[d]
  BY <1>1, WriteParts
<1>4. Alone(c)
  BY <1>2, <1>3 DEF Alone
<1>5. op[c].kind = "get" => Entries(op[c], list[c]) # <<>>
  <2>1. SUFFICES ASSUME op[c].kind = "get" PROVE Entries(op[c], list[c]) # <<>>
    OBVIOUS
  <2>2. op[c].count = 1 /\ list[c] # <<>> /\ list[c] \in Seq(Job)
    BY <1>1, <1>3, <2>1 DEF Control, QueueTypeOK, Ops
  <2>3. Len(list[c]) \in Nat \ {0}
    BY <2>2
  <2>4. Entries(op[c], list[c]) = SubSeq(list[c], 1, 1)
    BY <2>2, <2>3 DEF Entries, Upto
  <2>5. \A i \in 1..1 : list[c][i] \in Job
    BY <2>2, <2>3
  <2>6. Len(SubSeq(list[c], 1, 1)) = 1
    BY <2>5, SubSeqProperties
  <2>7. Len(<<>>) # 1
    BY EmptySeq
  <2> QED BY <2>4, <2>6, <2>7, Zenon
<1>6. Control(c)'
  BY <1>1, <1>2, <1>3, <1>5 DEF Control
<1> QED BY <1>2, <1>4, <1>6, ControlStep
\* The steps of the indexer, which leave the queue and what is to be put alone.
LEMMA IndexerControl ==
  ASSUME TypeOK, ControlInv, NEW c \in Client, NEW to \in Stages \ {"put"},
         Stage(c, stage[c], to), stage[c] # "put", pc[c] = "idle",
         UNCHANGED <<locking, holder, file, pc, op, blind, list, got, result, agenda, history>>,
         database' = IF to \in InIndexer THEN c ELSE IF database = c THEN NoClient ELSE database,
         to \in InIndexer => database \in {c, NoClient},
         \A d \in Client \ {c} : todo'[d] = todo[d] /\ gone'[d] = gone[d],
         to \in {"revlist", "exists", "index"} => got[c] # <<>>,
         to = "exists" => ~history /\ todo'[c] # {},
         to # "index" \/ history => gone'[c] = {}
  PROVE  ControlInv'
<1>1. stage' = [stage EXCEPT ![c] = to] /\ Control(c)
  BY DEF Stage, ControlInv
<1>2. \A d \in Client \ {c} : database' = d <=> database = d
  BY QueueAssumption
<1>3. Alone(c)
  BY <1>1, <1>2 DEF Alone, TypeOK
<1>4. stage'[c] = to /\ (to \in InIndexer <=> database' = c)
  BY <1>1, QueueAssumption DEF TypeOK
<1>5. Control(c)'
  BY <1>1, <1>4 DEF Control, Stages
<1> QED BY <1>3, <1>5, ControlStep

\* Who is in the indexer, and between two operations of the queue.
LEMMA InIndexerParts ==
  ASSUME ControlInv, NEW c \in Client,
         stage[c] \in {"idle", "connect", "revlist", "exists", "index", "close"}
  PROVE  /\ pc[c] = "idle" /\ stage[c] # "put"
         /\ stage[c] \in {"revlist", "exists", "index", "close"} <=> database = c
         /\ stage[c] \in {"revlist", "exists", "index"} => got[c] # <<>>
         /\ stage[c] # "index" \/ history => gone[c] = {}
         /\ stage[c] = "exists" => ~history /\ todo[c] # {}
<1>1. Control(c)
  BY DEF ControlInv
<1> QED BY <1>1 DEF Control, InIndexer

LEMMA ConnectControl ==
  ASSUME TypeOK, ControlInv, NEW c \in Client, Connect(c) PROVE ControlInv'
<1>1. PICK to \in {"take", "idle"} :
        /\ Stage(c, "connect", to)
        /\ to = "take" => database = NoClient /\ database' = c
        /\ to = "idle" => database' = database
  BY DEF Connect
<1>2. stage[c] = "connect"
  BY <1>1 DEF Stage
<1> QED BY <1>1, <1>2, InIndexerParts, IndexerControl DEF Connect, Stage, Stages, InIndexer, queueVars, pageVars

LEMMA RemovePageControl ==
  ASSUME TypeOK, ControlInv, NEW c \in Client, RemovePage(c) PROVE ControlInv'
<1>1. stage[c] = "revlist" /\ Stage(c, stage[c], "take")
  BY DEF RemovePage, Stage
<1> QED BY <1>1, InIndexerParts, IndexerControl DEF RemovePage, Stages, InIndexer, queueVars, pageVars

LEMMA ReadRevListControl ==
  ASSUME TypeOK, ControlInv, NEW c \in Client, ReadRevList(c) PROVE ControlInv'
<1>1. PICK to \in {"exists", "index"} :
        stage[c] = "revlist" /\ Stage(c, stage[c], to) /\ (to = "exists" <=> ~history)
  BY DEF ReadRevList, Stage, TypeOK
<1>2. todo'[c] # {} /\ \A d \in Client \ {c} : todo'[d] = todo[d]
  BY DEF ReadRevList, TypeOK
<1> QED BY <1>1, <1>2, InIndexerParts, IndexerControl DEF ReadRevList, Stages, InIndexer, queueVars, pageVars

LEMMA CheckExistsControl ==
  ASSUME TypeOK, ControlInv, NEW c \in Client, CheckExists(c) PROVE ControlInv'
<1>1. stage[c] = "exists" /\ Stage(c, stage[c], "index") /\ ~history
  BY InIndexerParts DEF CheckExists, Stage
<1>2. \A d \in Client \ {c} : todo'[d] = todo[d] /\ gone'[d] = gone[d]
  BY DEF CheckExists, TypeOK
<1> QED BY <1>1, <1>2, InIndexerParts, IndexerControl DEF CheckExists, Stages, InIndexer, queueVars, pageVars

LEMMA IndexRevControl ==
  ASSUME TypeOK, ControlInv, NEW c \in Client, IndexRev(c) PROVE ControlInv'
<1>1. stage[c] = "index" /\ Stage(c, stage[c], "index")
  BY DEF IndexRev, Stage, TypeOK
<1>2. \A d \in Client \ {c} : todo'[d] = todo[d] /\ gone'[d] = gone[d]
  BY DEF IndexRev, TypeOK
<1> QED BY <1>1, <1>2, InIndexerParts, IndexerControl DEF IndexRev, Stages, InIndexer, queueVars, pageVars

LEMMA RemoveRevsControl ==
  ASSUME TypeOK, ControlInv, NEW c \in Client, RemoveRevs(c) PROVE ControlInv'
<1>1. stage[c] = "index" /\ Stage(c, stage[c], "take")
  BY DEF RemoveRevs, Stage
<1>2. gone'[c] = {} /\ \A d \in Client \ {c} : todo'[d] = todo[d] /\ gone'[d] = gone[d]
  BY DEF RemoveRevs, TypeOK
<1> QED BY <1>1, <1>2, InIndexerParts, IndexerControl DEF RemoveRevs, Stages, InIndexer, queueVars, pageVars

LEMMA IndexFailsControl ==
  ASSUME TypeOK, ControlInv, NEW c \in Client, IndexFails(c) PROVE ControlInv'
<1>1. PICK to \in {"close", "index"} :
        /\ stage[c] \in {"revlist", "exists", "index"} /\ Stage(c, stage[c], to)
        /\ to = "close" => gone'[c] = {}
        /\ to = "index" => stage[c] = "index" /\ gone'[c] = gone[c]
  BY DEF IndexFails, Stage, TypeOK
<1>2. \A d \in Client \ {c} : todo'[d] = todo[d] /\ gone'[d] = gone[d]
  BY DEF IndexFails, TypeOK
<1> QED BY <1>1, <1>2, InIndexerParts, IndexerControl DEF IndexFails, QueueUnused, Stages, InIndexer, pageVars

LEMMA CloseControl ==
  ASSUME TypeOK, ControlInv, NEW c \in Client, Close(c) PROVE ControlInv'
<1>1. stage[c] = "close" /\ Stage(c, stage[c], "idle") /\ database' = NoClient
  BY DEF Close, Stage, Disconnect
<1> QED BY <1>1, InIndexerParts, IndexerControl DEF Close, QueueUnused, Stages, InIndexer, queueVars, pageVars

LEMMA CrashControl ==
  ASSUME TypeOK, ControlInv, NEW c \in Client, Crash(c) PROVE ControlInv'
<1>1. Die(c) /\ QueueTypeOK
  BY DEF Crash, TypeOK
<1>2. /\ pc'[c] = "idle" /\ got' = got
      /\ \A d \in Client \ {c} : /\ pc'[d] = pc[d] /\ op'[d] = op[d]
                                 /\ list'[d] = list[d] /\ result'[d] = result[d]
  BY <1>1, LeaveParts
<1>3. /\ stage' = [stage EXCEPT ![c] = "idle"] /\ agenda' = [agenda EXCEPT ![c] = <<>>]
      /\ todo' = [todo EXCEPT ![c] = {}] /\ gone' = [gone EXCEPT ![c] = {}]
      /\ database' = (IF database = c THEN NoClient ELSE database) /\ history' = history
  BY DEF Crash, Disconnect, pageVars
<1>4. Alone(c)
  BY <1>2, <1>3, QueueAssumption DEF Alone, TypeOK
<1>5. Control(c)'
  BY <1>2, <1>3, QueueAssumption DEF Control, TypeOK, InIndexer
<1> QED BY <1>3, <1>4, <1>5, ControlStep
------------------------------------------------------------------------------
\* A change of a page, or a script's beginning.
Begins(c) ==
  \/ \E p \in Page : Save(c, p) \/ Delete(c, p) \/ Revert(c, p)
  \/ \E p, q \in Page : Copy(c, p, q) \/ Rename(c, p, q)
  \/ QueuePages(c)
  \/ \E n \in {-1, 1} : IndexPagesQueued(c, n)

Expires ==
  Expire /\ UNCHANGED <<pageVars, docVars, stage, agenda, amount, bounds, forgotten, partial, unattended>>

LEMMA StepKinds ==
  ASSUME SNext
  PROVE  \/ Expires
         \/ \E c \in Client :
              \/ Begins(c) \/ Put(c) \/ Take(c) \/ Write(c) \/ Connect(c)
              \/ ReadRevList(c) \/ RemovePage(c) \/ CheckExists(c) \/ IndexRev(c)
              \/ RemoveRevs(c) \/ IndexFails(c) \/ Close(c) \/ Crash(c)
BY Zenon DEF SNext, Begins, Expires

LEMMA BeginsControl ==
  ASSUME TypeOK, ControlInv, NEW c \in Client, Begins(c) PROVE ControlInv'
<1>1. ASSUME NEW new, NEW jobs, Change(c, new, jobs) PROVE ControlInv'
  BY <1>1, ChangeControl
<1>2. CASE QueuePages(c) \/ \E n \in {-1, 1} : IndexPagesQueued(c, n)
  BY <1>2, ScriptControl
<1>3. ASSUME NEW p \in Page, Save(c, p) \/ Delete(c, p) \/ Revert(c, p) PROVE ControlInv'
  BY <1>1, <1>3 DEF Save, Delete, Revert
<1>4. ASSUME NEW p \in Page, NEW q \in Page, Copy(c, p, q) \/ Rename(c, p, q) PROVE ControlInv'
  BY <1>1, <1>4 DEF Copy, Rename
<1> QED BY <1>2, <1>3, <1>4, Zenon DEF Begins

LEMMA BeginsTyped ==
  ASSUME TypeOK, NEW c \in Client, Begins(c) PROVE TypeOK'
<1>1. CASE QueuePages(c) \/ \E n \in {-1, 1} : IndexPagesQueued(c, n)
  BY <1>1, ScriptTyped
<1>2. ASSUME NEW p \in Page, Save(c, p) \/ Delete(c, p) \/ Revert(c, p) PROVE TypeOK'
  BY <1>2, ChangesTyped
<1>3. ASSUME NEW p \in Page, NEW q \in Page, Copy(c, p, q) \/ Rename(c, p, q) PROVE TypeOK'
  BY <1>3, ChangesTyped
<1> QED BY <1>1, <1>2, <1>3, Zenon DEF Begins

TypedControl == TypeOK /\ ControlInv

LEMMA TypedControlStep == TypedControl /\ [SNext]_vars => TypedControl'
<1> SUFFICES ASSUME TypeOK, ControlInv, [SNext]_vars PROVE TypeOK' /\ ControlInv'
  BY DEF TypedControl
<1>1. CASE UNCHANGED vars
  <2>1. UNCHANGED queueVars /\ UNCHANGED <<history, revs, clock, stage, agenda, todo, gone,
          database, amount, index, pending, bounds, forgotten, partial, reused, unattended>>
    BY <1>1, Zenon DEF vars
  <2>2. TypeOK'
    BY <2>1, QueueSame DEF TypeOK, Newest
  <2>3. ControlInv'
    BY <2>1 DEF ControlInv, Control, queueVars
  <2> QED BY <2>2, <2>3
<1>2. CASE Expires
  <2>1. TypeOK'
    BY <1>2, ExpireTyped DEF Expires
  <2>2. ControlInv'
    BY <1>2 DEF Expires, Expire, ControlInv, Control, pageVars, docVars
  <2> QED BY <2>1, <2>2
<1>3. ASSUME NEW c \in Client,
              \/ Begins(c) \/ Put(c) \/ Take(c) \/ Write(c) \/ Connect(c)
              \/ ReadRevList(c) \/ RemovePage(c) \/ CheckExists(c) \/ IndexRev(c)
              \/ RemoveRevs(c) \/ IndexFails(c) \/ Close(c) \/ Crash(c)
      PROVE  TypeOK' /\ ControlInv'
  <2>1. TypeOK'
    BY <1>3, BeginsTyped, PutTyped, TakeTyped, WriteTyped, ConnectTyped, ReadRevListTyped,
       RemovePageTyped, CheckExistsTyped, IndexRevTyped, RemoveRevsTyped, IndexFailsTyped,
       CloseTyped, CrashTyped
  <2>2. ControlInv'
    BY <1>3, BeginsControl, PutControl, TakeControl, WriteControl, ConnectControl,
       ReadRevListControl, RemovePageControl, CheckExistsControl, IndexRevControl,
       RemoveRevsControl, IndexFailsControl, CloseControl, CrashControl
  <2> QED BY <2>1, <2>2
<1> QED BY <1>1, <1>2, <1>3, StepKinds

LEMMA TypedControlInit == SInit => TypedControl
<1> SUFFICES ASSUME SInit PROVE TypeOK /\ ControlInv
  BY DEF TypedControl
<1>1. QueueTypeOK
  BY InitInv DEF SInit, IInv
<1>2. <<>> \in Seq(1..clock \cup {NoText}) /\ <<>> \in Seq(Seq(Page)) /\ Len(<<>>) = 0
  OBVIOUS
<1>3. TypeOK
  <2>1. /\ revs \in [Page -> Seq(1..clock \cup {NoText})] /\ clock \in Nat
        /\ \A p \in Page : Newest(p) <= clock
    BY <1>2 DEF SInit, Newest
  <2>2. /\ bounds \in Budget /\ history \in BOOLEAN
        /\ stage \in [Client -> Stages] /\ agenda \in [Client -> Seq(Seq(Page))]
        /\ amount \in [Client -> {-1, 0, 1}]
    BY <1>2, IndexAssumption DEF SInit, Stages
  <2>3. /\ todo \in [Client -> SUBSET (1..clock)] /\ gone \in [Client -> SUBSET (1..clock)]
        /\ database \in Client \cup {NoClient} /\ index \cup pending = {}
        /\ forgotten \cup partial \cup reused \subseteq Page /\ unattended \in BOOLEAN
    BY DEF SInit
  <2> QED BY <1>1, <2>1, <2>2, <2>3 DEF TypeOK
<1>4. ControlInv
  BY QueueAssumption DEF SInit, Init, ControlInv, Control, InIndexer
<1> QED BY <1>3, <1>4

\* The types hold for any requests, pages, changes, errors and deaths: what a client
\* puts into the queue is a list of pages, what it has in hand is one, the revisions it
\* has still to index and those it is to remove are of the page's history, and every
\* document is of a page, a revision number and a time there have been.
THEOREM IndexTypeCorrect == SSpec => []TypeOK
<1>1. TypedControl => TypeOK
  BY DEF TypedControl
<1> QED BY <1>1, TypedControlInit, TypedControlStep, PTL DEF SSpec
------------------------------------------------------------------------------
(* Jobs are left to somebody. *)

\* A step that leaves the queue as it is, and the clients that attend to it attending.
LEMMA JobsKept ==
  ASSUME JobsInv, Content' = Content, unattended => unattended',
         NEW c \in Client, ~Attends(c) \/ Attends(c)',
         \A d \in Client \ {c} : stage'[d] = stage[d] /\ pc'[d] = pc[d] /\ result'[d] = result[d]
  PROVE  JobsInv'
<1>1. \A d \in Client : Attends(d) => Attends(d)'
  BY DEF Attends
<1> QED BY <1>1 DEF JobsInv

LEMMA BeginsJobs ==
  ASSUME TypedControl, JobsInv, NEW c \in Client, Begins(c) PROVE JobsInv'
<1>1. ASSUME NEW new, NEW jobs, Change(c, new, jobs) PROVE JobsInv'
  <2>1. UNCHANGED <<file, pc, result, unattended>> /\ Content' = Content
    BY <1>1 DEF Change, queueVars, Content
  <2>2. ~Attends(c)
    BY <1>1 DEF Change, Attends
  <2>3. \A d \in Client \ {c} : stage'[d] = stage[d]
    BY <1>1 DEF Change, TypedControl, TypeOK
  <2> QED BY <2>1, <2>2, <2>3, JobsKept
<1>2. ASSUME NEW to \in {"put", "connect"}, Script(c, to) PROVE JobsInv'
  <2>1. stage'[c] \in {"put", "connect"}
    BY <1>2 DEF Script, Stage, TypedControl, TypeOK
  <2> QED BY <2>1 DEF JobsInv, Attends
<1>3. ASSUME NEW p \in Page, Save(c, p) \/ Delete(c, p) \/ Revert(c, p) PROVE JobsInv'
  BY <1>1, <1>3 DEF Save, Delete, Revert
<1>4. ASSUME NEW p \in Page, NEW q \in Page, Copy(c, p, q) \/ Rename(c, p, q) PROVE JobsInv'
  BY <1>1, <1>4 DEF Copy, Rename
<1>5. CASE QueuePages(c) \/ \E n \in {-1, 1} : IndexPagesQueued(c, n)
  BY <1>2, <1>5 DEF QueuePages, IndexPagesQueued
<1> QED BY <1>3, <1>4, <1>5, Zenon DEF Begins

LEMMA PutJobs ==
  ASSUME TypedControl, JobsInv, NEW c \in Client, Put(c) PROVE JobsInv'
<1>1. CASE UNCHANGED stage
  BY <1>1 DEF Put, JobsInv, Attends
<1>2. CASE FailPut(c)
  BY <1>2 DEF FailPut, JobsInv
<1>3. CASE /\ stage' = [stage EXCEPT ![c] =
                          IF Len(agenda[c]) > 1 THEN "put"
                          ELSE IF amount[c] = 0 THEN "idle" ELSE "connect"]
           /\ unattended' = (unattended \/ amount[c] = 0)
  <2>1. stage'[c] \in {"put", "connect"} \/ unattended'
    BY <1>3 DEF TypedControl, TypeOK
  <2> QED BY <2>1 DEF JobsInv, Attends
<1> QED BY <1>1, <1>2, <1>3 DEF Put

LEMMA TakeJobs ==
  ASSUME TypedControl, JobsInv, NEW c \in Client, Take(c) PROVE JobsInv'
<1>1. QueueTypeOK /\ stage[c] = "take"
  BY DEF TypedControl, TypeOK, Take
<1>2. CASE Enter(c, Get) /\ UNCHANGED stage
  <2>1. Content' = Content
    BY <1>2 DEF Enter, EnterAs, Content
  <2>2. CASE Content = <<>>
    BY <2>1, <2>2 DEF JobsInv
  <2>3. CASE Content # <<>>
    <3>1. pc'[c] = "write"
      BY <1>1, <1>2, <2>3 DEF Enter, EnterAs, Goto, QueueTypeOK
    <3> QED BY <1>1, <1>2, <3>1 DEF JobsInv, Attends
  <2> QED BY <2>2, <2>3
<1>3. CASE unattended' = TRUE
  BY <1>3 DEF JobsInv
<1>4. CASE /\ Leave(c)
           /\ stage' = [stage EXCEPT ![c] = IF result[c] = "ok" THEN "revlist" ELSE "close"]
           /\ unattended' = (unattended \/ result[c] = "error")
  <2>1. CASE result[c] = "ok"
    <3>1. stage'[c] = "revlist"
      BY <1>4, <2>1 DEF TypedControl, TypeOK
    <3> QED BY <3>1 DEF JobsInv, Attends
  <2>2. CASE result[c] = "error"
    BY <1>4, <2>2 DEF JobsInv
  <2>3. CASE result[c] = "empty"
    <3>1. pc[c] = "leave" /\ file' = file
          /\ \A d \in Client \ {c} : pc'[d] = pc[d] /\ result'[d] = result[d]
      BY <1>1, <1>4, LeaveParts
    <3>2. ~Attends(c) /\ Content' = Content
      BY <1>1, <2>3, <3>1 DEF Attends, Content
    <3>3. \A d \in Client \ {c} : stage'[d] = stage[d]
      BY <1>4 DEF TypedControl, TypeOK
    <3> QED BY <1>4, <3>1, <3>2, <3>3, JobsKept
  <2>4. result[c] \in {"ok", "empty", "error"}
    BY <1>1 DEF QueueTypeOK
  <2> QED BY <2>1, <2>2, <2>3, <2>4
<1> QED BY <1>2, <1>3, <1>4 DEF Take

LEMMA WriteJobs ==
  ASSUME TypedControl, JobsInv, NEW c \in Client, Write(c) PROVE JobsInv'
<1>1. QueueTypeOK /\ Control(c) /\ (Replace(c) \/ ReplaceFails(c)) /\ stage' = stage
  BY DEF TypedControl, TypeOK, ControlInv, Write
<1>2. pc[c] = "write" /\ result'[c] # "empty"
  BY <1>1, WriteParts
<1>3. stage[c] \in {"put", "take"}
  BY <1>1, <1>2 DEF Control
<1> QED BY <1>1, <1>2, <1>3 DEF JobsInv, Attends

LEMMA ConnectJobs ==
  ASSUME TypedControl, JobsInv, NEW c \in Client, Connect(c) PROVE JobsInv'
<1>1. stage[c] = "connect" /\ ControlInv /\ TypeOK /\ UNCHANGED <<pc, result, file>>
  BY DEF TypedControl, Connect, Stage, queueVars
<1>2. CASE database = NoClient
  <2>1. stage'[c] = "take" /\ pc'[c] = "idle"
    BY <1>1, <1>2, InIndexerParts DEF Connect, Stage, TypeOK
  <2> QED BY <2>1 DEF JobsInv, Attends
<1>3. CASE database # NoClient /\ ~unattended'
  <2>0. PICK d \in Client : d = database
    BY <1>1, <1>3 DEF TypeOK
  <2>1. d \in Client /\ stage[d] \in InIndexer /\ d # c
    BY <1>1, <2>0 DEF ControlInv, Control, InIndexer
  <2>2. stage[d] # "close" /\ (pc[d] = "leave" => result[d] = "ok") /\ stage'[d] = stage[d]
    BY <1>1, <1>3, <2>0, <2>1 DEF Connect, Stage, TypeOK
  <2>3. Attends(d)'
    BY <1>1, <2>1, <2>2 DEF Attends, InIndexer
  <2> QED BY <2>1, <2>3 DEF JobsInv
<1>4. CASE unattended'
  BY <1>4 DEF JobsInv
<1> QED BY <1>2, <1>3, <1>4

LEMMA IndexerJobs ==
  ASSUME TypedControl, JobsInv, NEW c \in Client,
         \/ ReadRevList(c) \/ RemovePage(c) \/ CheckExists(c) \/ IndexRev(c)
         \/ RemoveRevs(c) \/ IndexFails(c)
  PROVE  JobsInv'
<1>1. CASE unattended'
  BY <1>1 DEF JobsInv
<1>2. CASE ~unattended'
  <2>1. stage[c] \in {"revlist", "exists", "index"} /\ pc' = pc /\ TypeOK /\ ControlInv
    BY DEF TypedControl, ReadRevList, RemovePage, CheckExists, IndexRev, RemoveRevs, IndexFails,
           Stage, queueVars, QueueUnused
  <2>2. pc'[c] = "idle"
    BY <2>1, InIndexerParts
  <2>3. stage'[c] \in {"take", "exists", "index"}
    BY <1>2, <2>1 DEF TypeOK, ReadRevList, RemovePage, CheckExists, IndexRev, RemoveRevs, IndexFails,
           Stage
  <2> QED BY <2>2, <2>3 DEF JobsInv, Attends
<1> QED BY <1>1, <1>2

LEMMA CloseJobs ==
  ASSUME TypedControl, JobsInv, NEW c \in Client, Close(c) PROVE JobsInv'
<1>1. stage[c] = "close" /\ UNCHANGED <<file, pc, result, unattended>>
  BY DEF Close, Stage, queueVars, QueueUnused
<1>2. \A d \in Client \ {c} : stage'[d] = stage[d]
  BY DEF Close, Stage, TypedControl, TypeOK
<1> QED BY <1>1, <1>2, JobsKept DEF Attends, Content

LEMMA JobsStep == TypedControl /\ JobsInv /\ [SNext]_vars => JobsInv'
<1> SUFFICES ASSUME TypedControl, JobsInv, [SNext]_vars PROVE JobsInv'
  OBVIOUS
<1>1. CASE UNCHANGED vars
  BY <1>1 DEF vars, queueVars, JobsInv, Attends, Content
<1>2. CASE Expires
  BY <1>2 DEF Expires, Expire, JobsInv, Attends, Content
<1>3. ASSUME NEW c \in Client, Crash(c) PROVE JobsInv'
  BY <1>3 DEF Crash, JobsInv
<1> QED BY <1>1, <1>2, <1>3, StepKinds, BeginsJobs, PutJobs, TakeJobs, WriteJobs, ConnectJobs,
           IndexerJobs, CloseJobs

\* When every request has ended and jobs are still in the queue, an update ended early, by an
\* error, a death, a limit or another client's lock, or a request found another indexer at
\* work that had already seen the queue empty: an update that ends as it should leaves none.
THEOREM IndexJobsAtRest == SSpec => []JobsAtRest
<1>1. SInit => JobsInv
  BY DEF SInit, Init, JobsInv, Content
<1>2. JobsInv => JobsAtRest
  BY DEF JobsInv, JobsAtRest, AtRest, Attends
<1> QED BY <1>1, <1>2, TypedControlInit, TypedControlStep, JobsStep, PTL DEF SSpec
------------------------------------------------------------------------------
(* Documents are not newer than the pages they are of. *)

\* What is said of a page depends only on its revisions.
LEMMA SamePage ==
  ASSUME NEW p, revs'[p] = revs[p]
  PROVE  /\ RevList(p)' = RevList(p) /\ Exists(p)' = Exists(p) /\ Newest(p)' = Newest(p)
         /\ Top(p)' = Top(p) /\ \A n : Time(p, n)' = Time(p, n)
BY DEF RevList, Exists, Newest, Top, First, Time

\* A page that exists has its newest revision at the top.
LEMMA TopNewest ==
  ASSUME TypeOK, NEW p \in Page, Exists(p)
  PROVE  /\ RevList(p) # {} /\ Top(p) = Newest(p) /\ Newest(p) \in RevList(p)
         /\ Time(p, Top(p)) = revs[p][Newest(p)]
<1>1. revs[p] \in Seq(1..clock \cup {NoText}) /\ revs[p] # <<>>
  BY DEF TypeOK, Exists
<1>2. Newest(p) \in DOMAIN revs[p] /\ \A n \in DOMAIN revs[p] : n \in Nat /\ n <= Newest(p)
  BY <1>1 DEF Newest
<1>3. Newest(p) \in RevList(p)
  BY <1>2 DEF Exists, RevList
<1>4. Top(p) = Newest(p)
  <2>1. Top(p) \in RevList(p) /\ Newest(p) <= Top(p)
    BY <1>3, TopOf
  <2>2. Top(p) \in DOMAIN revs[p] /\ Top(p) \in Nat /\ Newest(p) \in Nat
    BY <1>2, <2>1 DEF RevList
  <2> QED BY <1>2, <2>1, <2>2
<1> QED BY <1>2, <1>3, <1>4 DEF Exists, Time

LEMMA FirstIs ==
  ASSUME NEW S, NEW n \in S, S \subseteq Int, \A m \in S : m <= n
  PROVE  First(S) = n
<1>1. First(S) \in S /\ \A m \in S : m <= First(S)
  BY DEF First
<1>2. First(S) \in Int /\ n \in Int /\ n <= First(S) /\ First(S) <= n
  BY <1>1
<1> QED BY <1>2

\* After a change q has the revisions that p had, or these and n.
SameRevs(p, q) ==
  RevList(q)' = RevList(p) /\ Top(q)' = Top(p) /\ \A m : Time(q, m)' = Time(p, m)

OneMore(p, q, n, t) ==
  /\ RevList(q)' = RevList(p) \cup {n} /\ Time(q, n)' = t /\ Top(q)' = n
  /\ \A m \in RevList(p) : m # n /\ Time(q, m)' = Time(p, m)

\* Another revision of a page, with a text or without.
LEMMA RevListAppend ==
  ASSUME TypeOK, NEW p \in Page, NEW q \in Page, NEW t, NEW n \in Nat,
         n = Len(revs[p]) + 1, revs'[q] = Append(revs[p], t)
  PROVE  IF t = NoText THEN SameRevs(p, q) ELSE OneMore(p, q, n, t)
<1>1. revs[p] \in Seq(1..clock \cup {NoText}) /\ Len(revs[p]) \in Nat
  BY DEF TypeOK
<1>2. /\ DOMAIN revs'[q] = DOMAIN revs[p] \cup {n} /\ n \notin DOMAIN revs[p]
      /\ revs'[q][n] = t /\ \A m \in DOMAIN revs[p] : revs'[q][m] = revs[p][m]
  BY <1>1
<1>3. CASE t = NoText
  <2>1. RevList(q)' = RevList(p) /\ \A m : Time(q, m)' = Time(p, m)
    BY <1>2, <1>3 DEF RevList, Time
  <2> QED BY <1>3, <2>1 DEF Top, First, SameRevs
<1>4. CASE t # NoText
  <2>1. RevList(q)' = RevList(p) \cup {n}
    BY <1>2, <1>4 DEF RevList
  <2>2. Time(q, n)' = t
    BY <1>2, <1>4 DEF Time
  <2>3. \A m \in RevList(p) : m # n /\ Time(q, m)' = Time(p, m)
    BY <1>2 DEF RevList, Time
  <2>4. \A m \in RevList(p) : m \in Int /\ m <= n
    BY <1>1 DEF RevList
  <2>5. First(RevList(q)') = n
    <3>1. n \in RevList(q)' /\ RevList(q)' \subseteq Int /\ \A m \in RevList(q)' : m <= n
      BY <2>1, <2>4
    <3> QED BY <3>1, FirstIs
  <2> QED BY <1>4, <2>1, <2>2, <2>3, <2>5 DEF Top, OneMore
<1> QED BY <1>3, <1>4
\* How a change changes a page.
Grows(q) ==
  \/ revs'[q] = revs[q]
  \/ revs'[q] = <<>>
  \/ revs[q] # <<>> /\ \E t \in {NoText, clock + 1} : revs'[q] = Append(revs[q], t)
  \/ revs[q] = <<>> /\ \E p \in Page : revs'[q] = Append(revs[p], clock + 1)

LEMMA BeginsGrows ==
  ASSUME TypeOK, NEW c \in Client, Begins(c)
  PROVE  /\ stage[c] = "idle" /\ UNCHANGED <<queueVars, docVars, history>>
         /\ clock \in Nat /\ clock' \in {clock, clock + 1} /\ reused \subseteq reused'
         /\ \A q \in Page : /\ Grows(q)
                            /\ revs[q] = <<>> /\ revs'[q] # <<>> /\ Remains(q) => q \in reused'
<1>1. ASSUME NEW new, NEW jobs, Change(c, new, jobs), new \in [Page -> {new[p] : p \in Page}]
      PROVE  /\ stage[c] = "idle" /\ UNCHANGED <<queueVars, docVars, history>> /\ revs' = new
             /\ clock' = clock + 1 /\ reused \subseteq reused'
             /\ \A q \in Page : revs[q] = <<>> /\ revs'[q] # <<>> /\ Remains(q) => q \in reused'
  BY <1>1 DEF Change
<1>2. clock \in Nat /\ DOMAIN revs = Page
  BY DEF TypeOK
<1>3. ASSUME NEW p \in Page, NEW t \in {NoText, clock + 1}, NEW jobs, Change(c, WithRev(p, t), jobs),
             t = NoText => revs[p] # <<>>
      PROVE  \A q \in Page : Grows(q)
  <2>1. revs' = WithRev(p, t)
    BY <1>3 DEF Change
  <2> QED BY <1>2, <1>3, <2>1 DEF WithRev, Grows
<1>4. ASSUME NEW p \in Page, Save(c, p) \/ Delete(c, p) \/ Revert(c, p)
      PROVE  /\ \A q \in Page : Grows(q)
             /\ \E new, jobs : Change(c, new, jobs)
  <2>1. clock + 1 # NoText
    BY <1>2, IndexAssumption
  <2>2. PICK t \in {NoText, clock + 1}, jobs \in {<<>>, <<<<p>>>>} :
          Change(c, WithRev(p, t), jobs) /\ (t = NoText => revs[p] # <<>>)
    BY <1>4, <2>1, Zenon DEF Save, Delete, Revert, Exists
  <2> QED BY <1>3, <2>2
<1>5. ASSUME NEW p \in Page, NEW q \in Page, Copy(c, p, q) \/ Rename(c, p, q)
      PROVE  /\ \A r \in Page : Grows(r)
             /\ \E new, jobs : Change(c, new, jobs)
  <2>1. CASE Copy(c, p, q)
    <3>1. revs' = CopiedTo(p, q) /\ revs[q] = <<>>
      BY <2>1 DEF Copy, Change
    <3> QED BY <1>2, <2>1, <3>1 DEF CopiedTo, Grows, Copy
  <2>2. CASE Rename(c, p, q)
    <3>1. revs' = [CopiedTo(p, q) EXCEPT ![p] = <<>>] /\ revs[q] = <<>>
      BY <2>2 DEF Rename, Change
    <3> QED BY <1>2, <2>2, <3>1 DEF CopiedTo, Grows, Rename
  <2> QED BY <1>5, <2>1, <2>2
<1>6. CASE QueuePages(c) \/ \E n \in {-1, 1} : IndexPagesQueued(c, n)
  BY <1>2, <1>6 DEF QueuePages, IndexPagesQueued, Script, Stage, pageVars, Grows
<1>7. ASSUME NEW new, NEW jobs, Change(c, new, jobs)
      PROVE  /\ stage[c] = "idle" /\ UNCHANGED <<queueVars, docVars, history>>
             /\ clock' = clock + 1 /\ reused \subseteq reused'
             /\ \A q \in Page : revs[q] = <<>> /\ revs'[q] # <<>> /\ Remains(q) => q \in reused'
  BY <1>7 DEF Change
<1> QED BY <1>2, <1>4, <1>5, <1>6, <1>7, Zenon DEF Begins
LEMMA BeginsDocFits ==
  ASSUME TypedControl, NEW c \in Client, Begins(c), NEW d \in index \cup pending, DocFits(d)
  PROVE  DocFits(d)'
<1>0. PICK q \in Page : q = d.page
  BY DEF TypedControl, TypeOK
<1>1. TypeOK /\ q = d.page /\ d.time \in Nat /\ d.time <= clock /\ clock \in Nat
      /\ reused \subseteq reused'
  BY <1>0, BeginsGrows DEF TypedControl, TypeOK
<1>2. Grows(q) /\ (revs[q] = <<>> /\ revs'[q] # <<>> => q \in reused')
  BY <1>1, BeginsGrows DEF Remains
<1>3. NoText \notin Nat /\ clock + 1 \in Nat
  BY <1>1, IndexAssumption
<1>4. CASE revs'[q] = revs[q]
  BY <1>1, <1>4, SamePage DEF DocFits
<1>5. CASE revs'[q] = <<>>
  BY <1>1, <1>5 DEF DocFits, RevList
<1>6. ASSUME revs[q] # <<>>, NEW t \in {NoText, clock + 1}, revs'[q] = Append(revs[q], t)
      PROVE  DocFits(d)'
  <2>1. PICK n \in Nat : n = Len(revs[q]) + 1
    BY <1>1 DEF TypeOK
  <2>2. CASE t = NoText
    <3>1. SameRevs(q, q)
      BY <1>1, <1>6, <2>1, <2>2, RevListAppend
    <3> QED BY <1>1, <1>6, <3>1 DEF DocFits, SameRevs
  <2>3. CASE t = clock + 1
    <3>1. OneMore(q, q, n, t) /\ t = clock + 1
      BY <1>1, <1>3, <1>6, <2>1, <2>3, RevListAppend
    <3>2. CASE d.rev = n
      BY <1>1, <3>1, <3>2 DEF DocFits, OneMore
    <3>3. CASE d.rev # n
      BY <1>1, <1>6, <3>1, <3>3 DEF DocFits, OneMore
    <3> QED BY <3>2, <3>3
  <2> QED BY <2>2, <2>3
<1>7. ASSUME revs[q] = <<>>, NEW p \in Page, revs'[q] = Append(revs[p], clock + 1)
      PROVE  DocFits(d)'
  <2>1. PICK n \in Nat : n = Len(revs[p]) + 1
    BY <1>1 DEF TypeOK
  <2>2. Time(q, n)' = clock + 1 /\ Top(q)' = n
    <3>1. PICK t : t = clock + 1
      OBVIOUS
    <3>2. OneMore(p, q, n, t)
      BY <1>1, <1>3, <1>7, <2>1, <3>1, RevListAppend
    <3> QED BY <3>1, <3>2 DEF OneMore
  <2>3. revs'[q] # <<>>
    <3>1. revs[p] \in Seq(1..clock \cup {NoText})
      BY <1>1 DEF TypeOK
    <3> QED BY <1>7, <3>1
  <2>4. q \in reused'
    BY <1>2, <1>7, <2>3
  <2>5. CASE d.rev = n
    BY <1>1, <2>2, <2>4, <2>5 DEF DocFits
  <2>6. CASE d.rev # n
    BY <1>1, <2>2, <2>4, <2>6 DEF DocFits
  <2> QED BY <2>5, <2>6
<1> QED BY <1>2, <1>4, <1>5, <1>6, <1>7 DEF Grows

LEMMA BeginsTodoFits ==
  ASSUME TypedControl, NEW c \in Client, Begins(c), NEW d \in Client,
         stage[d] \in {"exists", "index"}, TodoFits(Current(d), todo[d])
  PROVE  TodoFits(Current(d), todo[d])'
<1>1. PICK q \in Page : q = Current(d)
  BY CurrentPage DEF TypedControl
<1>2. Current(d)' = q /\ todo'[d] = todo[d] /\ reused \subseteq reused' /\ TypeOK
  BY <1>1, BeginsGrows DEF TypedControl, Current, queueVars, docVars
<1>3. Grows(q) /\ (revs[q] = <<>> /\ revs'[q] # <<>> => q \in reused')
  BY <1>1, <1>2, BeginsGrows DEF Remains
<1>4. CASE revs'[q] = revs[q]
  BY <1>1, <1>2, <1>4, SamePage DEF TodoFits
<1>5. CASE revs'[q] = <<>>
  BY <1>2, <1>5 DEF TodoFits
<1>6. ASSUME revs[q] # <<>>, NEW t \in {NoText, clock + 1}, revs'[q] = Append(revs[q], t)
      PROVE  TodoFits(Current(d), todo[d])'
  <2>1. PICK n \in Nat : n = Len(revs[q]) + 1
    BY <1>2 DEF TypeOK
  <2>2. IF t = NoText THEN SameRevs(q, q) ELSE OneMore(q, q, n, t)
    BY <1>2, <1>6, <2>1, RevListAppend
  <2> QED BY <1>1, <1>2, <1>6, <2>2 DEF TodoFits, SameRevs, OneMore
<1>7. CASE revs[q] = <<>> /\ revs'[q] # <<>>
  BY <1>2, <1>3, <1>7 DEF TodoFits
<1> QED BY <1>3, <1>4, <1>5, <1>6, <1>7 DEF Grows
LEMMA BeginsDocs ==
  ASSUME TypedControl, DocInv, NEW c \in Client, Begins(c) PROVE DocInv'
<1>1. UNCHANGED <<index, pending>>
  BY BeginsGrows DEF TypedControl, docVars
<1>2. ASSUME NEW d \in index \cup pending PROVE DocFits(d)'
  BY <1>2, BeginsDocFits DEF DocInv
<1>3. ASSUME NEW d \in Client, stage'[d] \in {"exists", "index"}
      PROVE  TodoFits(Current(d), todo[d])'
  <2>1. stage[d] = stage'[d]
    <3>1. stage'[c] \in {"idle", "put", "connect"}
          /\ \A e \in Client \ {c} : stage'[e] = stage[e]
      <4>1. CASE \E new, jobs : Change(c, new, jobs)
        BY <4>1 DEF Change, TypedControl, TypeOK
      <4>2. CASE \E to \in {"put", "connect"} : Script(c, to)
        BY <4>2 DEF Script, Stage, TypedControl, TypeOK
      <4> QED BY <4>1, <4>2, Zenon DEF Begins, Save, Delete, Revert, Copy, Rename,
                   QueuePages, IndexPagesQueued
    <3> QED BY <1>3, <3>1
  <2> QED BY <1>3, <2>1, BeginsTodoFits DEF DocInv
<1> QED BY <1>1, <1>2, <1>3 DEF DocInv

\* A step that leaves the pages alone and brings no documents.
LEMMA DocsKept ==
  ASSUME DocInv, UNCHANGED pageVars, index' \cup pending' \subseteq index \cup pending,
         \A d \in Client : stage'[d] \in {"exists", "index"} =>
           \/ /\ stage[d] \in {"exists", "index"} /\ Current(d)' = Current(d)
              /\ todo'[d] \subseteq todo[d]
           \/ todo'[d] \subseteq RevList(Current(d)')
  PROVE  DocInv'
<1>1. /\ \A p : RevList(p)' = RevList(p) /\ Top(p)' = Top(p) /\ \A n : Time(p, n)' = Time(p, n)
      /\ revs' = revs /\ reused' = reused
  BY SamePage DEF pageVars
<1>2. \A d \in index \cup pending : DocFits(d)'
  BY <1>1 DEF DocInv, DocFits
<1>3. ASSUME NEW d \in Client, stage'[d] \in {"exists", "index"}
      PROVE  TodoFits(Current(d), todo[d])'
  BY <1>1, <1>3 DEF DocInv, TodoFits
<1> QED BY <1>2, <1>3 DEF DocInv

\* The queue's steps: nobody comes to or leaves these stages.
LEMMA QueueDocs ==
  ASSUME TypedControl, DocInv, NEW c \in Client, Put(c) \/ Take(c) \/ Write(c) PROVE DocInv'
<1>1. /\ UNCHANGED <<pageVars, docVars>> /\ stage[c] \notin {"exists", "index"}
      /\ QueueTypeOK /\ ControlInv
  <2>1. stage[c] \in {"put", "take"}
    <3>1. pc[c] = "write" \/ stage[c] \in {"put", "take"}
      BY WriteParts DEF Put, Take, Write, TypedControl, TypeOK
    <3> QED BY <3>1 DEF TypedControl, ControlInv, Control
  <2> QED BY <2>1 DEF Put, Take, Write, TypedControl, TypeOK
<1>2. ASSUME NEW d \in Client, stage'[d] \in {"exists", "index"}
      PROVE  stage[d] = stage'[d] /\ got'[d] = got[d]
  <2>1. d # c /\ stage[d] = stage'[d]
    BY <1>1, <1>2 DEF Put, Take, Write, FailPut, TypedControl, TypeOK
  <2>2. got'[d] = got[d]
    BY <1>1, <2>1, EnterParts, LeaveParts, WriteParts
      DEF Put, Take, Write, TimesOut, queueVars
  <2> QED BY <2>1, <2>2
<1> QED BY <1>1, <1>2, DocsKept DEF docVars, Current

LEMMA IndexerDocs ==
  ASSUME TypedControl, DocInv, NEW c \in Client,
         \/ Connect(c) \/ ReadRevList(c) \/ RemovePage(c) \/ CheckExists(c)
         \/ RemoveRevs(c) \/ IndexFails(c) \/ Close(c) \/ Crash(c)
  PROVE  DocInv'
<1>1. UNCHANGED pageVars /\ got' = got /\ TypeOK /\ ControlInv
  BY DEF Connect, ReadRevList, RemovePage, CheckExists, RemoveRevs, IndexFails, Close, Crash,
         TypedControl, queueVars, QueueUnused, Die
<1>2. index' \cup pending' \subseteq index \cup pending
  <2>1. index' \in {index, pending} /\ (pending' \subseteq pending \/ pending' = index)
    BY DEF Connect, ReadRevList, RemovePage, CheckExists, RemoveRevs, IndexFails, Close, Crash,
           Disconnect
  <2> QED BY <2>1
<1>3. ASSUME NEW d \in Client \ {c}, stage'[d] \in {"exists", "index"}
      PROVE  stage[d] = stage'[d] /\ todo'[d] = todo[d]
  BY <1>1, <1>3 DEF Connect, ReadRevList, RemovePage, CheckExists, RemoveRevs, IndexFails, Close,
                    Crash, Stage, TypeOK
<1>4. ASSUME stage'[c] \in {"exists", "index"}
      PROVE  \/ stage[c] \in {"exists", "index"} /\ todo'[c] \subseteq todo[c]
             \/ todo'[c] \subseteq RevList(Current(c)')
  <2>1. Current(c)' = Current(c)
    BY <1>1 DEF Current
  <2>2. CASE ReadRevList(c)
    BY <1>1, <2>1, <2>2 DEF ReadRevList, TypeOK
  <2>3. CASE CheckExists(c)
    <3>1. First(todo[c]) \in todo[c]
      BY <1>1, <2>3, TodoFirst DEF CheckExists, Stage, ControlInv, Control
    <3> QED BY <1>1, <2>3, <3>1 DEF CheckExists, Stage, TypeOK
  <2>4. CASE IndexFails(c)
    <3>1. stage'[c] = "index" /\ stage[c] = "index" /\ todo' = [todo EXCEPT ![c] = @ \ {First(@)}]
      BY <1>1, <1>4, <2>4 DEF IndexFails, TypeOK
    <3> QED BY <1>1, <3>1 DEF TypeOK
  <2>5. CASE Connect(c) \/ RemovePage(c) \/ RemoveRevs(c) \/ Close(c) \/ Crash(c)
    BY <1>1, <1>4, <2>5 DEF Connect, RemovePage, RemoveRevs, Close, Crash, Stage, TypeOK
  <2> QED BY <2>2, <2>3, <2>4, <2>5
<1> QED BY <1>1, <1>2, <1>3, <1>4, DocsKept DEF Current
LEMMA IndexRevDocs ==
  ASSUME TypedControl, DocInv, NEW c \in Client, IndexRev(c) PROVE DocInv'
<1>1. /\ TypeOK /\ ControlInv /\ stage[c] = "index" /\ todo[c] # {} /\ stage' = stage
      /\ UNCHANGED pageVars /\ got' = got
  BY DEF TypedControl, IndexRev, queueVars
<1>2. /\ \A p : RevList(p)' = RevList(p) /\ Top(p)' = Top(p) /\ \A n : Time(p, n)' = Time(p, n)
      /\ revs' = revs /\ reused' = reused
  BY <1>1, SamePage DEF pageVars
<1>3. PICK p \in Page, n \in todo[c] : p = Current(c) /\ n = First(todo[c])
  BY <1>1, CurrentPage, TodoFirst
<1>4. Time(p, n) \in 0..clock /\ clock \in Nat
  BY <1>1, TimeType DEF TypeOK
<1>5. /\ index' \in {index, pending'}
      /\ pending' \subseteq pending \cup {Doc(p, n, Time(p, n))}
      /\ todo'[c] \subseteq todo[c] /\ \A d \in Client \ {c} : todo'[d] = todo[d]
  BY <1>1, <1>3 DEF IndexRev, TypeOK
<1>6. DocFits(Doc(p, n, Time(p, n)))
  BY <1>1, <1>3, <1>4 DEF DocInv, TodoFits, DocFits, Doc
<1>7. ASSUME NEW d \in index' \cup pending' PROVE DocFits(d)'
  <2>1. DocFits(d)
    BY <1>5, <1>6, <1>7 DEF DocInv
  <2> QED BY <1>2, <2>1 DEF DocFits
<1>8. ASSUME NEW d \in Client, stage'[d] \in {"exists", "index"}
      PROVE  TodoFits(Current(d), todo[d])'
  <2>1. TodoFits(Current(d), todo[d]) /\ todo'[d] \subseteq todo[d] /\ Current(d)' = Current(d)
    BY <1>1, <1>5, <1>8 DEF DocInv, Current
  <2> QED BY <1>2, <2>1 DEF TodoFits
<1> QED BY <1>7, <1>8 DEF DocInv

LEMMA DocStep == TypedControl /\ DocInv /\ [SNext]_vars => DocInv'
<1> SUFFICES ASSUME TypedControl, DocInv, [SNext]_vars PROVE DocInv'
  OBVIOUS
<1>1. CASE UNCHANGED vars \/ Expires
  <2>1. UNCHANGED <<pageVars, index, pending, stage, todo, got>>
    BY <1>1 DEF vars, queueVars, pageVars, docVars, Expires, Expire
  <2> QED BY <2>1, DocsKept DEF Current
<1> QED BY <1>1, StepKinds, BeginsDocs, QueueDocs, IndexerDocs, IndexRevDocs
------------------------------------------------------------------------------
(* No page is forgotten by the index. *)

PageDocs(p, docs) == {d \in docs : d.page = p}

LEMMA DocOfPage ==
  ASSUME NEW p, NEW n, NEW t, NEW A, NEW B, PageDocs(p, A) = PageDocs(p, B)
  PROVE  Doc(p, n, t) \in A <=> Doc(p, n, t) \in B
<1>1. \A D : Doc(p, n, t) \in D <=> Doc(p, n, t) \in PageDocs(p, D)
  BY DEF Doc, PageDocs
<1> QED BY <1>1

\* What is in the index of a page stays right as long as page and documents stay.
LEMMA SameTop ==
  ASSUME NEW p, revs'[p] = revs[p], history' = history, reused \subseteq reused',
         NEW A, NEW B, PageDocs(p, A) = PageDocs(p, B), TopIndexed(p, A)
  PROVE  TopIndexed(p, B)'
<1>1. /\ RevList(p)' = RevList(p) /\ Exists(p)' = Exists(p) /\ Newest(p)' = Newest(p)
      /\ Top(p)' = Top(p) /\ \A n : Time(p, n)' = Time(p, n)
  BY SamePage
<1>2. \A n, t : Doc(p, n, t) \in A <=> Doc(p, n, t) \in B
  BY DocOfPage
<1>3. {d \in A : d.page = p} = {d \in B : d.page = p}
  BY DEF PageDocs
<1>4. CASE history
  BY <1>1, <1>2, <1>4 DEF TopIndexed, Indexed
<1>5. CASE ~history
  BY <1>1, <1>2, <1>3, <1>5 DEF TopIndexed, UpToDate
<1> QED BY <1>4, <1>5

LEMMA SameClaim ==
  ASSUME NEW c, NEW p, revs'[p] = revs[p], history' = history, stage'[c] = stage[c],
         todo'[c] = todo[c], gone'[c] = gone[c],
         PageDocs(p, pending') = PageDocs(p, pending), WorkClaim(c, p)
  PROVE  WorkClaim(c, p)'
<1>1. /\ RevList(p)' = RevList(p) /\ Exists(p)' = Exists(p)
      /\ Top(p)' = Top(p) /\ \A n : Time(p, n)' = Time(p, n)
  BY SamePage
<1>2. Indexed(p, Top(p), pending)' = Indexed(p, Top(p), pending)
  BY <1>1, DocOfPage DEF Indexed
<1> QED BY <1>1, <1>2 DEF WorkClaim

\* Whoever changes a page puts the job for it, or has no handler for it.
LEMMA BeginsWaits ==
  ASSUME TypedControl, NEW c \in Client, Begins(c)
  PROVE  /\ forgotten \subseteq forgotten' /\ reused \subseteq reused'
         /\ UNCHANGED <<queueVars, docVars, history>>
         /\ stage[c] = "idle" /\ stage'[c] \notin InIndexer
         /\ \A d \in Client \ {c} : stage'[d] = stage[d]
         /\ \A q : Waits(q) => Waits(q)'
         /\ \A q \in Page : revs'[q] = revs[q] \/ q \in forgotten' \/ Waits(q)'
<1>1. TypeOK /\ ControlInv /\ stage[c] = "idle" /\ pc[c] = "idle" /\ agenda[c] = <<>>
  BY BeginsGrows, InIndexerParts DEF TypedControl, ControlInv, Control
<1>2. /\ stage'[c] \notin InIndexer /\ \A d \in Client \ {c} : /\ stage'[d] = stage[d]
                                                             /\ agenda'[d] = agenda[d]
  <2>1. CASE \E new, jobs : Change(c, new, jobs)
    BY <1>1, <2>1 DEF Change, TypeOK, InIndexer
  <2>2. CASE /\ \E to \in {"put", "connect"} : Script(c, to)
             /\ \E js : agenda' = [agenda EXCEPT ![c] = js]
    BY <1>1, <2>2 DEF Script, Stage, TypeOK, InIndexer
  <2>3. agenda = [agenda EXCEPT ![c] = agenda[c]]
    BY <1>1 DEF TypeOK
  <2> QED BY <2>1, <2>2, <2>3, Zenon DEF Begins, Save, Delete, Revert, Copy, Rename,
               QueuePages, IndexPagesQueued
<1>3. UNCHANGED queueVars /\ pc'[c] = "idle"
  BY <1>1, BeginsGrows DEF queueVars
<1>4. \A q : Waits(q) => Waits(q)'
  <2>1. Content' = Content
    BY <1>3 DEF queueVars, Content
  <2>2. \A q : \A d \in Client : ToPut(d, q) => ToPut(d, q)'
    <3>1. \A q : ~ToPut(c, q)
      BY <1>1 DEF ToPut
    <3>2. ASSUME NEW d \in Client \ {c}, NEW q, ToPut(d, q) PROVE ToPut(d, q)'
      BY <1>2, <1>3, <3>2 DEF ToPut, HasPut, queueVars
    <3> QED BY <3>1, <3>2
  <2> QED BY <2>1, <2>2 DEF Waits
<1>5. ASSUME NEW new, NEW jobs, Change(c, new, jobs), NEW q,
             \E i \in DOMAIN jobs : q \in ToSet(jobs[i])
      PROVE  Waits(q)'
  <2>1. agenda'[c] = jobs /\ ~HasPut(c)'
    BY <1>1, <1>3, <1>5 DEF Change, TypeOK, HasPut
  <2> QED BY <1>5, <2>1 DEF Waits, ToPut
<1>6. \A q : <<<<q>>>>[1] = <<q>> /\ 1 \in DOMAIN <<<<q>>>> /\ q \in ToSet(<<q>>)
  BY DEF ToSet
<1>7. ASSUME NEW q \in Page PROVE revs'[q] = revs[q] \/ q \in forgotten' \/ Waits(q)'
  <2>1. ASSUME NEW p \in Page, Save(c, p) \/ Delete(c, p) PROVE revs'[q] = revs[q] \/ Waits(q)'
    <3>1. PICK t : Change(c, WithRev(p, t), <<<<p>>>>)
      BY <2>1 DEF Save, Delete
    <3>2. q # p => revs'[q] = revs[q]
      BY <3>1, <1>1 DEF Change, WithRev, TypeOK
    <3> QED BY <1>5, <1>6, <3>1, <3>2
  <2>2. ASSUME NEW p \in Page, Revert(c, p) PROVE revs'[q] = revs[q] \/ q \in forgotten'
    BY <1>1, <2>2 DEF Revert, Change, WithRev, TypeOK
  <2>3. ASSUME NEW p \in Page, NEW r \in Page, Copy(c, p, r) PROVE revs'[q] = revs[q] \/ Waits(q)'
    <3>1. Change(c, CopiedTo(p, r), <<<<r>>>>)
      BY <2>3 DEF Copy
    <3>2. q # r => revs'[q] = revs[q]
      BY <3>1, <1>1 DEF Change, CopiedTo, TypeOK
    <3> QED BY <1>5, <1>6, <3>1, <3>2
  <2>4. ASSUME NEW p \in Page, NEW r \in Page, Rename(c, p, r) PROVE revs'[q] = revs[q] \/ Waits(q)'
    <3>1. Change(c, [CopiedTo(p, r) EXCEPT ![p] = <<>>], <<<<p>>, <<r>>>>)
      BY <2>4 DEF Rename, RenameJobs
    <3>2. q # p /\ q # r => revs'[q] = revs[q]
      BY <3>1, <1>1 DEF Change, CopiedTo, TypeOK
    <3>3. /\ 1 \in DOMAIN <<<<p>>, <<r>>>> /\ 2 \in DOMAIN <<<<p>>, <<r>>>>
          /\ <<<<p>>, <<r>>>>[1] = <<p>> /\ <<<<p>>, <<r>>>>[2] = <<r>>
      OBVIOUS
    <3> QED BY <1>5, <1>6, <3>1, <3>2, <3>3
  <2>5. CASE QueuePages(c) \/ \E n \in {-1, 1} : IndexPagesQueued(c, n)
    BY <2>5 DEF QueuePages, IndexPagesQueued, Script, pageVars
  <2> QED BY <2>1, <2>2, <2>3, <2>4, <2>5, Zenon DEF Begins
<1>8. forgotten \subseteq forgotten'
  <2>1. forgotten' = forgotten \/ \E p : forgotten' = forgotten \cup {p}
    BY Zenon DEF Begins, Save, Delete, Revert, Copy, Rename, QueuePages, IndexPagesQueued, Script
  <2> QED BY <2>1
<1> QED BY <1>1, <1>2, <1>4, <1>7, <1>8, BeginsGrows
\* Everything the index promises, apart from what follows from it.
AttendWork == AttendInv /\ WorkInv

LEMMA BeginsAttend ==
  ASSUME TypedControl, AttendWork, NEW c \in Client, Begins(c) PROVE AttendWork'
<1>1. /\ forgotten \subseteq forgotten' /\ reused \subseteq reused'
      /\ UNCHANGED <<queueVars, docVars, history>>
      /\ stage[c] = "idle" /\ stage'[c] \notin InIndexer
      /\ \A d \in Client \ {c} : stage'[d] = stage[d]
      /\ \A q : Waits(q) => Waits(q)'
      /\ \A q \in Page : revs'[q] = revs[q] \/ q \in forgotten' \/ Waits(q)'
  BY BeginsWaits
<1>2. Docs' = Docs /\ \A d \in Client : Current(d)' = Current(d)
  BY <1>1 DEF Docs, Current, queueVars, docVars
<1>3. AttendInv'
  <2> SUFFICES ASSUME NEW q \in Page, q \notin forgotten', ~Waits(q)'
               PROVE  TopIndexed(q, Docs)' \/ \E d \in Client : Handles(d, q)'
    BY DEF AttendInv
  <2>1. revs'[q] = revs[q] /\ q \notin forgotten /\ ~Waits(q)
    BY <1>1
  <2>2. CASE TopIndexed(q, Docs)
    <3>1. PICK A : A = Docs
      OBVIOUS
    <3>2. TopIndexed(q, A)'
      BY <1>1, <2>1, <2>2, <3>1, SameTop
    <3> QED BY <1>2, <3>1, <3>2
  <2>3. ASSUME NEW d \in Client, Handles(d, q) PROVE Handles(d, q)'
    <3>1. d # c
      BY <1>1, <2>3 DEF Handles
    <3> QED BY <1>1, <1>2, <2>3, <3>1 DEF Handles, queueVars
  <2> QED BY <2>1, <2>2, <2>3 DEF AttendWork, AttendInv
<1>4. WorkInv'
  <2> SUFFICES ASSUME NEW d \in Client, stage'[d] \in {"exists", "index"}
               PROVE  \/ Current(d)' \in forgotten' \/ Waits(Current(d))'
                      \/ WorkClaim(d, Current(d))'
    BY DEF WorkInv
  <2>1. d # c /\ stage[d] = stage'[d]
    BY <1>1 DEF InIndexer
  <2>2. PICK q \in Page : q = Current(d)
    BY <2>1, CurrentPage DEF TypedControl
  <2>3. CASE q \in forgotten' \/ Waits(q)'
    BY <1>2, <2>2, <2>3
  <2>4. CASE ~(q \in forgotten' \/ Waits(q)')
    <3>1. revs'[q] = revs[q] /\ WorkClaim(d, q)
      BY <1>1, <2>1, <2>2, <2>4 DEF AttendWork, WorkInv
    <3>2. WorkClaim(d, q)'
      BY <1>1, <2>1, <3>1, SameClaim DEF docVars
    <3> QED BY <1>2, <2>2, <3>2
  <2> QED BY <2>3, <2>4
<1> QED BY <1>3, <1>4 DEF AttendWork

\* A step of the queue: of every page, its job waits or is in c's hand afterwards, or it was
\* neither before.
LEMMA QueueAttend ==
  ASSUME TypedControl, TypedControl', AttendWork, NEW c \in Client, Alone(c),
         UNCHANGED <<pageVars, docVars>>,
         stage[c] \notin {"exists", "index"}, stage'[c] \notin {"exists", "index"},
         \A p \in Page \ forgotten' :
           \/ Waits(p)' \/ Handles(c, p)'
           \/ p \notin forgotten /\ ~Waits(p) /\ ~Handles(c, p)
  PROVE  AttendWork'
<1>1. Docs' = Docs /\ reused' = reused /\ history' = history /\ revs' = revs
  BY DEF Docs, docVars, pageVars
<1>2. \A d \in Client \ {c} : \A p : Handles(d, p) => Handles(d, p)'
  BY DEF Alone, Handles, Current
<1>3. AttendInv'
  <2> SUFFICES ASSUME NEW q \in Page, q \notin forgotten', ~Waits(q)', ~Handles(c, q)'
               PROVE  TopIndexed(q, Docs)' \/ \E d \in Client : Handles(d, q)'
    BY DEF AttendInv
  <2>1. q \notin forgotten /\ ~Waits(q) /\ ~Handles(c, q)
    OBVIOUS
  <2>2. CASE TopIndexed(q, Docs)
    <3>1. PICK A : A = Docs
      OBVIOUS
    <3>2. TopIndexed(q, A)'
      BY <1>1, <2>2, <3>1, SameTop
    <3> QED BY <1>1, <3>1, <3>2
  <2> QED BY <1>2, <2>1, <2>2 DEF AttendWork, AttendInv
<1>4. WorkInv'
  <2> SUFFICES ASSUME NEW d \in Client, stage'[d] \in {"exists", "index"}
               PROVE  \/ Current(d)' \in forgotten' \/ Waits(Current(d))'
                      \/ WorkClaim(d, Current(d))'
    BY DEF WorkInv
  <2>1. d # c /\ stage[d] = stage'[d] /\ Current(d)' = Current(d)
    BY DEF Alone, Current
  <2>2. PICK q \in Page : q = Current(d)
    BY <2>1, CurrentPage DEF TypedControl
  <2>3. ~Handles(c, q)'
    <3>1. database' = d
      BY DEF TypedControl, ControlInv, Control, InIndexer
    <3>2. stage'[c] \notin InIndexer
      BY <2>1, <3>1 DEF TypedControl, ControlInv, Control
    <3> QED BY <3>2 DEF Handles, InIndexer
  <2>4. CASE q \in forgotten' \/ Waits(q)'
    BY <2>1, <2>2, <2>4
  <2>5. CASE ~(q \in forgotten' \/ Waits(q)')
    <3>1. WorkClaim(d, q)
      BY <2>1, <2>2, <2>3, <2>5 DEF AttendWork, WorkInv
    <3>2. WorkClaim(d, q)'
      BY <1>1, <2>1, <3>1, SameClaim DEF Alone, docVars
    <3> QED BY <2>1, <2>2, <3>2
  <2> QED BY <2>4, <2>5
<1> QED BY <1>3, <1>4 DEF AttendWork
LEMMA QueueAlone ==
  ASSUME TypedControl, NEW c \in Client, Put(c) \/ Take(c) \/ Write(c)
  PROVE  /\ Alone(c) /\ UNCHANGED <<pageVars, docVars>> /\ Control(c)
         /\ stage[c] \in {"put", "take"} /\ stage'[c] \notin {"exists", "index"}
         /\ QueueTypeOK /\ TypeOK
<1>1. QueueTypeOK /\ TypeOK /\ ControlInv /\ Control(c) /\ UNCHANGED <<pageVars, docVars>>
  BY DEF TypedControl, TypeOK, Put, Take, Write, ControlInv
<1>2. stage[c] \in {"put", "take"}
  <2>1. Write(c) => pc[c] = "write"
    BY <1>1, WriteParts DEF Write
  <2> QED BY <1>1, <2>1 DEF Put, Take, Control
<1>3. \A d \in Client \ {c} : stage'[d] = stage[d] /\ agenda'[d] = agenda[d]
  BY <1>1 DEF Put, Take, Write, FailPut, TypeOK
<1>4. \A d \in Client \ {c} : /\ pc'[d] = pc[d] /\ op'[d] = op[d] /\ list'[d] = list[d]
                              /\ result'[d] = result[d] /\ got'[d] = got[d]
  BY <1>1, EnterParts, LeaveParts, WriteParts DEF Put, Take, Write, TimesOut, queueVars
<1>5. stage'[c] \notin {"exists", "index"}
  BY <1>1, <1>2 DEF Put, Take, Write, FailPut, TypeOK
<1>6. Alone(c)
  BY <1>1, <1>3, <1>4 DEF Alone, docVars
<1> QED BY <1>1, <1>2, <1>5, <1>6

\* The other clients still have to put what they had to put.
LEMMA OthersPut ==
  ASSUME NEW c \in Client, Alone(c), NEW p, NEW d \in Client \ {c}, ToPut(d, p)
  PROVE  ToPut(d, p)'
BY DEF Alone, ToPut, HasPut

LEMMA PutAttend ==
  ASSUME TypedControl, TypedControl', AttendWork, NEW c \in Client, Put(c) PROVE AttendWork'
<1>1. /\ Alone(c) /\ UNCHANGED <<pageVars, docVars>> /\ Control(c) /\ QueueTypeOK /\ TypeOK
      /\ stage[c] = "put" /\ stage'[c] \notin {"exists", "index"}
  BY QueueAlone DEF Put
<1>2. file' = file /\ forgotten \subseteq forgotten'
  BY <1>1, EnterParts, LeaveParts DEF Put, TimesOut, FailPut
<1>3. agenda[c] \in Seq(Seq(Page)) /\ agenda[c] # <<>> /\ PutOf(agenda[c][1]).kind = "put"
  BY <1>1, AgendaFirst DEF TypedControl, PutOf
<1>4. ASSUME NEW p \in Page \ forgotten', ToPut(c, p) PROVE ToPut(c, p)'
  <2>1. CASE /\ Enter(c, PutOf(agenda[c][1])) \/ EnterBlind(c, PutOf(agenda[c][1]))
             /\ UNCHANGED <<stage, agenda, forgotten, unattended>>
    <3>1. pc'[c] = "write"
      BY <1>1, <1>3, <2>1, EnterParts
    <3> QED BY <1>4, <2>1, <3>1 DEF ToPut, HasPut
  <2>2. CASE FailPut(c)
    BY <1>4, <2>2 DEF FailPut, Unput, ToPut
  <2>3. CASE Leave(c) /\ result[c] # "error" /\ agenda' = [agenda EXCEPT ![c] = Tail(@)]
    <3>1. pc[c] = "leave" /\ pc'[c] = "idle"
      BY <1>1, <2>3, LeaveParts
    <3>2. HasPut(c) /\ ~HasPut(c)'
      BY <1>1, <1>3, <2>3, <3>1 DEF Control, HasPut, QueueTypeOK
    <3>3. PICK i \in DOMAIN agenda[c] : p \in ToSet(agenda[c][i]) /\ i # 1
      BY <1>4, <3>2 DEF ToPut
    <3>4. agenda'[c] = Tail(agenda[c])
      BY <1>1, <2>3 DEF TypeOK
    <3>5. i - 1 \in DOMAIN agenda'[c] /\ agenda'[c][i - 1] = agenda[c][i]
      <4>1. /\ DOMAIN Tail(agenda[c]) = 1..(Len(agenda[c]) - 1) /\ Len(agenda[c]) \in Nat \ {0}
            /\ \A k \in 1..(Len(agenda[c]) - 1) : Tail(agenda[c])[k] = agenda[c][k + 1]
            /\ i \in 1..Len(agenda[c])
        BY <1>3, <3>3, AgendaParts
      <4>2. i - 1 \in 1..(Len(agenda[c]) - 1) /\ (i - 1) + 1 = i
        BY <3>3, <4>1
      <4> QED BY <3>4, <4>1, <4>2
    <3> QED BY <3>2, <3>3, <3>5 DEF ToPut
  <2> QED BY <2>1, <2>2, <2>3 DEF Put
<1>5. \A p \in Page \ forgotten' : Waits(p) => Waits(p)'
  BY <1>1, <1>2, <1>4, OthersPut DEF Waits, Content
<1>6. \A p : ~Handles(c, p)
  BY <1>1 DEF Handles
<1> QED BY <1>1, <1>2, <1>5, <1>6, QueueAttend

LEMMA TakeAttend ==
  ASSUME TypedControl, TypedControl', AttendWork, NEW c \in Client, Take(c) PROVE AttendWork'
<1>1. /\ Alone(c) /\ UNCHANGED <<pageVars, docVars>> /\ QueueTypeOK /\ TypeOK
      /\ stage[c] = "take" /\ stage'[c] \notin {"exists", "index"}
  BY QueueAlone DEF Take
<1>2. file' = file /\ got' = got /\ UNCHANGED <<agenda, forgotten>>
  BY <1>1, EnterParts, LeaveParts DEF Take, TimesOut, queueVars
<1>3. stage'[c] # "put"
  BY <1>1 DEF Take, TypeOK
<1>4. \A p : Waits(p) => Waits(p)'
  <2>1. \A p : ToPut(c, p) => ToPut(c, p)'
    BY <1>2, <1>3 DEF ToPut, HasPut
  <2> QED BY <1>1, <1>2, <2>1, OthersPut DEF Waits, Content
<1>5. ASSUME NEW p, Handles(c, p) PROVE Handles(c, p)'
  <2>1. got[c] # <<>> /\ Current(c) = p /\ pc[c] = "leave" /\ result[c] = "ok"
    BY <1>1, <1>5 DEF Handles
  <2>2. stage'[c] = "revlist"
    BY <1>1, <2>1 DEF Take, Enter, EnterBlind, EnterAs, TimesOut, Goto, TypeOK
  <2> QED BY <1>2, <2>1, <2>2 DEF Handles, Current
<1> QED BY <1>1, <1>2, <1>4, <1>5, QueueAttend

\* What a get returns is what it has taken.
LEMMA EntriesOfGet ==
  ASSUME NEW q \in Seq(Job), q # <<>>
  PROVE  /\ Entries(Get, q) # <<>> /\ \A p \in ToSet(Entries(Get, q)) : p = Entries(Get, q)[1]
<1>1. Len(q) \in Nat \ {0}
  BY EmptySeq
<1>2. Entries(Get, q) = SubSeq(q, 1, 1)
  BY <1>1 DEF Entries, Upto, Get
<1>3. \A i \in 1..1 : q[i] \in Job
  BY <1>1
<1>4. Len(SubSeq(q, 1, 1)) = 1 /\ SubSeq(q, 1, 1) \in Seq(Job)
  BY <1>3, SubSeqProperties
<1>5. DOMAIN SubSeq(q, 1, 1) = 1..1
  BY <1>4, LenProperties
<1>6. 1..1 = {1} /\ Len(<<>>) # 1
  BY EmptySeq
<1>7. SubSeq(q, 1, 1) # <<>>
  BY <1>4, <1>6, Zenon
<1> QED BY <1>2, <1>5, <1>6, <1>7, Zenon DEF ToSet
LEMMA ConcatSet ==
  ASSUME NEW S, NEW q \in Seq(S), NEW r \in Seq(S), NEW p \in ToSet(r)
  PROVE  p \in ToSet(q \o r)
<1>1. PICK i \in DOMAIN r : r[i] = p
  BY DEF ToSet
<1>2. Len(q) \in Nat /\ Len(r) \in Nat /\ i \in 1..Len(r)
  BY <1>1, LenProperties
<1>3. Len(q) + i \in DOMAIN (q \o r) /\ (q \o r)[Len(q) + i] = p
  BY <1>1, <1>2
<1> QED BY <1>3, Zenon DEF ToSet

LEMMA WriteAttend ==
  ASSUME TypedControl, TypedControl', AttendWork, NEW c \in Client, Write(c) PROVE AttendWork'
<1>1. /\ Alone(c) /\ UNCHANGED <<pageVars, docVars>> /\ QueueTypeOK /\ TypeOK /\ Control(c)
      /\ stage[c] \in {"put", "take"} /\ stage'[c] \notin {"exists", "index"}
      /\ UNCHANGED <<stage, agenda>> /\ (Replace(c) \/ ReplaceFails(c))
  BY QueueAlone DEF Write
<1>2. /\ pc[c] = "write" /\ pc'[c] = "leave" /\ op' = op /\ list' = list
      /\ Replace(c) => /\ file' = Changed(op[c], list[c]) /\ result'[c] = "ok"
                       /\ got'[c] = IF op[c].kind = "put" THEN got[c]
                                    ELSE Entries(op[c], list[c])
      /\ ReplaceFails(c) => got' = got /\ result'[c] = "error" /\ file' \in {file, Torn}
  BY <1>1, WriteParts
<1>3. list[c] \in Seq(Job) /\ op[c] \in Ops
  BY <1>1 DEF QueueTypeOK
<1>4. \A p : ~Handles(c, p)
  BY <1>1, <1>2 DEF Handles
<1>5. CASE Replace(c)
  <2>1. /\ file' = Changed(op[c], list[c]) /\ result'[c] = "ok" /\ Content' = file'
    <3>1. Changed(op[c], list[c]) \in Seq(Job)
      BY <1>3, OpTypes
    <3> QED BY <1>2, <1>5, <3>1, QueueAssumption DEF Content
  <2>2. forgotten' = (forgotten \cup ToSet(Content)) \ Kept(c)
    BY <1>2, <1>5 DEF Write, Replace, ReplaceFails, Goto
  <2>3. CASE stage[c] = "put"
    <3>1. op[c] = PutOf(agenda[c][1]) /\ op[c].kind = "put" /\ op[c].jobs = agenda[c][1]
      BY <1>1, <1>2, <2>3 DEF Control, PutOf
    <3>2. \A p \in ToSet(agenda[c][1]) : p \in ToSet(Content')
      <4>1. agenda[c][1] \in Seq(Job) /\ file' = list[c] \o agenda[c][1]
        BY <1>3, <2>1, <3>1 DEF Changed, Ops
      <4> QED BY <1>3, <2>1, <4>1, ConcatSet
    <3>3. Kept(c) = ToSet(Content')
      BY <2>1, <3>1 DEF Kept
    <3>4. \A p : ToPut(c, p) => ToPut(c, p)' \/ p \in ToSet(Content')
      BY <1>1, <3>2 DEF ToPut
    <3>5. ASSUME NEW p \in Page \ forgotten', ~Waits(p)'
          PROVE  p \notin forgotten /\ ~Waits(p)
      BY <1>1, <2>2, <3>3, <3>4, <3>5, OthersPut DEF Waits
    <3> QED BY <1>1, <1>4, <3>5, QueueAttend
  <2>4. CASE stage[c] = "take"
    <3>1. op[c] = Get /\ op[c].kind = "get" /\ list[c] # <<>>
      BY <1>1, <1>2, <2>4 DEF Control, Get
    <3>2. got'[c] = Entries(Get, list[c])
      BY <1>2, <1>5, <3>1
    <3>3. \A p \in ToSet(got'[c]) : Handles(c, p)'
      <4>1. got'[c] # <<>> /\ \A p \in ToSet(got'[c]) : p = got'[c][1]
        BY <1>3, <3>1, <3>2, EntriesOfGet
      <4> QED BY <1>1, <1>2, <2>1, <2>4, <4>1 DEF Handles, Current
    <3>4. Kept(c) = ToSet(Content') \cup ToSet(got'[c])
      BY <2>1, <3>1 DEF Kept
    <3>5. \A p : ToPut(c, p) => ToPut(c, p)'
      BY <1>1, <2>4 DEF ToPut, HasPut
    <3>6. ASSUME NEW p \in Page \ forgotten', ~Waits(p)', ~Handles(c, p)'
          PROVE  p \notin forgotten /\ ~Waits(p)
      BY <1>1, <2>2, <3>3, <3>4, <3>5, <3>6, OthersPut DEF Waits
    <3> QED BY <1>1, <1>4, <3>6, QueueAttend
  <2> QED BY <1>1, <2>3, <2>4
<1>6. CASE ReplaceFails(c)
  <2>1. result'[c] = "error" /\ file' \in {file, Torn}
    BY <1>2, <1>6
  <2>2. forgotten' = IF file' = file THEN forgotten ELSE forgotten \cup ToSet(Content)
    BY <1>2, <1>6 DEF Write, Replace, ReplaceFails, Goto
  <2>3. \A p : ToPut(c, p) => ToPut(c, p)'
    BY <1>1, <2>1 DEF ToPut, HasPut
  <2>4. ASSUME NEW p \in Page \ forgotten', ~Waits(p)'
        PROVE  p \notin forgotten /\ ~Waits(p)
    <3>1. p \notin forgotten /\ (p \in ToSet(Content) => p \in ToSet(Content'))
      BY <2>2, <2>4 DEF Content
    <3> QED BY <1>1, <2>3, <2>4, <3>1, OthersPut DEF Waits
  <2> QED BY <1>1, <1>4, <2>4, QueueAttend
<1> QED BY <1>1, <1>5, <1>6
\* A step that leaves the queue, what is to be put into it and the pages as they are.
LEMMA WaitsSame ==
  ASSUME UNCHANGED <<file, pc, result, agenda>>,
         NEW c \in Client, \A d \in Client \ {c} : stage'[d] = stage[d],
         stage[c] # "put", stage'[c] # "put"
  PROVE  \A p : Waits(p)' = Waits(p)
BY DEF Waits, ToPut, HasPut, Content

\* The indexer's steps: of every page but the one in hand the documents stay as they are.
LEMMA IndexerAttend ==
  ASSUME TypedControl, TypedControl', AttendWork, NEW c \in Client, Alone(c),
         UNCHANGED <<pageVars, file, pc, result, agenda, got, op, list>>,
         stage[c] # "put", stage'[c] # "put", forgotten \subseteq forgotten',
         \A p \in Page \ forgotten' :
           \/ PageDocs(p, Docs') = PageDocs(p, Docs) /\ (Handles(c, p) => Handles(c, p)')
           \/ Waits(p) \/ TopIndexed(p, Docs') \/ Handles(c, p)',
         stage'[c] \in {"exists", "index"} =>
           \/ Current(c) \in forgotten' \/ Waits(Current(c)) \/ WorkClaim(c, Current(c))',
         stage[c] \in InIndexer \/ stage'[c] \in InIndexer \/ pending' = pending
  PROVE  AttendWork'
<1>1. /\ \A p : Waits(p)' = Waits(p)
      /\ \A d \in Client : Current(d)' = Current(d)
      /\ reused' = reused /\ history' = history /\ revs' = revs
  BY WaitsSame DEF Alone, Current, pageVars
<1>2. \A d \in Client \ {c} : \A p : Handles(d, p) => Handles(d, p)'
  BY DEF Alone, Handles, Current
<1>3. AttendInv'
  <2> SUFFICES ASSUME NEW q \in Page, q \notin forgotten', ~Waits(q)', ~TopIndexed(q, Docs)'
               PROVE  \E d \in Client : Handles(d, q)'
    BY DEF AttendInv
  <2>1. q \notin forgotten /\ ~Waits(q)
    BY <1>1
  <2>2. CASE TopIndexed(q, Docs')
    <3>1. PICK B : B = Docs'
      OBVIOUS
    <3>2. TopIndexed(q, B)'
      BY <1>1, <2>2, <3>1, SameTop
    <3> QED BY <3>1, <3>2
  <2>3. CASE PageDocs(q, Docs') = PageDocs(q, Docs) /\ (Handles(c, q) => Handles(c, q)')
    <3>1. ~TopIndexed(q, Docs)
      <4> SUFFICES ASSUME TopIndexed(q, Docs) PROVE FALSE
        OBVIOUS
      <4>1. PICK A, B : A = Docs /\ B = Docs'
        OBVIOUS
      <4>2. TopIndexed(q, B)'
        BY <1>1, <2>3, <4>1, SameTop
      <4> QED BY <4>1, <4>2
    <3>2. PICK d \in Client : Handles(d, q)
      BY <2>1, <3>1 DEF AttendWork, AttendInv
    <3> QED BY <1>2, <2>3, <3>2
  <2> QED BY <2>1, <2>2, <2>3
<1>4. WorkInv'
  <2> SUFFICES ASSUME NEW d \in Client, stage'[d] \in {"exists", "index"}
               PROVE  \/ Current(d)' \in forgotten' \/ Waits(Current(d))'
                      \/ WorkClaim(d, Current(d))'
    BY DEF WorkInv
  <2>1. PICK q : q = Current(d)
    OBVIOUS
  <2>2. CASE d = c
    BY <1>1, <2>2
  <2>3. CASE d # c
    <3>1. stage[d] = stage'[d] /\ stage[d] \in InIndexer
      BY <2>3 DEF Alone, InIndexer
    <3>2. pending' = pending
      <4>1. database = d /\ database' = d
        BY <3>1 DEF TypedControl, ControlInv, Control
      <4> QED BY <2>3, <4>1 DEF TypedControl, ControlInv, Control
    <3>3. q \in forgotten \/ Waits(q) \/ WorkClaim(d, q)
      BY <2>1, <3>1 DEF AttendWork, WorkInv
    <3>4. WorkClaim(d, q) => WorkClaim(d, q)'
      BY <1>1, <2>3, <3>1, <3>2, SameClaim DEF Alone
    <3> QED BY <1>1, <2>1, <3>3, <3>4
  <2> QED BY <2>2, <2>3
<1> QED BY <1>3, <1>4 DEF AttendWork
LEMMA IndexerAlone ==
  ASSUME TypedControl, NEW c \in Client,
         \/ Connect(c) \/ ReadRevList(c) \/ RemovePage(c) \/ CheckExists(c) \/ IndexRev(c)
         \/ RemoveRevs(c) \/ IndexFails(c) \/ Close(c)
  PROVE  /\ TypeOK /\ ControlInv /\ Alone(c)
         /\ UNCHANGED <<pageVars, file, pc, result, agenda, got, op, list>>
         /\ stage[c] \in {"connect", "revlist", "exists", "index", "close"} /\ stage'[c] # "put"
         /\ stage[c] # "connect" => database = c
<1>1. TypeOK /\ ControlInv
  BY DEF TypedControl
<1>2. /\ UNCHANGED <<pageVars, file, pc, result, agenda, got, op, list>>
      /\ stage[c] \in {"connect", "revlist", "exists", "index", "close"}
  BY DEF Connect, ReadRevList, RemovePage, CheckExists, IndexRev, RemoveRevs, IndexFails,
         Close, Stage, queueVars, QueueUnused
<1>3. /\ stage'[c] # "put"
      /\ \A d \in Client \ {c} : stage'[d] = stage[d] /\ todo'[d] = todo[d] /\ gone'[d] = gone[d]
  BY <1>1, <1>2 DEF Connect, ReadRevList, RemovePage, CheckExists, IndexRev, RemoveRevs,
     IndexFails, Close, Stage, TypeOK
<1>4. stage[c] # "connect" => database = c
  BY <1>1, <1>2, InIndexerParts
<1>5. \A d \in Client \ {c} : database' = d <=> database = d
  <2>1. \/ database' = database
        \/ database = NoClient /\ database' = c
        \/ stage[c] # "connect" /\ database' = NoClient
    BY DEF Connect, ReadRevList, RemovePage, CheckExists, IndexRev, RemoveRevs, IndexFails,
           Close, Disconnect, Stage
  <2> QED BY <1>4, <2>1, QueueAssumption
<1> QED BY <1>1, <1>2, <1>3, <1>4, <1>5 DEF Alone

LEMMA ConnectAttend ==
  ASSUME TypedControl, TypedControl', AttendWork, NEW c \in Client, Connect(c) PROVE AttendWork'
<1>1. /\ TypeOK /\ Alone(c) /\ UNCHANGED <<pageVars, file, pc, result, agenda, got, op, list>>
      /\ stage[c] = "connect" /\ stage'[c] # "put"
  BY IndexerAlone DEF Connect, Stage
<1>2. Docs' = Docs /\ forgotten' = forgotten
  BY QueueAssumption DEF Connect, Docs
<1>3. \A p : ~Handles(c, p)
  BY <1>1 DEF Handles
<1>4. stage'[c] \notin {"exists", "index"} /\ (stage'[c] \in InIndexer \/ pending' = pending)
  BY <1>1 DEF Connect, Stage, TypeOK, InIndexer
<1> QED BY <1>1, <1>2, <1>3, <1>4, IndexerAttend

\* A page without text has been taken out of the index, or is known to be forgotten.
LEMMA RemovePageAttend ==
  ASSUME TypedControl, TypedControl', AttendWork, NEW c \in Client, RemovePage(c)
  PROVE  AttendWork'
<1>1. /\ TypeOK /\ Alone(c) /\ UNCHANGED <<pageVars, file, pc, result, agenda, got, op, list>>
      /\ stage[c] = "revlist" /\ stage'[c] # "put" /\ database = c /\ ControlInv
  BY IndexerAlone DEF RemovePage, Stage
<1>2. PICK p \in Page : p = Current(c)
  BY <1>1, CurrentPage
<1>3. /\ RevList(p) = {} /\ Docs = pending /\ Docs' = pending' /\ forgotten \subseteq forgotten'
      /\ pending' = pending \ Found(p)
      /\ p \notin forgotten' => ~ \E d \in pending' : d.page = p
  BY <1>1, <1>2, QueueAssumption DEF RemovePage, Docs
<1>4. ASSUME p \notin forgotten' PROVE TopIndexed(p, Docs')
  <2>1. ~Exists(p)
    BY <1>1, <1>3, TopNewest
  <2>2. {d \in Docs' : d.page = p} = {}
    BY <1>3, <1>4
  <2> QED BY <1>3, <2>1, <2>2 DEF TopIndexed, UpToDate
<1>5. ASSUME NEW q \in Page, q # p
      PROVE  PageDocs(q, Docs') = PageDocs(q, Docs) /\ ~Handles(c, q)
  BY <1>2, <1>3, <1>5 DEF PageDocs, Found, Handles
<1>6. stage'[c] = "take"
  BY <1>1 DEF RemovePage, Stage, TypeOK
<1> QED BY <1>1, <1>3, <1>4, <1>5, <1>6, IndexerAttend DEF InIndexer

LEMMA ReadRevListAttend ==
  ASSUME TypedControl, TypedControl', AttendWork, NEW c \in Client, ReadRevList(c)
  PROVE  AttendWork'
<1>1. /\ TypeOK /\ Alone(c) /\ UNCHANGED <<pageVars, file, pc, result, agenda, got, op, list>>
      /\ stage[c] = "revlist" /\ stage'[c] # "put" /\ database = c /\ ControlInv
  BY IndexerAlone DEF ReadRevList, Stage
<1>2. PICK p \in Page : p = Current(c)
  BY <1>1, CurrentPage
<1>3. /\ RevList(p) # {} /\ todo'[c] = RevList(p) /\ gone' = gone /\ Docs' = Docs
      /\ forgotten' = forgotten /\ pending' = pending
      /\ stage'[c] = (IF history THEN "index" ELSE "exists")
  BY <1>1, <1>2 DEF ReadRevList, Stage, TypeOK, Docs
<1>4. \A q : Handles(c, q) => Handles(c, q)'
  BY <1>1, <1>3 DEF Handles, Current
<1>5. gone[c] = {}
  BY <1>1, InIndexerParts
<1>6. WorkClaim(c, p)'
  <2>1. /\ RevList(p)' = RevList(p) /\ Top(p)' = Top(p) /\ Top(p) \in RevList(p)
        /\ history' = history
    BY <1>1, <1>3, SamePage, TopOf DEF pageVars
  <2> QED BY <1>3, <1>5, <2>1 DEF WorkClaim
<1>7. WorkClaim(c, Current(c))'
  BY <1>1, <1>2, <1>6 DEF Current
<1> QED BY <1>1, <1>3, <1>4, <1>7, IndexerAttend

LEMMA CheckExistsAttend ==
  ASSUME TypedControl, TypedControl', AttendWork, NEW c \in Client, CheckExists(c)
  PROVE  AttendWork'
<1>1. /\ TypeOK /\ Alone(c) /\ UNCHANGED <<pageVars, file, pc, result, agenda, got, op, list>>
      /\ stage[c] = "exists" /\ stage'[c] # "put" /\ database = c /\ ControlInv /\ ~history
  BY IndexerAlone, InIndexerParts DEF CheckExists, Stage
<1>2. PICK p \in Page : p = Current(c)
  BY <1>1, CurrentPage
<1>3. /\ stage'[c] = "index" /\ Docs' = Docs /\ forgotten' = forgotten /\ pending' = pending
      /\ Exists(p) => /\ todo'[c] = {First(todo[c])}
                      /\ gone'[c] = todo[c] \ {First(todo[c])}
      /\ ~Exists(p) => todo'[c] = {} /\ gone'[c] = todo[c]
  BY <1>1, <1>2 DEF CheckExists, Stage, TypeOK, Docs
<1>4. \A q : Handles(c, q) => Handles(c, q)'
  BY <1>1, <1>3 DEF Handles, Current
<1>5. ASSUME WorkClaim(c, p) PROVE WorkClaim(c, p)'
  <2>1. /\ RevList(p)' = RevList(p) /\ Exists(p)' = Exists(p) /\ Top(p)' = Top(p)
        /\ history' = history /\ Top(p) \in RevList(p)
        /\ todo[c] = RevList(p) /\ RevList(p) # {} /\ First(todo[c]) = Top(p)
    BY <1>1, <1>5, SamePage, TopOf DEF pageVars, WorkClaim, Top
  <2> QED BY <1>1, <1>3, <2>1 DEF WorkClaim
<1>6. \/ Current(c) \in forgotten \/ Waits(Current(c)) \/ WorkClaim(c, Current(c))'
  <2>1. p \in forgotten \/ Waits(p) \/ WorkClaim(c, p)
    BY <1>1, <1>2 DEF AttendWork, WorkInv
  <2>2. WorkClaim(c, p)' => WorkClaim(c, Current(c))'
    BY <1>1, <1>2 DEF Current
  <2> QED BY <1>2, <1>5, <2>1, <2>2
<1> QED BY <1>1, <1>3, <1>4, <1>6, IndexerAttend
\* A document that is not outdated is of the time it should be.
LEMMA NotOutdated ==
  ASSUME TypedControl, DocInv, NEW p \in Page, RevList(p) # {}, ~Outdated(p, Top(p))
  PROVE  Indexed(p, Top(p), pending)
<1>1. TypeOK /\ Top(p) \in RevList(p)
  BY TopOf DEF TypedControl
<1>2. PICK d \in Of(p, {Top(p)}, pending) : ~(d.time < Time(p, Top(p)))
  BY DEF Outdated
<1>3. d \in pending /\ d.page = p /\ d.rev = Top(p)
  BY <1>2 DEF Of
<1>4. d \in [page : Page, rev : 1..clock, time : 0..clock] /\ clock \in Nat
  BY <1>1, <1>3 DEF TypeOK
<1>5. d.time <= Time(p, Top(p)) /\ Time(p, Top(p)) \in 0..clock
  BY <1>1, <1>3, TimeType DEF DocInv, DocFits
<1>6. d.time = Time(p, Top(p))
  BY <1>2, <1>4, <1>5
<1> QED BY <1>3, <1>4, <1>6 DEF Indexed, Doc

LEMMA IndexRevClaim ==
  ASSUME TypedControl, DocInv, NEW c \in Client, IndexRev(c), NEW p \in Page, p = Current(c),
         WorkClaim(c, p)
  PROVE  WorkClaim(c, p)'
<1>1. /\ TypeOK /\ ControlInv /\ stage[c] = "index" /\ stage' = stage /\ gone' = gone
      /\ todo[c] # {} /\ history' = history /\ revs' = revs
  BY DEF TypedControl, IndexRev, pageVars
<1>2. PICK n \in todo[c] : n = First(todo[c]) /\ \A m \in todo[c] : m <= n
  BY <1>1, TodoFirst
<1>3. /\ RevList(p)' = RevList(p) /\ Exists(p)' = Exists(p)
      /\ Top(p)' = Top(p) /\ \A m : Time(p, m)' = Time(p, m)
  BY <1>1, SamePage
<1>4. /\ RevList(p) # {} /\ (history \/ Exists(p))
      /\ todo[c] \subseteq RevList(p) /\ Top(p) \notin gone[c]
      /\ Top(p) \in todo[c] \/ Indexed(p, Top(p), pending)
  BY <1>1 DEF WorkClaim
<1>5. Top(p) \in todo[c] => n = Top(p)
  <2> SUFFICES ASSUME Top(p) \in todo[c] PROVE n = Top(p)
    OBVIOUS
  <2>1. n <= Top(p) /\ Top(p) <= n /\ n \in RevList(p) /\ Top(p) \in RevList(p)
    BY <1>1, <1>2, <1>4, TopOf
  <2>2. n \in Int /\ Top(p) \in Int
    BY <1>1, <2>1, RevListType
  <2> QED BY <2>1, <2>2
<1>6. todo'[c] \subseteq todo[c] /\ (Top(p) \in todo'[c] \/ Indexed(p, Top(p), pending'))
  <2>1. CASE Outdated(p, n)
    <3>1. /\ pending' = (pending \ Of(p, {n}, pending)) \cup {Doc(p, n, Time(p, n))}
          /\ todo'[c] = todo[c] \ {n}
      BY <1>1, <1>2, <2>1 DEF IndexRev, TypeOK
    <3>2. CASE n = Top(p)
      BY <3>1, <3>2 DEF Indexed
    <3>3. CASE n # Top(p)
      <4>1. Indexed(p, Top(p), pending)
        BY <1>4, <1>5, <3>3
      <4>2. Doc(p, Top(p), Time(p, Top(p))) \notin Of(p, {n}, pending)
        BY <3>3 DEF Of, Doc
      <4> QED BY <3>1, <4>1, <4>2 DEF Indexed
    <3> QED BY <3>2, <3>3
  <2>2. CASE ~Outdated(p, n)
    <3>1. pending' = pending /\ todo'[c] = {}
      BY <1>1, <1>2, <2>2 DEF IndexRev, TypeOK
    <3>2. Indexed(p, Top(p), pending)
      BY <1>4, <1>5, <2>2, NotOutdated
    <3> QED BY <3>1, <3>2
  <2> QED BY <2>1, <2>2
<1>7. Indexed(p, Top(p), pending)' <=> Indexed(p, Top(p), pending')
  BY <1>3 DEF Indexed
<1> QED BY <1>1, <1>3, <1>4, <1>6, <1>7 DEF WorkClaim

LEMMA IndexRevAttend ==
  ASSUME TypedControl, TypedControl', DocInv, AttendWork, NEW c \in Client, IndexRev(c)
  PROVE  AttendWork'
<1>1. /\ TypeOK /\ Alone(c) /\ UNCHANGED <<pageVars, file, pc, result, agenda, got, op, list>>
      /\ stage[c] = "index" /\ stage'[c] # "put" /\ database = c /\ ControlInv
  BY IndexerAlone DEF IndexRev
<1>2. PICK p \in Page : p = Current(c)
  BY <1>1, CurrentPage
<1>3. /\ stage' = stage /\ forgotten' = forgotten /\ Docs = pending /\ Docs' = pending'
      /\ got[c] # <<>>
  BY <1>1, QueueAssumption, CurrentPage DEF IndexRev, Docs
<1>4. \A q : Handles(c, q) => Handles(c, q)'
  BY <1>1, <1>3 DEF Handles, Current
<1>5. Handles(c, p)'
  BY <1>1, <1>2, <1>3 DEF Handles, Current
<1>6. ASSUME NEW q, q # p PROVE PageDocs(q, Docs') = PageDocs(q, Docs)
  <2>1. \/ pending' = pending
        \/ \E n : pending' = (pending \ Of(p, {n}, pending)) \cup {Doc(p, n, Time(p, n))}
    BY <1>2 DEF IndexRev
  <2> QED BY <1>3, <1>6, <2>1 DEF PageDocs, Of, Doc
<1>7. \/ Current(c) \in forgotten \/ Waits(Current(c)) \/ WorkClaim(c, Current(c))'
  <2>1. p \in forgotten \/ Waits(p) \/ WorkClaim(c, p)
    BY <1>1, <1>2 DEF AttendWork, WorkInv
  <2>2. WorkClaim(c, p)' => WorkClaim(c, Current(c))'
    BY <1>1, <1>2 DEF Current
  <2> QED BY <1>2, <2>1, <2>2, IndexRevClaim
<1> QED BY <1>1, <1>3, <1>4, <1>5, <1>6, <1>7, IndexerAttend DEF InIndexer
LEMMA RemoveRevsAttend ==
  ASSUME TypedControl, TypedControl', DocInv, AttendWork, NEW c \in Client, RemoveRevs(c)
  PROVE  AttendWork'
<1>1. /\ TypeOK /\ Alone(c) /\ UNCHANGED <<pageVars, file, pc, result, agenda, got, op, list>>
      /\ stage[c] = "index" /\ stage'[c] # "put" /\ database = c /\ ControlInv
  BY IndexerAlone DEF RemoveRevs, Stage
<1>2. PICK p \in Page : p = Current(c)
  BY <1>1, CurrentPage
<1>3. /\ stage'[c] = "take" /\ forgotten' = forgotten /\ Docs = pending /\ Docs' = pending'
      /\ todo[c] = {} /\ pending' = pending \ Of(p, gone[c], pending)
  BY <1>1, <1>2, QueueAssumption DEF RemoveRevs, Stage, TypeOK, Docs
<1>4. ASSUME NEW q \in Page, q # p
      PROVE  PageDocs(q, Docs') = PageDocs(q, Docs) /\ ~Handles(c, q)
  BY <1>2, <1>3, <1>4 DEF PageDocs, Of, Handles
<1>5. ASSUME p \notin forgotten', ~Waits(p) PROVE TopIndexed(p, Docs')
  <2>1. WorkClaim(c, p)
    BY <1>1, <1>2, <1>3, <1>5 DEF AttendWork, WorkInv
  <2>2. CASE history \/ Exists(p)
    <3>1. Top(p) \notin gone[c] /\ Indexed(p, Top(p), pending)
      BY <1>1, <1>3, <2>1, <2>2 DEF WorkClaim
    <3>2. Doc(p, Top(p), Time(p, Top(p))) \notin Of(p, gone[c], pending)
      BY <3>1 DEF Of, Doc
    <3>3. Indexed(p, Top(p), Docs')
      BY <1>3, <3>1, <3>2 DEF Indexed
    <3>4. Exists(p) => Doc(p, Newest(p), revs[p][Newest(p)]) \in Docs'
      BY <1>1, <3>3, TopNewest DEF Indexed
    <3> QED BY <2>2, <3>3, <3>4 DEF TopIndexed, UpToDate
  <2>3. CASE ~(history \/ Exists(p))
    <3>1. gone[c] = RevList(p) /\ RevList(p) # {}
      BY <1>1, <2>1, <2>3 DEF WorkClaim
    <3>2. revs[p] # <<>>
      BY <3>1 DEF RevList
    <3>3. ASSUME p \notin reused PROVE {d \in Docs' : d.page = p} = {}
      <4> SUFFICES ASSUME NEW d \in Docs', d.page = p PROVE FALSE
        OBVIOUS
      <4>1. d \in pending /\ d \notin Of(p, gone[c], pending)
        BY <1>3
      <4>2. d.rev \in RevList(p)
        BY <3>2, <3>3, <4>1 DEF DocInv, DocFits
      <4> QED BY <3>1, <4>1, <4>2 DEF Of
    <3> QED BY <2>3, <3>3 DEF TopIndexed, UpToDate
  <2> QED BY <2>2, <2>3
<1> QED BY <1>1, <1>3, <1>4, <1>5, IndexerAttend DEF InIndexer

LEMMA IndexFailsAttend ==
  ASSUME TypedControl, TypedControl', AttendWork, NEW c \in Client, IndexFails(c)
  PROVE  AttendWork'
<1>1. /\ TypeOK /\ Alone(c) /\ UNCHANGED <<pageVars, file, pc, result, agenda, got, op, list>>
      /\ stage[c] \in {"revlist", "exists", "index"} /\ stage'[c] # "put"
  BY IndexerAlone DEF IndexFails
<1>2. /\ Docs' = Docs /\ forgotten' = forgotten \cup {Current(c)} /\ pending' = pending
  BY DEF IndexFails, Docs
<1>3. \A q : q # Current(c) => ~Handles(c, q)
  BY DEF Handles
<1> QED BY <1>1, <1>2, <1>3, IndexerAttend

\* What an open connection has of a page that it does not lose is in the database.
LEMMA WrittenDocs ==
  ASSUME NEW p, p \notin Unwritten PROVE PageDocs(p, index) = PageDocs(p, pending)
BY DEF Unwritten, PageDocs

LEMMA CloseAttend ==
  ASSUME TypedControl, TypedControl', AttendWork, NEW c \in Client, Close(c) PROVE AttendWork'
<1>1. /\ TypeOK /\ Alone(c) /\ UNCHANGED <<pageVars, file, pc, result, agenda, got, op, list>>
      /\ stage[c] = "close" /\ stage'[c] # "put" /\ database = c
  BY IndexerAlone DEF Close, Stage
<1>2. stage'[c] = "idle" /\ Docs = pending /\ Docs' = index' /\ forgotten \subseteq forgotten'
  BY <1>1, QueueAssumption DEF Close, Stage, TypeOK, Docs, Disconnect
<1>3. ASSUME NEW p \in Page \ forgotten' PROVE PageDocs(p, Docs') = PageDocs(p, Docs)
  <2>1. index' = pending \/ (index' = index /\ p \notin Unwritten)
    BY <1>3 DEF Close, Disconnect
  <2> QED BY <1>2, <2>1, WrittenDocs
<1>4. \A q : ~Handles(c, q)
  BY <1>1 DEF Handles
<1> QED BY <1>1, <1>2, <1>3, <1>4, IndexerAttend DEF InIndexer

\* With a process goes what it had to put, had taken and had not written.
LEMMA CrashAttend ==
  ASSUME TypedControl, TypedControl', AttendWork, NEW c \in Client, Crash(c) PROVE AttendWork'
<1>1. /\ TypeOK /\ ControlInv /\ QueueTypeOK /\ Die(c) /\ UNCHANGED <<pageVars, index>>
      /\ stage' = [stage EXCEPT ![c] = "idle"] /\ forgotten \subseteq forgotten'
  BY DEF TypedControl, TypeOK, Crash
<1>2. /\ pc'[c] = "idle" /\ got' = got /\ file' = file
      /\ \A d \in Client \ {c} : /\ pc'[d] = pc[d] /\ op'[d] = op[d]
                                 /\ list'[d] = list[d] /\ result'[d] = result[d]
  BY <1>1, LeaveParts
<1>3. \A d \in Client \ {c} : /\ stage'[d] = stage[d] /\ agenda'[d] = agenda[d]
                              /\ todo'[d] = todo[d] /\ gone'[d] = gone[d]
  BY <1>1 DEF Crash, TypeOK
<1>4. IF database = c THEN database' = NoClient /\ pending' = {}
      ELSE UNCHANGED <<database, pending>>
  BY DEF Crash, Disconnect
<1>5. \A p \in Page \ forgotten' : /\ p \notin forgotten /\ p \notin Unput(c)
                                   /\ database = c => p \notin Unwritten /\ p \notin ToSet(got[c])
  BY DEF Crash
<1>6. ASSUME NEW p \in Page \ forgotten', Waits(p) PROVE Waits(p)'
  <2>1. ~ToPut(c, p)
    BY <1>5, <1>6 DEF ToPut, Unput
  <2>2. \A d \in Client \ {c} : ToPut(d, p) => ToPut(d, p)'
    BY <1>2, <1>3 DEF ToPut, HasPut
  <2> QED BY <1>2, <1>6, <2>1, <2>2 DEF Waits, Content
<1>7. ASSUME NEW p \in Page \ forgotten' PROVE PageDocs(p, Docs') = PageDocs(p, Docs)
  <2>1. CASE database = c
    <3>1. Docs = pending /\ Docs' = index
      BY <1>1, <1>4, <2>1, QueueAssumption DEF Docs
    <3> QED BY <1>5, <1>7, <2>1, <3>1, WrittenDocs
  <2>2. CASE database # c
    BY <1>1, <1>4, <2>2 DEF Docs
  <2> QED BY <2>1, <2>2
<1>8. ASSUME NEW p \in Page \ forgotten', NEW d \in Client, Handles(d, p) PROVE Handles(d, p)'
  <2>1. d # c
    <3> SUFFICES ASSUME Handles(c, p) PROVE FALSE
      BY <1>8
    <3>1. database = c
      BY <1>1 DEF Handles, ControlInv, Control, InIndexer
    <3>2. p \in ToSet(got[c])
      <4>1. got[c] \in Seq(Job) /\ got[c] # <<>> /\ got[c][1] = p
        BY <1>1 DEF QueueTypeOK, Handles, Current
      <4>2. 1 \in DOMAIN got[c]
        BY <4>1
      <4> QED BY <4>1, <4>2 DEF ToSet
    <3> QED BY <1>5, <3>1, <3>2
  <2> QED BY <1>2, <1>3, <1>8, <2>1 DEF Handles, Current
<1>9. AttendInv'
  <2> SUFFICES ASSUME NEW q \in Page, q \notin forgotten', ~Waits(q)', ~TopIndexed(q, Docs)'
               PROVE  \E d \in Client : Handles(d, q)'
    BY DEF AttendInv
  <2>1. q \notin forgotten /\ ~Waits(q)
    BY <1>1, <1>6
  <2>2. ~TopIndexed(q, Docs)
    <3> SUFFICES ASSUME TopIndexed(q, Docs) PROVE FALSE
      OBVIOUS
    <3>1. PICK A, B : A = Docs /\ B = Docs'
      OBVIOUS
    <3>2. TopIndexed(q, B)'
      BY <1>1, <1>7, <3>1, SameTop DEF pageVars
    <3> QED BY <3>1, <3>2
  <2>3. PICK d \in Client : Handles(d, q)
    BY <2>1, <2>2 DEF AttendWork, AttendInv
  <2> QED BY <1>8, <2>3
<1>10. WorkInv'
  <2> SUFFICES ASSUME NEW d \in Client, stage'[d] \in {"exists", "index"}
               PROVE  \/ Current(d)' \in forgotten' \/ Waits(Current(d))'
                      \/ WorkClaim(d, Current(d))'
    BY DEF WorkInv
  <2>1. d # c /\ stage[d] = stage'[d] /\ Current(d)' = Current(d)
    BY <1>1, <1>2, <1>3 DEF TypeOK, Current
  <2>2. PICK q \in Page : q = Current(d)
    BY <1>1, <2>1, CurrentPage
  <2>3. CASE q \in forgotten' \/ Waits(q)'
    BY <2>1, <2>2, <2>3
  <2>4. CASE ~(q \in forgotten' \/ Waits(q)')
    <3>1. WorkClaim(d, q)
      BY <1>1, <1>6, <2>1, <2>2, <2>4 DEF AttendWork, WorkInv
    <3>2. database = d /\ d # c
      BY <1>1, <2>1 DEF ControlInv, Control, InIndexer
    <3>3. pending' = pending
      BY <1>4, <3>2
    <3>4. WorkClaim(d, q)'
      BY <1>1, <1>3, <2>1, <3>1, <3>3, SameClaim DEF pageVars
    <3> QED BY <2>1, <2>2, <3>4
  <2> QED BY <2>3, <2>4
<1> QED BY <1>9, <1>10 DEF AttendWork
LEMMA AttendStep ==
  TypedControl /\ TypedControl' /\ DocInv /\ AttendWork /\ [SNext]_vars => AttendWork'
<1> SUFFICES ASSUME TypedControl, TypedControl', DocInv, AttendWork, [SNext]_vars
             PROVE  AttendWork'
  OBVIOUS
<1>1. CASE UNCHANGED vars \/ Expires
  <2>1. UNCHANGED <<pageVars, docVars, stage, agenda, forgotten, file, pc, got, result>>
    BY <1>1 DEF vars, queueVars, pageVars, docVars, Expires, Expire
  <2> USE <2>1 DEF pageVars, docVars
  <2>2. /\ \A p : RevList(p)' = RevList(p) /\ Top(p)' = Top(p) /\ Exists(p)' = Exists(p)
        /\ \A p, n : Time(p, n)' = Time(p, n)
        /\ \A d : Current(d)' = Current(d)
    BY SamePage DEF Current
  <2>3. \A p : Waits(p)' = Waits(p)
    BY DEF Waits, ToPut, HasPut, Content
  <2>4. \A p : \A d : Handles(d, p)' = Handles(d, p) /\ WorkClaim(d, p)' = WorkClaim(d, p)
    BY <2>2 DEF Handles, WorkClaim, Indexed
  <2>5. \A p : TopIndexed(p, Docs)' = TopIndexed(p, Docs)
    BY <2>2 DEF TopIndexed, Indexed, UpToDate, Docs, Newest
  <2>6. AttendInv'
    BY <2>3, <2>4, <2>5 DEF AttendWork, AttendInv
  <2>7. WorkInv'
    BY <2>2, <2>3, <2>4 DEF AttendWork, WorkInv
  <2> QED BY <2>6, <2>7 DEF AttendWork
<1> QED BY <1>1, StepKinds, BeginsAttend, PutAttend, TakeAttend, WriteAttend, ConnectAttend,
           ReadRevListAttend, RemovePageAttend, CheckExistsAttend, IndexRevAttend,
           RemoveRevsAttend, IndexFailsAttend, CloseAttend, CrashAttend

LEMMA IndexInit == SInit => DocInv /\ AttendWork
<1> SUFFICES ASSUME SInit PROVE DocInv /\ AttendWork
  OBVIOUS
<1>1. DocInv
  BY DEF SInit, DocInv
<1>2. WorkInv
  BY DEF SInit, WorkInv
<1>3. AttendInv
  <2> SUFFICES ASSUME NEW p \in Page PROVE TopIndexed(p, Docs)
    BY DEF AttendInv
  <2>1. revs[p] = <<>> /\ Docs = {} /\ ~Exists(p) /\ RevList(p) = {}
    BY DEF SInit, Docs, Exists, RevList
  <2> QED BY <2>1 DEF TopIndexed, UpToDate
<1> QED BY <1>1, <1>2, <1>3 DEF AttendWork

LEMMA AttendImplies == TypedControl /\ AttendInv => NothingForgotten
<1> SUFFICES ASSUME TypedControl, AttendInv, NEW p \in Page \ forgotten PROVE Attended(p)
  BY DEF NothingForgotten
<1>1. TypeOK /\ ControlInv
  BY DEF TypedControl
<1>2. CASE Waits(p)
  BY <1>2 DEF Waits, ToPut, Attended, InHand
<1>3. CASE TopIndexed(p, Docs)
  <2>1. UpToDate(p, Docs)
    <3>1. CASE ~Exists(p)
      BY <1>3, <3>1 DEF TopIndexed, UpToDate
    <3>2. CASE Exists(p)
      BY <1>1, <1>3, <3>2, TopNewest DEF TopIndexed, Indexed, UpToDate
    <3> QED BY <3>1, <3>2
  <2> QED BY <2>1 DEF Attended, Docs
<1>4. ASSUME NEW c \in Client, Handles(c, p) PROVE Attended(p)
  <2>1. database = c
    BY <1>1, <1>4 DEF ControlInv, Control, Handles, InIndexer
  <2> QED BY <1>4, <2>1 DEF Handles, Attended, InHand
<1> QED BY <1>2, <1>3, <1>4 DEF AttendInv

\* However the saves, deletions, copies and renames of any requests, their puts, gets and
\* updates of the index follow each other, every page is right in the index or will be: its job
\* waits, a request has it in hand, or an open connection has the document.  Excepted are only
\* the pages whose job was never put (a revert), or went with an error, a process or another
\* request's write.
THEOREM IndexForgetsNothing == SSpec => []NothingForgotten
<1>1. SInit => TypedControl /\ DocInv /\ AttendWork
  BY TypedControlInit, IndexInit
<1>2. TypedControl /\ DocInv /\ AttendWork /\ [SNext]_vars => (TypedControl /\ DocInv /\ AttendWork)'
  BY TypedControlStep, DocStep, AttendStep
<1>3. TypedControl /\ DocInv /\ AttendWork => NothingForgotten
  BY AttendImplies DEF AttendWork
<1> QED BY <1>1, <1>2, <1>3, PTL DEF SSpec
------------------------------------------------------------------------------
(* With history, every revision is in the index. *)

\* A step that leaves the pages as they are.
LEMMA CompleteKept ==
  ASSUME CompleteInv, UNCHANGED pageVars,
         history => \A p \in Page \ (partial' \cup reused) :
           \/ Complete(p)'
           \/ /\ p \notin partial /\ PageDocs(p, Docs') = PageDocs(p, Docs)
              /\ \A d \in Client : Indexes(d, p) =>
                   todo[d] = {} \/ (Indexes(d, p)' /\ todo'[d] = todo[d]),
         history => \A d \in Client : stage'[d] = "index" =>
           \/ Current(d)' \in partial' \cup reused \/ Downward(d)'
           \/ /\ stage[d] = "index" /\ Current(d)' = Current(d) /\ todo'[d] = todo[d]
              /\ partial \subseteq partial'
  PROVE  CompleteInv'
<1>1. /\ \A p : RevList(p)' = RevList(p) /\ \A n : Time(p, n)' = Time(p, n)
      /\ reused' = reused /\ history' = history
  BY SamePage DEF pageVars
<1>2. ASSUME history, NEW p \in Page \ (partial' \cup reused), p \notin partial,
             PageDocs(p, Docs') = PageDocs(p, Docs),
             \A d \in Client : Indexes(d, p) =>
               todo[d] = {} \/ (Indexes(d, p)' /\ todo'[d] = todo[d])
      PROVE  Complete(p)'
  <2>1. \A n : Indexed(p, n, Docs)' = Indexed(p, n, Docs)
    <3>1. \A n, t : Doc(p, n, t) \in Docs' <=> Doc(p, n, t) \in Docs
      <4>1. PICK A, B : A = Docs' /\ B = Docs
        OBVIOUS
      <4> QED BY <1>2, <4>1, DocOfPage
    <3> QED BY <1>1, <3>1 DEF Indexed
  <2>2. Complete(p)
    BY <1>2 DEF CompleteInv
  <2> QED BY <1>1, <1>2, <2>1, <2>2 DEF Complete
<1>3. ASSUME history, NEW d \in Client, stage'[d] = "index"
      PROVE  Current(d)' \in partial' \cup reused' \/ Downward(d)'
  BY <1>1, <1>3 DEF CompleteInv, Downward
<1> QED BY <1>1, <1>2, <1>3 DEF CompleteInv

LEMMA BeginsComplete ==
  ASSUME TypedControl, DocInv, CompleteInv, NEW c \in Client, Begins(c) PROVE CompleteInv'
<1> SUFFICES ASSUME history PROVE CompleteInv'
  BY BeginsWaits DEF CompleteInv
<1>1. /\ TypeOK /\ clock \in Nat /\ reused \subseteq reused' /\ history'
      /\ UNCHANGED <<queueVars, docVars>> /\ partial' = partial /\ NoText \notin Nat
      /\ stage'[c] # "index" /\ \A d \in Client \ {c} : stage'[d] = stage[d]
  <2>1. partial' = partial
    BY Zenon DEF Begins, Save, Delete, Revert, Copy, Rename, QueuePages, IndexPagesQueued,
         Change, Script
  <2> QED BY <2>1, BeginsGrows, BeginsWaits, IndexAssumption DEF TypedControl, InIndexer
<1>2. /\ Docs' = Docs /\ Docs \subseteq index \cup pending /\ todo' = todo
      /\ \A d : Current(d)' = Current(d)
  BY <1>1 DEF Docs, docVars, queueVars, Current
<1>3. ASSUME NEW p, NEW d \in Client, Indexes(d, p), stage[c] = "idle" PROVE Indexes(d, p)'
  BY <1>1, <1>2, <1>3 DEF Indexes
<1>4. ASSUME NEW p \in Page \ (partial' \cup reused'), NEW n \in RevList(p)', NEW m \in RevList(p)',
             m < n, Indexed(p, n, Docs)'
      PROVE  \/ Indexed(p, m, Docs)'
             \/ \E d \in Client : Indexes(d, p)' /\ m \in todo'[d] /\ n \notin todo'[d]
  <2>1. Grows(p) /\ (revs[p] = <<>> /\ revs'[p] # <<>> => ~Remains(p)) /\ stage[c] = "idle"
    BY <1>1, <1>4, BeginsGrows
  <2>2. Complete(p)
    BY <1>1, <1>4 DEF CompleteInv
  <2>3. Doc(p, n, Time(p, n)') \in Docs
    BY <1>2, <1>4 DEF Indexed
  <2>4. CASE SameRevs(p, p)
    <3>1. n \in RevList(p) /\ m \in RevList(p) /\ Indexed(p, n, Docs)
      BY <1>4, <2>3, <2>4 DEF SameRevs, Indexed
    <3>2. Indexed(p, m, Docs)' = Indexed(p, m, Docs)
      BY <1>2, <2>4 DEF SameRevs, Indexed
    <3> QED BY <1>2, <1>3, <1>4, <2>1, <2>2, <3>1, <3>2 DEF Complete
  <2>5. CASE revs'[p] = revs[p]
    BY <2>4, <2>5, SamePage DEF SameRevs
  <2>6. CASE revs'[p] = <<>>
    BY <2>6 DEF RevList
  <2>7. ASSUME revs[p] # <<>>, NEW t \in {NoText, clock + 1}, revs'[p] = Append(revs[p], t)
        PROVE  \/ Indexed(p, m, Docs)'
               \/ \E d \in Client : Indexes(d, p)' /\ m \in todo'[d] /\ n \notin todo'[d]
    <3>1. PICK k \in Nat : k = Len(revs[p]) + 1
      BY <1>1 DEF TypeOK
    <3>2. CASE t = NoText
      <4>1. SameRevs(p, p)
        BY <1>1, <2>7, <3>1, <3>2, RevListAppend
      <4> QED BY <2>4, <4>1
    <3>3. CASE t = clock + 1
      <4>1. OneMore(p, p, k, t)
        <5>1. t # NoText
          BY <1>1, <3>3
        <5> QED BY <1>1, <2>7, <3>1, <5>1, RevListAppend
      <4>2. n # k
        <5> SUFFICES ASSUME n = k PROVE FALSE
          OBVIOUS
        <5>1. Doc(p, k, clock + 1) \in index \cup pending
          BY <1>2, <2>3, <3>3, <4>1 DEF OneMore
        <5>2. clock + 1 \in 0..clock
          BY <1>1, <5>1 DEF TypeOK, Doc
        <5> QED BY <1>1, <5>2
      <4>3. m # k
        <5>1. n \in Nat /\ n < k
          <6>1. n \in RevList(p)
            BY <1>4, <4>1, <4>2 DEF OneMore
          <6>2. n \in DOMAIN revs[p] /\ revs[p] \in Seq(1..clock \cup {NoText})
            BY <1>1, <6>1 DEF TypeOK, RevList
          <6> QED BY <3>1, <6>2
        <5> QED BY <1>4, <5>1
      <4>4. n \in RevList(p) /\ m \in RevList(p) /\ Time(p, n)' = Time(p, n) /\ Time(p, m)' = Time(p, m)
        BY <1>4, <4>1, <4>2, <4>3 DEF OneMore
      <4>5. Indexed(p, n, Docs) /\ Indexed(p, m, Docs)' = Indexed(p, m, Docs)
        BY <1>2, <2>3, <4>4 DEF Indexed
      <4> QED BY <1>2, <1>3, <1>4, <2>1, <2>2, <4>4, <4>5 DEF Complete
    <3> QED BY <3>2, <3>3
  <2>8. CASE revs[p] = <<>> /\ revs'[p] # <<>>
    <3>1. ~Remains(p)
      BY <2>1, <2>8
    <3> QED BY <1>2, <2>3, <3>1 DEF Remains, Doc
  <2> QED BY <2>1, <2>5, <2>6, <2>7, <2>8 DEF Grows
<1>5. ASSUME NEW d \in Client, stage'[d] = "index"
      PROVE  Current(d)' \in partial' \cup reused' \/ Downward(d)'
  <2>1. d # c /\ stage[d] = "index"
    BY <1>1, <1>5
  <2>2. PICK p \in Page : p = Current(d)
    BY <2>1, CurrentPage DEF TypedControl
  <2>3. CASE p \in partial' \cup reused'
    BY <1>2, <2>2, <2>3
  <2>4. CASE p \notin partial' \cup reused'
    <3>1. /\ Downward(d) /\ (revs[p] = <<>> \/ todo[d] \subseteq RevList(p))
          /\ Grows(p) /\ (revs[p] = <<>> /\ revs'[p] # <<>> => FALSE)
      <4>1. Downward(d) /\ (revs[p] = <<>> \/ todo[d] \subseteq RevList(p))
        BY <1>1, <2>1, <2>2, <2>4 DEF CompleteInv, DocInv, TodoFits
      <4>2. Remains(p)
        BY <2>1, <2>2 DEF Remains
      <4> QED BY <2>4, <4>1, <4>2, BeginsGrows, <1>1
    <3>2. \A n \in todo[d] : \A m \in RevList(p)' : m < n => m \in todo[d]
      <4>1. CASE revs'[p] = revs[p]
        BY <2>2, <3>1, <4>1, SamePage DEF Downward
      <4>2. CASE revs'[p] = <<>>
        BY <4>2 DEF RevList
      <4>3. ASSUME revs[p] # <<>>, NEW t \in {NoText, clock + 1}, revs'[p] = Append(revs[p], t),
                   NEW n \in todo[d], NEW m \in RevList(p)', m < n
            PROVE  m \in todo[d]
        <5>1. PICK k \in Nat : k = Len(revs[p]) + 1
          BY <1>1 DEF TypeOK
        <5>2. SameRevs(p, p) \/ OneMore(p, p, k, t)
          BY <1>1, <4>3, <5>1, RevListAppend
        <5>3. n \in Nat /\ n < k
          <6>1. n \in RevList(p)
            BY <3>1, <4>3
          <6>2. n \in DOMAIN revs[p] /\ revs[p] \in Seq(1..clock \cup {NoText})
            BY <1>1, <6>1 DEF TypeOK, RevList
          <6> QED BY <5>1, <6>2
        <5>4. m \in RevList(p)
          BY <4>3, <5>2, <5>3 DEF SameRevs, OneMore
        <5> QED BY <2>2, <3>1, <4>3, <5>4 DEF Downward
      <4> QED BY <3>1, <4>1, <4>2, <4>3 DEF Grows
    <3> QED BY <1>2, <2>2, <3>2 DEF Downward
  <2> QED BY <2>3, <2>4
<1> QED BY <1>4, <1>5 DEF CompleteInv, Complete
LEMMA QueueComplete ==
  ASSUME TypedControl, CompleteInv, NEW c \in Client, Put(c) \/ Take(c) \/ Write(c)
  PROVE  CompleteInv'
<1>1. /\ Alone(c) /\ UNCHANGED <<pageVars, docVars>> /\ partial' = partial
      /\ stage[c] \in {"put", "take"} /\ stage'[c] \notin {"exists", "index"}
  BY QueueAlone DEF Put, Take, Write
<1>2. Docs' = Docs
  BY <1>1 DEF Docs, docVars
<1>3. \A d \in Client : \A p : Indexes(d, p) => Indexes(d, p)' /\ todo'[d] = todo[d]
  BY <1>1 DEF Alone, Indexes, Current
<1>4. \A d \in Client : stage'[d] = "index" =>
        stage[d] = "index" /\ Current(d)' = Current(d) /\ todo'[d] = todo[d]
  BY <1>1 DEF Alone, Current
<1> QED BY <1>1, <1>2, <1>3, <1>4, CompleteKept

\* The steps that index no revision.
LEMMA StagesComplete ==
  ASSUME TypedControl, CompleteInv, NEW c \in Client,
         \/ Connect(c) \/ RemovePage(c) \/ ReadRevList(c) \/ CheckExists(c)
         \/ RemoveRevs(c) \/ IndexFails(c)
  PROVE  CompleteInv'
<1> SUFFICES ASSUME history PROVE CompleteInv'
  BY IndexerAlone DEF CompleteInv, pageVars
<1>1. /\ TypeOK /\ Alone(c) /\ UNCHANGED <<pageVars, got>> /\ stage'[c] # "put"
      /\ stage[c] \in {"connect", "revlist", "exists", "index"}
      /\ partial \subseteq partial' /\ ControlInv
  BY IndexerAlone DEF Connect, RemovePage, ReadRevList, CheckExists, RemoveRevs, IndexFails, Stage
<1>2. \A d \in Client \ {c} : /\ Current(d)' = Current(d) /\ todo'[d] = todo[d]
                              /\ stage'[d] = stage[d]
                              /\ \A p : Indexes(d, p)' = Indexes(d, p)
  BY <1>1 DEF Alone, Indexes, Current
<1>3. Current(c)' = Current(c)
  BY <1>1 DEF Current
<1>4. CASE Connect(c)
  <2>1. Docs' = Docs
    BY <1>4, QueueAssumption DEF Connect, Docs
  <2>2. stage[c] # "index" /\ stage'[c] # "index"
    BY <1>1, <1>4 DEF Connect, Stage, TypeOK
  <2>3. partial' = partial /\ \A p : ~Indexes(c, p)
    BY <1>4, <2>2 DEF Connect, Indexes
  <2> QED BY <1>1, <1>2, <2>1, <2>2, <2>3, CompleteKept
<1>5. CASE RemovePage(c)
  <2>1. PICK p \in Page : p = Current(c)
    BY <1>1, <1>5, CurrentPage DEF RemovePage, Stage
  <2>2. /\ RevList(p) = {} /\ pending' = pending \ Found(p) /\ UNCHANGED <<index, database, partial>>
        /\ stage[c] = "revlist" /\ stage'[c] = "take"
    BY <1>1, <1>5, <2>1 DEF RemovePage, Stage, TypeOK
  <2>3. Complete(p)'
    <3>1. RevList(p)' = {}
      BY <1>1, <2>2, SamePage DEF pageVars
    <3> QED BY <3>1 DEF Complete
  <2>4. \A q : q # p => PageDocs(q, Docs') = PageDocs(q, Docs)
    BY <2>2 DEF PageDocs, Docs, Found
  <2>5. \A q : ~Indexes(c, q)
    BY <2>2 DEF Indexes
  <2> QED BY <1>1, <1>2, <2>2, <2>3, <2>4, <2>5, CompleteKept
<1>6. CASE ReadRevList(c)
  <2>1. /\ todo'[c] = RevList(Current(c)) /\ Docs' = Docs /\ partial' = partial
        /\ stage[c] = "revlist"
    BY <1>1, <1>6 DEF ReadRevList, Stage, TypeOK, Docs
  <2>2. Downward(c)'
    BY <1>1, <1>3, <2>1, SamePage DEF pageVars, Downward
  <2>3. \A q : ~Indexes(c, q)
    BY <2>1 DEF Indexes
  <2> QED BY <1>1, <1>2, <2>1, <2>2, <2>3, CompleteKept
<1>7. CASE CheckExists(c)
  BY <1>1, <1>7, InIndexerParts DEF CheckExists, Stage
<1>8. CASE RemoveRevs(c)
  <2>1. gone[c] = {} /\ todo[c] = {} /\ stage'[c] = "take"
    BY <1>1, <1>8, InIndexerParts DEF RemoveRevs, Stage, TypeOK
  <2>2. Docs' = Docs /\ partial' = partial
    BY <1>8, <2>1 DEF RemoveRevs, Docs, Of
  <2> QED BY <1>1, <1>2, <2>1, <2>2, CompleteKept
<1>9. CASE IndexFails(c)
  <2>1. Docs' = Docs /\ partial' = partial \cup {Current(c)}
    BY <1>9 DEF IndexFails, Docs
  <2>2. \A q : Indexes(c, q) => q = Current(c)
    BY DEF Indexes
  <2> QED BY <1>1, <1>2, <1>3, <2>1, <2>2, CompleteKept
<1> QED BY <1>4, <1>5, <1>6, <1>7, <1>8, <1>9

\* Closing the connection, or dying with it: what it loses is known to be partial.
LEMMA EndComplete ==
  ASSUME TypedControl, CompleteInv, NEW c \in Client, Close(c) \/ Crash(c) PROVE CompleteInv'
<1>1. /\ TypeOK /\ ControlInv /\ UNCHANGED <<pageVars, got>> /\ partial \subseteq partial'
      /\ stage'[c] = "idle" /\ \A d \in Client \ {c} : stage'[d] = stage[d] /\ todo'[d] = todo[d]
  BY DEF TypedControl, TypeOK, Close, Crash, Stage, Die, queueVars, QueueUnused
<1>2. ASSUME NEW p \in Page \ partial' PROVE PageDocs(p, Docs') = PageDocs(p, Docs)
  <2>1. CASE database = c
    <3>1. Docs = pending /\ Docs' = index'
      BY <2>1, QueueAssumption DEF Close, Crash, Docs, Disconnect
    <3>2. index' = pending \/ (index' = index /\ p \notin Unwritten)
      BY <1>2, <2>1 DEF Close, Crash
    <3> QED BY <3>1, <3>2, WrittenDocs
  <2>2. CASE database # c
    <3>1. Crash(c)
      BY <1>1, <2>2, InIndexerParts DEF Close, Stage
    <3> QED BY <2>2, <3>1 DEF Crash, Docs
  <2> QED BY <2>1, <2>2
<1>3. ASSUME NEW p \in Page \ partial', NEW d \in Client, Indexes(d, p)
      PROVE  Indexes(d, p)' /\ todo'[d] = todo[d]
  <2>1. d # c
    <3> SUFFICES ASSUME Indexes(c, p) PROVE FALSE
      BY <1>3
    <3>1. database = c /\ p \in ToSet(got[c])
      BY <1>1, InIndexerParts, CurrentPage DEF Indexes
    <3>2. Crash(c)
      BY DEF Close, Stage, Indexes
    <3> QED BY <1>3, <3>1, <3>2 DEF Crash
  <2> QED BY <1>1, <1>3, <2>1 DEF Indexes, Current
<1>4. \A d \in Client : stage'[d] = "index" =>
        stage[d] = "index" /\ Current(d)' = Current(d) /\ todo'[d] = todo[d]
  BY <1>1 DEF Current
<1> QED BY <1>1, <1>2, <1>3, <1>4, CompleteKept
\* A document that is up to date is the one of the revision, unless the name was reused.
LEMMA UpToDateIndexed ==
  ASSUME TypeOK, DocInv, NEW p \in Page \ reused, NEW n \in RevList(p), ~Outdated(p, n)
  PROVE  Indexed(p, n, pending)
<1>1. PICK d \in Of(p, {n}, pending) : ~(d.time < Time(p, n))
  BY DEF Outdated
<1>2. d \in pending /\ d.page = p /\ d.rev = n
  BY <1>1 DEF Of
<1>3. d \in [page : Page, rev : 1..clock, time : 0..clock] /\ clock \in Nat
  BY <1>2 DEF TypeOK
<1>4. d.time <= Time(p, n) /\ Time(p, n) \in 0..clock
  BY <1>2, TimeType DEF DocInv, DocFits
<1>5. d.time = Time(p, n)
  BY <1>1, <1>3, <1>4
<1> QED BY <1>2, <1>3, <1>5 DEF Indexed, Doc

\* The update indexes the newest revision it has to do, or finds it up to date; then
\* everything below it is indexed too.
LEMMA IndexRevComplete ==
  ASSUME TypedControl, DocInv, CompleteInv, NEW c \in Client, IndexRev(c) PROVE CompleteInv'
<1> SUFFICES ASSUME history PROVE CompleteInv'
  BY IndexerAlone DEF CompleteInv, pageVars
<1>1. /\ TypeOK /\ Alone(c) /\ UNCHANGED <<pageVars, got>> /\ ControlInv
      /\ stage[c] = "index" /\ database = c /\ stage' = stage /\ partial' = partial
      /\ todo[c] # {}
  BY IndexerAlone DEF IndexRev
<1>2. \A d \in Client \ {c} : stage[d] # "index"
  BY <1>1, InIndexerParts
<1>3. Docs = pending /\ Docs' = pending' /\ \A d : Current(d)' = Current(d)
  BY <1>1, QueueAssumption DEF Docs, IndexRev, Current
<1>4. PICK p \in Page : p = Current(c)
  BY <1>1, CurrentPage
<1>5. PICK k \in todo[c] : k = First(todo[c]) /\ k \in 1..clock /\ \A m \in todo[c] : m <= k
  BY <1>1, TodoFirst
<1>6. /\ RevList(p)' = RevList(p) /\ RevList(p) \subseteq Nat /\ todo[c] \subseteq Nat
      /\ \A n : Time(p, n)' = Time(p, n)
  BY <1>1, SamePage, RevListType DEF pageVars, TypeOK
<1>7. \/ /\ Outdated(p, k) /\ todo'[c] = todo[c] \ {k}
         /\ pending' = (pending \ Of(p, {k}, pending)) \cup {Doc(p, k, Time(p, k))}
      \/ ~Outdated(p, k) /\ todo'[c] = {} /\ pending' = pending
  BY <1>1, <1>4, <1>5 DEF IndexRev, TypeOK
<1>8. ASSUME NEW q, q # p PROVE PageDocs(q, Docs') = PageDocs(q, Docs)
  BY <1>3, <1>7, <1>8 DEF PageDocs, Of, Doc
<1>9. ASSUME p \notin partial \cup reused PROVE Downward(c) /\ Downward(c)'
  <2>1. Downward(c)
    BY <1>1, <1>4, <1>9 DEF CompleteInv
  <2>2. ASSUME NEW n \in todo'[c], NEW m \in RevList(p), m < n PROVE m \in todo'[c]
    <3>1. n \in todo[c] /\ n # k /\ m \in todo[c]
      BY <1>4, <1>7, <2>1, <2>2 DEF Downward
    <3>2. n \in Nat /\ m \in Nat /\ k \in Nat /\ n <= k
      BY <1>5, <1>6, <3>1
    <3>3. m # k
      BY <2>2, <3>2
    <3> QED BY <1>7, <2>2, <3>1, <3>3
  <2> QED BY <1>3, <1>4, <1>6, <2>1, <2>2 DEF Downward
<1>10. ASSUME p \notin partial \cup reused PROVE Complete(p)'
  <2> SUFFICES ASSUME NEW n \in RevList(p), NEW m \in RevList(p), m < n, Indexed(p, n, Docs)'
               PROVE  Indexed(p, m, Docs)' \/ (m \in todo'[c] /\ n \notin todo'[c])
    BY <1>1, <1>3, <1>4, <1>6 DEF Complete, Indexes
  <2>1. /\ \A i : Indexed(p, i, Docs) <=> Doc(p, i, Time(p, i)) \in pending
        /\ \A i : Indexed(p, i, Docs)' <=> Doc(p, i, Time(p, i)) \in pending'
    BY <1>3, <1>6 DEF Indexed
  <2>2. ASSUME NEW i \in RevList(p), NEW j \in RevList(p), j < i,
               Doc(p, i, Time(p, i)) \in pending
        PROVE  Doc(p, j, Time(p, j)) \in pending \/ (j \in todo[c] /\ i \notin todo[c])
    <3>1. Complete(p)
      BY <1>10 DEF CompleteInv
    <3>2. \A d \in Client : Indexes(d, p) => d = c
      BY <1>2 DEF Indexes
    <3> QED BY <2>1, <2>2, <3>1, <3>2 DEF Complete
  <2>3. /\ todo[c] \subseteq RevList(p)
        /\ \A i \in todo[c] : \A j \in RevList(p) : j < i => j \in todo[c]
    <3>1. revs[p] # <<>>
      BY DEF RevList
    <3> QED BY <1>1, <1>4, <1>9, <1>10, <3>1 DEF DocInv, TodoFits, Downward
  <2>4. m \in Nat /\ n \in Nat /\ k \in Nat /\ k \in RevList(p) /\ m # n
    BY <1>5, <1>6, <2>3
  <2>5. CASE Outdated(p, k)
    <3>1. /\ todo'[c] = todo[c] \ {k} /\ Doc(p, k, Time(p, k)) \in pending'
          /\ pending' \subseteq pending \cup {Doc(p, k, Time(p, k))}
          /\ \A i, t : i # k /\ Doc(p, i, t) \in pending => Doc(p, i, t) \in pending'
      BY <1>7, <2>5 DEF Of, Doc
    <3>2. CASE n = k
      BY <1>5, <2>3, <2>4, <3>1, <3>2
    <3>3. CASE n # k
      <4>1. Doc(p, n, Time(p, n)) # Doc(p, k, Time(p, k))
        BY <3>3 DEF Doc
      <4>2. Doc(p, n, Time(p, n)) \in pending
        BY <2>1, <3>1, <4>1
      <4>3. Doc(p, m, Time(p, m)) \in pending \/ (m \in todo[c] /\ n \notin todo[c])
        BY <2>2, <4>2
      <4> QED BY <2>1, <3>1, <4>3
    <3> QED BY <3>2, <3>3
  <2>6. CASE ~Outdated(p, k)
    <3>1. todo'[c] = {} /\ pending' = pending
      BY <1>7, <2>6
    <3>2. Doc(p, k, Time(p, k)) \in pending
      BY <1>1, <1>10, <2>4, <2>6, UpToDateIndexed DEF Indexed
    <3>3. Doc(p, m, Time(p, m)) \in pending \/ m \in todo[c]
      BY <2>1, <2>2, <3>1
    <3>4. m \in todo[c] => m = k \/ m < k
      BY <1>5, <2>4
    <3>5. m \in todo[c] => Doc(p, m, Time(p, m)) \in pending
      BY <1>5, <2>2, <2>4, <3>2, <3>4
    <3> QED BY <2>1, <3>1, <3>3, <3>5
  <2> QED BY <2>5, <2>6
<1>11. \A q : Indexes(c, q) => q = p
  BY <1>4 DEF Indexes
<1>12. \A d \in Client : \A q : Indexes(d, q) => d = c
  BY <1>2 DEF Indexes
<1>13. ASSUME NEW q \in Page \ (partial' \cup reused)
       PROVE  \/ Complete(q)'
              \/ /\ q \notin partial /\ PageDocs(q, Docs') = PageDocs(q, Docs)
                 /\ \A d \in Client : ~Indexes(d, q)
  BY <1>1, <1>8, <1>10, <1>11, <1>12, <1>13
<1>14. ASSUME NEW d \in Client, stage'[d] = "index"
       PROVE  Current(d)' \in partial' \cup reused \/ Downward(d)'
  BY <1>1, <1>2, <1>3, <1>4, <1>9, <1>14
<1> QED BY <1>1, <1>13, <1>14, CompleteKept

LEMMA CompleteStep ==
  TypedControl /\ DocInv /\ CompleteInv /\ [SNext]_vars => CompleteInv'
<1> SUFFICES ASSUME TypedControl, DocInv, CompleteInv, [SNext]_vars PROVE CompleteInv'
  OBVIOUS
<1>1. CASE UNCHANGED vars \/ Expires
  <2>1. /\ UNCHANGED <<pageVars, docVars, stage, got, partial>>
    BY <1>1 DEF vars, queueVars, pageVars, docVars, Expires, Expire
  <2>2. Docs' = Docs /\ \A d : Current(d)' = Current(d)
    BY <2>1 DEF Docs, docVars, Current
  <2>3. \A d \in Client : \A p : Indexes(d, p)' = Indexes(d, p)
    BY <2>1, <2>2 DEF Indexes
  <2> QED BY <2>1, <2>2, <2>3, CompleteKept DEF docVars
<1>2. CASE SNext
  BY <1>1, <1>2, StepKinds, BeginsComplete, QueueComplete, StagesComplete, IndexRevComplete,
     EndComplete
<1> QED BY <1>1, <1>2

LEMMA CompleteInit == SInit => CompleteInv
<1> SUFFICES ASSUME SInit PROVE CompleteInv
  OBVIOUS
<1>1. \A p \in Page : RevList(p) = {}
  BY DEF SInit, RevList
<1> QED BY <1>1 DEF SInit, CompleteInv, Complete

\* At rest the newest revision is in the index, and so is what is below it.
LEMMA CompleteImplies == TypedControl /\ AttendInv /\ CompleteInv => HistoryComplete
<1> SUFFICES ASSUME TypedControl, AttendInv, CompleteInv, history, AtRest, Content = <<>>,
                    NEW p \in Page \ (forgotten \cup partial \cup reused), NEW n \in RevList(p)
             PROVE  Doc(p, n, Time(p, n)) \in index
  BY DEF HistoryComplete
<1>1. TypeOK /\ ControlInv /\ \A c \in Client : stage[c] = "idle"
  BY DEF TypedControl, AtRest
<1>2. Docs = index
  <2>1. \A c \in Client : database # c
    BY <1>1, InIndexerParts
  <2>2. database = NoClient
    BY <1>1, <2>1 DEF TypeOK
  <2> QED BY <2>2 DEF Docs
<1>3. ~Waits(p)
  <2>1. p \notin ToSet(Content)
    BY DEF ToSet
  <2>2. \A c \in Client : agenda[c] = <<>>
    BY <1>1 DEF ControlInv, Control
  <2> QED BY <2>1, <2>2 DEF Waits, ToPut
<1>4. \A c \in Client : ~Handles(c, p) /\ ~Indexes(c, p)
  BY <1>1 DEF Handles, Indexes
<1>5. Indexed(p, Top(p), Docs)
  BY <1>3, <1>4 DEF AttendInv, TopIndexed
<1>6. Top(p) \in RevList(p) /\ n <= Top(p) /\ RevList(p) \subseteq Nat
  BY <1>1, TopOf, RevListType
<1>7. CASE n = Top(p)
  BY <1>2, <1>5, <1>7 DEF Indexed
<1>8. CASE n # Top(p)
  <2>1. n < Top(p)
    BY <1>6, <1>8
  <2>2. Indexed(p, n, Docs)
    BY <1>4, <1>5, <1>6, <2>1 DEF CompleteInv, Complete
  <2> QED BY <1>2, <2>2 DEF Indexed
<1> QED BY <1>7, <1>8

\* With history, whenever no request is at work and the queue is empty, every revision of every
\* page has its document, with its time, in the index, although each update stops at the first
\* revision it finds up to date.  Excepted are the pages that are forgotten, those of which an
\* update failed half way, and the names taken while documents of a former page were still there.
THEOREM IndexHistoryComplete == SSpec => []HistoryComplete
<1>1. SInit => TypedControl /\ DocInv /\ AttendWork /\ CompleteInv
  BY TypedControlInit, IndexInit, CompleteInit
<1>2. /\ TypedControl /\ DocInv /\ AttendWork /\ CompleteInv /\ [SNext]_vars
      => (TypedControl /\ DocInv /\ AttendWork /\ CompleteInv)'
  BY TypedControlStep, DocStep, AttendStep, CompleteStep
<1>3. TypedControl /\ AttendWork /\ CompleteInv => HistoryComplete
  BY CompleteImplies DEF AttendWork
<1> QED BY <1>1, <1>2, <1>3, PTL DEF SSpec
------------------------------------------------------------------------------
(* The queue, as the requests use it. *)

\* A step of the search index is one of the queue, or leaves the queue alone apart from
\* counting an error, or is the death of a request, which need not be using the queue.
LEMMA QueueUse ==
  ASSUME TypedControl, [SNext]_vars
  PROVE  \/ [Next]_queueVars
         \/ QueueUnused /\ Faulty
         \/ \E c \in Client : Die(c)
<1>1. TypeOK /\ ControlInv
  BY DEF TypedControl
<1>2. CASE UNCHANGED vars
  BY <1>2 DEF vars, queueVars
<1>3. CASE Expires
  BY <1>3 DEF Expires, Next
<1>4. ASSUME NEW c \in Client, Begins(c) PROVE UNCHANGED queueVars
  BY <1>4, BeginsWaits
<1>5. ASSUME NEW c \in Client, Put(c) PROVE Next
  <2>1. PutOf(agenda[c][1]) \in Ops
    BY <1>1, <1>5, AgendaFirst DEF Put
  <2>2. \/ Enter(c, PutOf(agenda[c][1])) \/ EnterBlind(c, PutOf(agenda[c][1]))
        \/ TimesOut(c) \/ Leave(c)
    BY <1>5 DEF Put
  <2> QED BY <2>1, <2>2 DEF Next, Step
<1>6. ASSUME NEW c \in Client, Take(c) PROVE Next \/ UNCHANGED queueVars
  <2>1. \/ Enter(c, Get) \/ EnterBlind(c, Get) \/ TimesOut(c) \/ Leave(c) \/ UNCHANGED queueVars
    BY <1>6 DEF Take
  <2> QED BY <2>1, GetIsOp DEF Next, Step
<1>7. ASSUME NEW c \in Client, Write(c) PROVE Next
  BY <1>7 DEF Write, Next, Step
<1>8. ASSUME NEW c \in Client,
             \/ Connect(c) \/ ReadRevList(c) \/ RemovePage(c) \/ CheckExists(c) \/ IndexRev(c)
             \/ RemoveRevs(c)
      PROVE  UNCHANGED queueVars
  BY <1>8 DEF Connect, ReadRevList, RemovePage, CheckExists, IndexRev, RemoveRevs
<1>9. ASSUME NEW c \in Client, IndexFails(c) \/ Close(c)
      PROVE  UNCHANGED queueVars \/ (QueueUnused /\ Faulty)
  BY <1>9 DEF IndexFails, Close
<1>10. ASSUME NEW c \in Client, Crash(c) PROVE Die(c)
  BY <1>10 DEF Crash
<1> QED BY <1>2, <1>3, <1>4, <1>5, <1>6, <1>7, <1>8, <1>9, <1>10, StepKinds

LEMMA QueueUseMaps ==
  ASSUME TypedControl, IInv, [SNext]_vars
  PROVE  IInv' /\ [AtomicQueue!Next]_(AtomicQueue!vars)
<1>1. CASE [Next]_queueVars
  BY <1>1, StepInv, Simulation
<1>2. CASE QueueUnused /\ Faulty
  <2>1. QueueTypeOK'
    BY <1>2, QueueAssumption DEF QueueUnused, Faulty, IInv, QueueTypeOK
  <2>2. AloneAtWork' /\ IdleSees'
    BY <1>2 DEF QueueUnused, IInv, AloneAtWork, IdleSees, Content
  <2>3. UNCHANGED <<Content, got, losses, locking>>
    BY <1>2 DEF QueueUnused, Content
  <2> QED BY <2>1, <2>2, <2>3, HiddenStep DEF IInv
<1>3. ASSUME NEW c \in Client, Die(c) PROVE IInv' /\ UNCHANGED AtomicQueue!vars
  <2>1. QueueTypeOK'
    BY <1>3, DieTyped DEF TypedControl
  <2>2. AloneAtWork'
    BY <1>3, ExitAlone DEF Die
  <2>3. IdleSees'
    BY <1>3 DEF Die, Forget, IInv, IdleSees, QueueTypeOK
  <2>4. UNCHANGED <<Content, got, losses, locking>>
    BY <1>3 DEF Die, Content
  <2> QED BY <2>1, <2>2, <2>3, <2>4, HiddenStep DEF IInv
<1> QED BY <1>1, <1>2, <1>3, QueueUse

\* The requests that put jobs and update the index, with their errors and deaths at any point,
\* use the queue so that, where its lock is real, it stays the atomic queue it is by itself.
THEOREM IndexUsesAtomicQueue == SSpec => ImplementsQueue
<1>1. ImplementsQueue <=> AtomicQueue!Init /\ [][AtomicQueue!Next]_(AtomicQueue!vars)
  BY DEF ImplementsQueue, AtomicQueue!Spec
<1>2. SInit => Init
  BY DEF SInit
<1>3. TypedControl /\ IInv /\ [SNext]_vars => IInv' /\ [AtomicQueue!Next]_(AtomicQueue!vars)
  BY QueueUseMaps
<1> QED BY <1>1, <1>2, <1>3, TypedControlInit, TypedControlStep, InitInv, InitMaps, PTL DEF SSpec
=============================================================================
