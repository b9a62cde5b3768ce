--------------------------- MODULE PageStoreProofs ---------------------------
(***************************************************************************)
(* Theorems about PageStore, for any set of writers and any bounds.        *)
(*                                                                         *)
(* TypeCorrect comes first.  LockInv strengthens SingleToken to an         *)
(* inductive invariant: it also says who may be creating the page, and     *)
(* that a number read from `current-locked` stays readable.  The last part *)
(* shows that PageStore implements RevisionHistory: every file operation   *)
(* is one step of the abstract page, or none.                              *)
(***************************************************************************)
EXTENDS PageStore, TLAPS

------------------------------------------------------------------------------
(* Records. *)

\* A writer outside _write_file has a job record too.
LEMMA NoJobType == NoJob \in Job
BY ConstantsAssumption DEF NoJob, Job

\* The record a new save is described by.
LEMMA NewJobType ==
  ASSUME NEW id \in 1..MaxSaves, NEW kind \in Kinds, NEW depr \in BOOLEAN,
         NEW was \in BOOLEAN
  PROVE  [id |-> id, depr |-> depr, deleted |-> kind.deleted,
          backup |-> kind.backup, wasDepr |-> was] \in Job
<1>1. kind.deleted \in BOOLEAN /\ kind.backup \in BOOLEAN
  BY DEF Kinds
<1>2. id \in 0..MaxSaves
  BY ConstantsAssumption
<1>3. QED
  BY <1>1, <1>2 DEF Job

\* The components of a job, for steps that need one of them.
LEMMA JobFields ==
  ASSUME NEW j \in Job
  PROVE  /\ j.id \in 0..MaxSaves /\ j.depr \in BOOLEAN /\ j.deleted \in BOOLEAN
         /\ j.backup \in BOOLEAN /\ j.wasDepr \in BOOLEAN
BY DEF Job

\* The processing-instruction test that _write_file starts with is a Boolean.
LEMMA ReadsDeprecatedType ==
  ASSUME DiskTypeOK PROVE ReadsDeprecated \in BOOLEAN
BY DEF DiskTypeOK, ReadsDeprecated, RevisionFile

\* What a writer inside _write_file puts into files, logs and receipts.
LEMMA WriterRecords ==
  ASSUME DiskTypeOK, WriterTypeOK, NEW w \in Writers, pc[w] # "idle",
         NEW whole \in BOOLEAN
  PROVE  /\ FileOf(w, whole) \in RevisionFile
         /\ Line(w) \in LogLine
         /\ Receipt(w) \in Receipts
<1>1. job[w] \in Job /\ rev[w] \in Nat /\ job[w].id \in 1..MaxSaves
  BY JobFields, ConstantsAssumption DEF WriterTypeOK
<1>2. (rev[w] \in DOMAIN revisions
        /\ (revisions[rev[w]].id # job[w].id \/ revisions[rev[w]].inplace))
       \in BOOLEAN
  BY DEF DiskTypeOK, RevisionFile
<1>3. FileOf(w, whole) \in RevisionFile
  BY <1>1, <1>2, JobFields DEF FileOf, RevisionFile
<1>4. Line(w) \in LogLine
  BY <1>1 DEF Line, LogLine
<1>5. Fresh(job[w]) \in BOOLEAN
  BY <1>1, JobFields DEF Fresh
<1>6. Receipt(w) \in Receipts
  BY <1>1, <1>5, JobFields DEF Receipt, Receipts
<1>7. QED
  BY <1>3, <1>4, <1>6

\* Writing one file keeps the directory a partial function of its type.
LEMMA PutType ==
  ASSUME DiskTypeOK, NEW r \in Nat, NEW f \in RevisionFile,
         revisions' = Put(revisions, r, f)
  PROVE  /\ DOMAIN revisions' = DOMAIN revisions \cup {r}
         /\ DOMAIN revisions' \subseteq Nat
         /\ revisions' = [x \in DOMAIN revisions' |-> revisions'[x]]
         /\ \A x \in DOMAIN revisions' : revisions'[x] \in RevisionFile
         /\ revisions'[r] = f
         /\ \A x \in DOMAIN revisions \ {r} : revisions'[x] = revisions[x]
BY DEF DiskTypeOK, Put

------------------------------------------------------------------------------
(* Control. *)

\* Leaving _write_file, normally or by an exception, keeps the types.
LEMMA LeaveType ==
  ASSUME WriterTypeOK, NEW w \in Writers, Leave(w) PROVE WriterTypeOK'
<1>1. pc' \in [Writers -> PCs] /\ rev' \in [Writers -> Nat]
      /\ err' \in [Writers -> BOOLEAN]
  BY DEF WriterTypeOK, Leave, Goto, PCs
<1>2. job' \in [Writers -> Job]
  BY NoJobType DEF WriterTypeOK, Leave
<1>3. retry' \in [Writers -> 0..(MaxRetry - 1)]
  BY ConstantsAssumption DEF WriterTypeOK, Leave
<1>4. \A v \in Writers : pc'[v] # "idle" => job'[v].id # 0
  BY DEF WriterTypeOK, Leave, Goto
<1>5. QED
  BY <1>1, <1>2, <1>3, <1>4 DEF WriterTypeOK

\* So does an exception that enters the `finally` block.
LEMMA FailType ==
  ASSUME WriterTypeOK, NEW w \in Writers, pc[w] # "idle", Fail(w)
  PROVE  WriterTypeOK'
BY DEF WriterTypeOK, Fail, Goto, PCs

\* A step that only moves the program counter of a running writer.
LEMMA GotoType ==
  ASSUME WriterTypeOK, NEW w \in Writers, pc[w] # "idle",
         NEW label \in PCs, Goto(w, label), UNCHANGED <<job, rev, retry, err>>
  PROVE  WriterTypeOK'
BY DEF WriterTypeOK, Goto
------------------------------------------------------------------------------
(* Type correctness. *)

\* The types hold before any save.
LEMMA InitType == Init => TypeOK
<1> SUFFICES ASSUME Init PROVE TypeOK
  OBVIOUS
<1>1. DiskTypeOK
  <2>1. /\ DOMAIN revisions = {}
        /\ revisions = [r \in DOMAIN revisions |-> revisions[r]]
    BY DEF Init
  <2>2. glog \in Seq(LogLine) /\ llog \in Seq(LogLine)
    BY DEF Init
  <2>3. QED
    BY <2>1, <2>2, ConstantsAssumption DEF Init, DiskTypeOK, FileContent
<1>2. WriterTypeOK
  BY NoJobType, ConstantsAssumption DEF Init, WriterTypeOK, PCs
<1>3. HistoryTypeOK
  BY ConstantsAssumption DEF Init, HistoryTypeOK
<1>4. QED
  BY <1>1, <1>2, <1>3 DEF TypeOK

\* Every step keeps the types, action by action.
LEMMA TypeStep == TypeOK /\ [Next]_vars => TypeOK'
<1> SUFFICES ASSUME TypeOK, [Next]_vars PROVE TypeOK'
  OBVIOUS
<1> USE DEF TypeOK
<1>1. ASSUME UNCHANGED disk PROVE DiskTypeOK'
  BY <1>1 DEF DiskTypeOK, disk
<1>2. ASSUME UNCHANGED history PROVE HistoryTypeOK'
  BY <1>2 DEF HistoryTypeOK, history
<1>3. ASSUME NEW w \in Writers, NEW kind \in Kinds, NEW depr \in BOOLEAN,
             Begin(w, kind, depr)
      PROVE  TypeOK'
  <2>1. serial + 1 \in 1..MaxSaves /\ serial' = serial + 1
    BY <1>3, ConstantsAssumption DEF Begin, HistoryTypeOK
  <2>2. HistoryTypeOK'
    BY <1>3, <2>1 DEF Begin, HistoryTypeOK
  <2>3. job'[w] \in Job /\ job'[w].id = serial + 1 /\ job' \in [Writers -> Job]
    BY <1>3, <2>1, NewJobType, ReadsDeprecatedType DEF Begin, WriterTypeOK
  <2>4. WriterTypeOK'
    <3>1. pc' \in [Writers -> PCs] /\ UNCHANGED <<rev, retry, err>>
      BY <1>3 DEF Begin, Goto, WriterTypeOK, PCs
    <3>2. \A v \in Writers \ {w} : pc'[v] = pc[v] /\ job'[v] = job[v]
      BY <1>3 DEF Begin, Goto, WriterTypeOK
    <3>3. job'[w].id # 0
      BY <2>1, <2>3, ConstantsAssumption DEF HistoryTypeOK
    <3>4. QED
      BY <2>3, <3>1, <3>2, <3>3 DEF WriterTypeOK
  <2>5. QED
    BY <1>1, <1>3, <2>2, <2>4 DEF Begin
<1>4. ASSUME NEW w \in Writers, CheckDir(w) PROVE TypeOK'
  <2>1. WriterTypeOK'
    BY <1>4, GotoType DEF CheckDir, PCs
  <2>2. QED
    BY <1>1, <1>2, <1>4, <2>1 DEF CheckDir
<1>5. ASSUME NEW w \in Writers, MakeDir(w) PROVE TypeOK'
  <2>1. WriterTypeOK'
    BY <1>5, GotoType, LeaveType DEF MakeDir, PCs
  <2>2. DiskTypeOK'
    BY <1>5 DEF MakeDir, DiskTypeOK
  <2>3. QED
    BY <1>2, <1>5, <2>1, <2>2 DEF MakeDir
<1>6. ASSUME NEW w \in Writers, OpenCurrent(w) PROVE TypeOK'
  <2>1. WriterTypeOK'
    BY <1>6, GotoType DEF OpenCurrent, PCs
  <2>2. DiskTypeOK'
    BY <1>6 DEF OpenCurrent, DiskTypeOK, FileContent
  <2>3. QED
    BY <1>2, <1>6, <2>1, <2>2 DEF OpenCurrent
<1>7. ASSUME NEW w \in Writers, FlushCurrent(w) PROVE TypeOK'
  <2>1. WriterTypeOK'
    BY <1>7, GotoType DEF FlushCurrent, PCs
  <2>2. DiskTypeOK'
    BY <1>7 DEF FlushCurrent, DiskTypeOK, FileContent
  <2>3. QED
    BY <1>2, <1>7, <2>1, <2>2 DEF FlushCurrent
<1>8. ASSUME NEW w \in Writers, TryLock(w) PROVE TypeOK'
  <2>1. CASE Goto(w, "read") /\ UNCHANGED <<job, rev, retry, err>>
    BY <1>2, <1>8, <2>1, GotoType, ConstantsAssumption
    DEF TryLock, PCs, DiskTypeOK, FileContent
  <2>2. CASE /\ ~GivesUp(w) /\ retry' = [retry EXCEPT ![w] = Tries(w)]
             /\ UNCHANGED <<current, locked, pc, job, rev, err>>
    BY <1>1, <1>2, <1>8, <2>2, ConstantsAssumption
    DEF TryLock, GivesUp, Tries, WriterTypeOK, disk
  <2>3. CASE Leave(w) /\ UNCHANGED <<current, locked>>
    BY <1>1, <1>2, <1>8, <2>3, LeaveType DEF TryLock, disk
  <2>4. QED
    BY <1>8, <2>1, <2>2, <2>3 DEF TryLock
<1>9. ASSUME NEW w \in Writers, ReadRev(w) PROVE TypeOK'
  <2>1. ASSUME locked \in Nat, rev' = [rev EXCEPT ![w] = NextRev(job[w], locked)],
               Goto(w, "tmp"), UNCHANGED <<job, retry, err>>, pc[w] = "read"
        PROVE  WriterTypeOK'
    <3>1. NextRev(job[w], locked) \in Nat
      BY <2>1 DEF NextRev
    <3>2. QED
      BY <2>1, <3>1 DEF WriterTypeOK, Goto, PCs
  <2>2. WriterTypeOK'
    BY <1>9, <2>1, FailType DEF ReadRev
  <2>3. QED
    BY <1>1, <1>2, <1>9, <2>2 DEF ReadRev
<1>10. ASSUME NEW w \in Writers, WriteTmp(w) PROVE TypeOK'
  <2>1. WriterTypeOK'
    BY <1>10, GotoType DEF WriteTmp, PCs
  <2>2. DiskTypeOK'
    BY <1>10 DEF WriteTmp, DiskTypeOK, WriterTypeOK, FileContent
  <2>3. QED
    BY <1>2, <1>10, <2>1, <2>2 DEF WriteTmp
<1>11. ASSUME NEW w \in Writers, SwapTmp(w) PROVE TypeOK'
  <2>1. WriterTypeOK'
    BY <1>11, GotoType DEF SwapTmp, AfterSwap, PCs
  <2>2. DiskTypeOK'
    BY <1>11, ConstantsAssumption DEF SwapTmp, DiskTypeOK, FileContent
  <2>3. QED
    BY <1>2, <1>11, <2>1, <2>2 DEF SwapTmp
<1>12. ASSUME NEW w \in Writers, TruncateRevision(w) PROVE TypeOK'
  <2>1. WriterTypeOK'
    BY <1>12, GotoType DEF TruncateRevision, PCs
  <2>2. FileOf(w, FALSE) \in RevisionFile /\ rev[w] \in Nat
    BY <1>12, WriterRecords DEF TruncateRevision, WriterTypeOK
  <2>3. DiskTypeOK'
    BY <1>12, <2>2, PutType DEF TruncateRevision, DiskTypeOK
  <2>4. QED
    BY <1>2, <1>12, <2>1, <2>3 DEF TruncateRevision
<1>13. ASSUME NEW w \in Writers, WriteRevision(w) PROVE TypeOK'
  <2>1. WriterTypeOK'
    BY <1>13, GotoType DEF WriteRevision, PCs
  <2>2. FileOf(w, TRUE) \in RevisionFile /\ rev[w] \in Nat
    BY <1>13, WriterRecords DEF WriteRevision, WriterTypeOK
  <2>3. DiskTypeOK'
    BY <1>13, <2>2, PutType DEF WriteRevision, DiskTypeOK
  <2>4. QED
    BY <1>2, <1>13, <2>1, <2>3 DEF WriteRevision
<1>14. ASSUME NEW w \in Writers, LogGlobal(w) PROVE TypeOK'
  <2>1. WriterTypeOK'
    BY <1>14, GotoType DEF LogGlobal, PCs
  <2>2. Line(w) \in LogLine
    BY <1>14, WriterRecords DEF LogGlobal
  <2>3. DiskTypeOK'
    BY <1>14, <2>2 DEF LogGlobal, DiskTypeOK
  <2>4. QED
    BY <1>2, <1>14, <2>1, <2>3 DEF LogGlobal
<1>15. ASSUME NEW w \in Writers, LogLocal(w) PROVE TypeOK'
  <2>1. WriterTypeOK'
    BY <1>15, GotoType DEF LogLocal, PCs
  <2>2. Line(w) \in LogLine
    BY <1>15, WriterRecords DEF LogLocal
  <2>3. DiskTypeOK'
    BY <1>15, <2>2 DEF LogLocal, DiskTypeOK
  <2>4. QED
    BY <1>2, <1>15, <2>1, <2>3 DEF LogLocal
<1>16. ASSUME NEW w \in Writers, Unlock(w) PROVE TypeOK'
  <2>1. WriterTypeOK'
    BY <1>16, LeaveType DEF Unlock
  <2>2. DiskTypeOK'
    BY <1>16 DEF Unlock, DiskTypeOK, FileContent
  <2>3. Receipt(w) \in Receipts
    BY <1>16, WriterRecords DEF Unlock
  <2>4. HistoryTypeOK'
    BY <1>16, <2>3 DEF Unlock, HistoryTypeOK
  <2>5. QED
    BY <2>1, <2>2, <2>4
<1>17. ASSUME NEW w \in Writers, IOFault(w) PROVE TypeOK'
  <2>1. WriterTypeOK'
    BY <1>17, LeaveType, FailType DEF IOFault, LockedPCs
  <2>2. DiskTypeOK'
    BY <1>17 DEF IOFault, DiskTypeOK, FileContent
  <2>3. HistoryTypeOK'
    BY <1>17, ConstantsAssumption DEF IOFault, HistoryTypeOK
  <2>4. QED
    BY <2>1, <2>2, <2>3
<1>18. ASSUME NEW w \in Writers, Crash(w) PROVE TypeOK'
  <2>1. WriterTypeOK'
    BY <1>18, LeaveType DEF Crash
  <2>2. HistoryTypeOK'
    BY <1>18, ConstantsAssumption DEF Crash, HistoryTypeOK
  <2>3. QED
    BY <1>1, <1>18, <2>1, <2>2 DEF Crash
<1>19. CASE UNCHANGED vars
  BY <1>1, <1>2, <1>19 DEF vars, writer, WriterTypeOK
<1>20. QED
  BY <1>3, <1>4, <1>5, <1>6, <1>7, <1>8, <1>9, <1>10, <1>11, <1>12, <1>13,
     <1>14, <1>15, <1>16, <1>17, <1>18, <1>19 DEF Next, Step

\* Type correctness of the save protocol, for every number of writers.
THEOREM TypeCorrect == Spec => []TypeOK
BY InitType, TypeStep, PTL DEF Spec
------------------------------------------------------------------------------
(* Mutual exclusion. *)

\* What a step of one writer does to the program counters and locals of all.
LEMMA GotoFrame ==
  ASSUME WriterTypeOK, NEW w \in Writers, NEW label \in PCs, Goto(w, label)
  PROVE  pc'[w] = label /\ \A v \in Writers \ {w} : pc'[v] = pc[v]
BY DEF WriterTypeOK, Goto

\* A writer that leaves _write_file is outside afterwards; the others stay put.
LEMMA LeaveFrame ==
  ASSUME WriterTypeOK, NEW w \in Writers, Leave(w)
  PROVE  /\ pc'[w] = "idle" /\ err'[w] = FALSE /\ job'[w] = NoJob
         /\ \A v \in Writers \ {w} :
              /\ pc'[v] = pc[v] /\ err'[v] = err[v]
              /\ job'[v] = job[v] /\ rev'[v] = rev[v]
BY DEF WriterTypeOK, Leave, Goto

\* A writer whose exception enters `finally` goes to the rename back.
LEMMA FailFrame ==
  ASSUME WriterTypeOK, NEW w \in Writers, Fail(w)
  PROVE  /\ pc'[w] = "unlock" /\ err'[w] = TRUE /\ UNCHANGED <<job, rev>>
         /\ \A v \in Writers \ {w} : pc'[v] = pc[v] /\ err'[v] = err[v]
BY DEF WriterTypeOK, Fail, Goto

\* Before any save there is no token and nobody holds it.
LEMMA InitLock == Init => LockInv
BY ConstantsAssumption
DEF Init, LockInv, SingleToken, TmpIsOwn, Holds, LockedPCs

\* One step per action; an action that moves neither the token files nor a
\* writer across one of the borders LockInv is about is covered by <1>1, an
\* exception by <1>2 and <1>3.
LEMMA LockStep == TypeOK /\ LockInv /\ [Next]_vars => LockInv'
<1> SUFFICES ASSUME TypeOK, LockInv, [Next]_vars PROVE LockInv'
  OBVIOUS
<1> USE ConstantsAssumption
    DEF TypeOK, LockInv, SingleToken, TmpIsOwn, Holds, LockedPCs, disk, history
<1>1. ASSUME NEW w \in Writers, NEW from \in PCs, NEW to \in PCs,
             pc[w] = from, Goto(w, to),
             UNCHANGED <<revdir, current, locked, tmp, rev, crashes>>,
             Holds(w) <=> to \in LockedPCs,
             from \in {"read", "unlock", "idle", "check", "lock"}
               => to \in {"unlock", "check", "lock", "mkdir"},
             to \notin {"open", "flush", "swap"}
      PROVE  LockInv'
  <2>1. pc'[w] = to /\ \A v \in Writers \ {w} : pc'[v] = pc[v]
    BY <1>1, GotoFrame
  <2>2. QED
    BY <1>1, <2>1
<1>2. ASSUME NEW w \in Writers, Leave(w), ~Holds(w),
             UNCHANGED <<revdir, current, locked, tmp, crashes>>
      PROVE  LockInv'
  <2>1. pc'[w] = "idle"
        /\ \A v \in Writers \ {w} : pc'[v] = pc[v] /\ rev'[v] = rev[v]
    BY <1>2, LeaveFrame
  <2>2. QED
    BY <1>2, <2>1
<1>3. ASSUME NEW w \in Writers, Holds(w), Fail(w),
             UNCHANGED <<revdir, current, locked, crashes>>
      PROVE  LockInv'
  <2>1. pc'[w] = "unlock" /\ UNCHANGED rev
        /\ \A v \in Writers \ {w} : pc'[v] = pc[v]
    BY <1>3, FailFrame
  <2>2. QED
    BY <1>3, <2>1
<1>4. ASSUME NEW w \in Writers, NEW kind \in Kinds, NEW depr \in BOOLEAN,
             Begin(w, kind, depr)
      PROVE  LockInv'
  BY <1>1, <1>4 DEF Begin, PCs
<1>5. ASSUME NEW w \in Writers, CheckDir(w) PROVE LockInv'
  <2>1. /\ pc[w] = "check" /\ UNCHANGED <<revdir, current, locked, tmp, rev, crashes>>
        /\ Goto(w, "lock") \/ Goto(w, "mkdir")
    BY <1>5 DEF CheckDir
  <2>2. {"check", "lock", "mkdir"} \subseteq PCs
    BY DEF PCs
  <2> QED BY <1>1, <2>1, <2>2
<1>6. ASSUME NEW w \in Writers, MakeDir(w) PROVE LockInv'
  <2>1. CASE ~revdir
    <3>1. pc'[w] = "open" /\ \A v \in Writers \ {w} : pc'[v] = pc[v]
      BY <1>6, <2>1, GotoFrame DEF MakeDir, PCs
    <3>2. QED
      BY <1>6, <2>1, <3>1 DEF MakeDir
  <2>2. CASE revdir
    BY <1>2, <1>6, <2>2 DEF MakeDir
  <2>3. QED BY <2>1, <2>2
<1>7. ASSUME NEW w \in Writers, OpenCurrent(w) PROVE LockInv'
  <2>1. pc'[w] = "flush" /\ \A v \in Writers \ {w} : pc'[v] = pc[v]
    BY <1>7, GotoFrame DEF OpenCurrent, PCs
  <2>2. QED
    BY <1>7, <2>1 DEF OpenCurrent
<1>8. ASSUME NEW w \in Writers, FlushCurrent(w) PROVE LockInv'
  <2>1. pc'[w] = "lock" /\ \A v \in Writers \ {w} : pc'[v] = pc[v]
    BY <1>8, GotoFrame DEF FlushCurrent, PCs
  <2>2. /\ current' = Missing <=> current = Missing
        /\ locked' = Missing <=> locked = Missing
        /\ locked \in Nat => locked' = locked
    BY <1>8 DEF FlushCurrent
  <2>3. QED
    BY <1>8, <2>1, <2>2 DEF FlushCurrent
<1>9. ASSUME NEW w \in Writers, TryLock(w) PROVE LockInv'
  <2>1. CASE current # Missing /\ Goto(w, "read")
    <3>1. pc'[w] = "read" /\ \A v \in Writers \ {w} : pc'[v] = pc[v]
      BY <2>1, GotoFrame DEF PCs
    <3>2. locked' # Missing /\ current' = Missing /\ \A v \in Writers : ~Holds(v)
      BY <1>9, <2>1 DEF TryLock
    <3>3. QED
      BY <1>9, <2>1, <3>1, <3>2 DEF TryLock
  <2>2. CASE UNCHANGED <<current, locked, pc, job, rev, err>>
    BY <1>9, <2>2 DEF TryLock
  <2>3. CASE Leave(w) /\ UNCHANGED <<current, locked>>
    BY <1>2, <1>9, <2>3 DEF TryLock
  <2>4. QED
    BY <1>9, <2>1, <2>2, <2>3 DEF TryLock
<1>10. ASSUME NEW w \in Writers, ReadRev(w) PROVE LockInv'
  <2>1. CASE locked \in Nat /\ Goto(w, "tmp")
    <3>1. pc'[w] = "tmp" /\ \A v \in Writers \ {w} : pc'[v] = pc[v]
      BY <2>1, GotoFrame DEF PCs
    <3>2. \A v \in Writers \ {w} : ~Holds(v)
      BY <1>10 DEF ReadRev
    <3>3. QED
      BY <1>10, <2>1, <3>1, <3>2 DEF ReadRev
  <2>2. CASE Fail(w)
    BY <1>3, <1>10, <2>2 DEF ReadRev
  <2>3. QED
    BY <1>10, <2>1, <2>2 DEF ReadRev
<1>11. ASSUME NEW w \in Writers, WriteTmp(w) PROVE LockInv'
  <2>1. pc'[w] = "swap" /\ \A v \in Writers \ {w} : pc'[v] = pc[v]
    BY <1>11, GotoFrame DEF WriteTmp, PCs
  <2>2. \A v \in Writers \ {w} : ~Holds(v)
    BY <1>11 DEF WriteTmp
  <2>3. QED
    BY <1>11, <2>1, <2>2 DEF WriteTmp
<1>12. ASSUME NEW w \in Writers, SwapTmp(w) PROVE LockInv'
  <2>1. pc'[w] \in {"trunc", "glog"} /\ \A v \in Writers \ {w} : pc'[v] = pc[v]
    BY <1>12, GotoFrame DEF SwapTmp, AfterSwap, PCs
  <2>2. \A v \in Writers \ {w} : ~Holds(v)
    BY <1>12 DEF SwapTmp
  <2>3. locked' \in Nat
    BY <1>12 DEF SwapTmp, WriterTypeOK
  <2>4. QED
    BY <1>12, <2>1, <2>2, <2>3 DEF SwapTmp
<1>13. ASSUME NEW w \in Writers, TruncateRevision(w) PROVE LockInv'
  BY <1>1, <1>13 DEF TruncateRevision, PCs
<1>14. ASSUME NEW w \in Writers, WriteRevision(w) PROVE LockInv'
  BY <1>1, <1>14 DEF WriteRevision, PCs
<1>15. ASSUME NEW w \in Writers, LogGlobal(w) PROVE LockInv'
  BY <1>1, <1>15 DEF LogGlobal, PCs
<1>16. ASSUME NEW w \in Writers, LogLocal(w) PROVE LockInv'
  BY <1>1, <1>16 DEF LogLocal, PCs
<1>17. ASSUME NEW w \in Writers, Unlock(w) PROVE LockInv'
  <2>1. pc'[w] = "idle"
        /\ \A v \in Writers \ {w} : pc'[v] = pc[v] /\ rev'[v] = rev[v]
    BY <1>17, LeaveFrame DEF Unlock
  <2>2. \A v \in Writers \ {w} : ~Holds(v)
    BY <1>17 DEF Unlock
  <2>3. \A v \in Writers : pc'[v] # "open" /\ ~(pc'[v] \in LockedPCs)
    BY <1>17, <2>1, <2>2 DEF Unlock
  <2>4. current' # Missing /\ locked' = Missing /\ revdir'
    BY <1>17 DEF Unlock
  <2>5. QED
    BY <1>17, <2>1, <2>3, <2>4 DEF Unlock
<1>18. ASSUME NEW w \in Writers, IOFault(w) PROVE LockInv'
  BY <1>2, <1>3, <1>18 DEF IOFault
<1>19. ASSUME NEW w \in Writers, Crash(w) PROVE LockInv'
  <2>1. pc'[w] = "idle"
        /\ \A v \in Writers \ {w} : pc'[v] = pc[v] /\ rev'[v] = rev[v]
    BY <1>19, LeaveFrame DEF Crash
  <2>2. crashes' > 0
    BY <1>19 DEF Crash, HistoryTypeOK
  <2>3. QED
    BY <1>19, <2>1, <2>2 DEF Crash
<1>20. CASE UNCHANGED vars
  BY <1>20 DEF vars, writer
<1>21. QED
  BY <1>4, <1>5, <1>6, <1>7, <1>8, <1>9, <1>10, <1>11, <1>12, <1>13,
     <1>14, <1>15, <1>16, <1>17, <1>18, <1>19, <1>20 DEF Next, Step
\* The lock invariant holds in every reachable state.
THEOREM LockInvariant == Spec => []LockInv
BY InitType, TypeStep, InitLock, LockStep, PTL DEF Spec

\* Renaming `current` excludes every other writer, and only a dead writer can
\* leave a page locked with nobody inside (_write_file, the retry loop and its
\* `finally`).
THEOREM MutualExclusion == Spec => []SingleToken
<1>1. LockInv => SingleToken
  BY DEF LockInv
<1>2. QED
  BY <1>1, LockInvariant, PTL

\* The number renamed into place is the one its own writer computed.
THEOREM SwapsOwnNumber == Spec => []TmpIsOwn
<1>1. LockInv => TmpIsOwn
  BY DEF LockInv
<1>2. QED
  BY <1>1, LockInvariant, PTL

------------------------------------------------------------------------------
(* Old revisions are never touched. *)

\* Before any save there is no revision and the head is 0.
LEMMA InitRev == Init => RevInv
BY ConstantsAssumption
DEF Init, RevInv, OwnRev, HeadRev, TokenFile, NoJob

\* At most one writer is past the first rename, so what the others know about
\* their own `rev` is only that they have none yet.
LEMMA OthersOutside ==
  ASSUME LockInv, NEW w \in Writers, Holds(w)
  PROVE  \A v \in Writers \ {w} : ~Holds(v)
BY DEF LockInv, SingleToken

\* The number a save will use is the head or the one after it.
LEMMA NextRevBounds ==
  ASSUME NEW j \in Job, NEW n \in Nat
  PROVE  /\ NextRev(j, n) \in {n, n + 1}
         /\ Fresh(j) => NextRev(j, n) = n + 1
         /\ NextRev(j, n) = 0 => j.wasDepr /\ n = 0
BY JobFields DEF NextRev, Fresh

\* Every step keeps the agreement of the head, the owner's number and the files.
LEMMA RevStep == TypeOK /\ LockInv /\ RevInv /\ [Next]_vars => RevInv'
<1> SUFFICES ASSUME TypeOK, LockInv, RevInv, [Next]_vars PROVE RevInv'
  OBVIOUS
<1> USE ConstantsAssumption DEF TypeOK, disk, history
<1>1. ASSUME NEW w \in Writers, NEW to \in PCs, Goto(w, to), ~Holds(w),
             to \notin LockedPCs, UNCHANGED <<job, rev, err, revisions>>,
             HeadRev' = HeadRev, UNCHANGED locked, pc[w] # "idle"
      PROVE  RevInv'
  <2>1. pc'[w] = to /\ \A v \in Writers \ {w} : pc'[v] = pc[v]
    BY <1>1, GotoFrame
  <2>2. \A v \in Writers : OwnRev(v)'
    BY <1>1, <2>1 DEF RevInv, OwnRev, NextRev, Holds, LockedPCs
  <2>3. QED
    BY <1>1, <2>1, <2>2 DEF RevInv, LockedPCs
<1>2. ASSUME NEW w \in Writers, Leave(w), UNCHANGED revisions,
             HeadRev' = HeadRev,
             \A v \in Writers \ {w} : Holds(v) => UNCHANGED <<locked, tmp>>
      PROVE  RevInv'
  <2>1. /\ pc'[w] = "idle" /\ err'[w] = FALSE /\ job'[w] = NoJob
        /\ \A v \in Writers \ {w} :
             /\ pc'[v] = pc[v] /\ err'[v] = err[v]
             /\ job'[v] = job[v] /\ rev'[v] = rev[v]
    BY <1>2, LeaveFrame
  <2>2. \A v \in Writers : OwnRev(v)'
    BY <1>2, <2>1 DEF RevInv, OwnRev, NextRev, Holds, LockedPCs
  <2>3. QED
    BY <1>2, <2>1, <2>2 DEF RevInv
<1>3. ASSUME NEW w \in Writers, Fail(w), Holds(w), UNCHANGED <<revisions, locked>>,
             HeadRev' = HeadRev
      PROVE  RevInv'
  <2>1. /\ pc'[w] = "unlock" /\ err'[w] = TRUE /\ UNCHANGED <<job, rev>>
        /\ \A v \in Writers \ {w} : pc'[v] = pc[v] /\ err'[v] = err[v]
    BY <1>3, FailFrame
  <2>2. \A v \in Writers : OwnRev(v)'
    BY <1>3, <2>1 DEF RevInv, OwnRev, NextRev
  <2>3. QED
    BY <1>3, <2>1, <2>2 DEF RevInv, Holds, LockedPCs
<1>4. ASSUME UNCHANGED <<locked, current>> PROVE HeadRev' = HeadRev
  BY <1>4 DEF HeadRev, TokenFile
<1>5. ASSUME NEW w \in Writers, NEW kind \in Kinds, NEW depr \in BOOLEAN,
             Begin(w, kind, depr)
      PROVE  RevInv'
  <2>1. /\ pc'[w] = "check" /\ \A v \in Writers \ {w} : pc'[v] = pc[v]
        /\ \A v \in Writers \ {w} : job'[v] = job[v]
        /\ job'[w].wasDepr = ReadsDeprecated
    BY <1>5, GotoFrame DEF Begin, PCs, WriterTypeOK
  <2>2. ReadsDeprecated => HeadRev > 0
    <3>1. ASSUME ReadsDeprecated PROVE HeadRev > 0
      <4>1. current \in 1..HeadRev /\ HeadRev \in Nat
        BY <3>1 DEF ReadsDeprecated, RevInv, HeadRev
      <4>2. QED BY <4>1
    <3>2. QED BY <3>1
  <2>3. HeadRev' = HeadRev /\ UNCHANGED <<rev, err, locked, revisions>>
    BY <1>4, <1>5 DEF Begin
  <2>4. \A v \in Writers : OwnRev(v)'
    BY <1>5, <2>1, <2>3 DEF Begin, RevInv, OwnRev, NextRev
  <2>5. QED
    BY <2>1, <2>2, <2>3, <2>4 DEF RevInv
<1>6. ASSUME NEW w \in Writers, CheckDir(w) PROVE RevInv'
  BY <1>1, <1>4, <1>6 DEF CheckDir, PCs, Holds, LockedPCs
<1>7. ASSUME NEW w \in Writers, MakeDir(w) PROVE RevInv'
  BY <1>1, <1>2, <1>4, <1>7 DEF MakeDir, PCs, Holds, LockedPCs
<1>8. ASSUME NEW w \in Writers, OpenCurrent(w) PROVE RevInv'
  <2>1. HeadRev' = HeadRev
    BY <1>8 DEF OpenCurrent, HeadRev, TokenFile, LockInv
  <2>2. QED
    BY <1>1, <1>8, <2>1 DEF OpenCurrent, PCs, Holds, LockedPCs
<1>9. ASSUME NEW w \in Writers, FlushCurrent(w) PROVE RevInv'
  <2>1. HeadRev' = HeadRev
    BY <1>9 DEF FlushCurrent, HeadRev, TokenFile, DiskTypeOK, FileContent
  <2>2. /\ pc'[w] = "lock" /\ \A v \in Writers \ {w} : pc'[v] = pc[v]
    BY <1>9, GotoFrame DEF FlushCurrent, PCs
  <2>3. \A v \in Writers : pc[v] \in LockedPCs \ {"read", "unlock"} => locked' = locked
    BY <1>9 DEF FlushCurrent, LockInv
  <2>4. \A v \in Writers : pc[v] = "unlock" /\ ~err[v] => locked' = locked
    BY <1>9 DEF FlushCurrent, RevInv, OwnRev, WriterTypeOK
  <2>5. \A v \in Writers : OwnRev(v)'
    BY <1>9, <2>2, <2>3, <2>4 DEF FlushCurrent, RevInv, OwnRev, NextRev, LockedPCs
  <2>6. QED
    BY <1>9, <2>1, <2>2, <2>5 DEF FlushCurrent, RevInv
<1>10. ASSUME NEW w \in Writers, TryLock(w) PROVE RevInv'
  <2>1. CASE current # Missing /\ Goto(w, "read") /\ UNCHANGED <<job, rev, retry, err>>
    <3>1. /\ pc'[w] = "read" /\ \A v \in Writers \ {w} : pc'[v] = pc[v]
          /\ UNCHANGED <<job, rev, err, revisions>>
      BY <1>10, <2>1, GotoFrame DEF TryLock, PCs
    <3>2. \A v \in Writers : ~Holds(v)
      BY <1>10, <2>1 DEF TryLock, LockInv, SingleToken
    <3>3. HeadRev' = HeadRev
      BY <1>10, <2>1 DEF TryLock, HeadRev, TokenFile, LockInv, SingleToken
    <3>4. \A v \in Writers : OwnRev(v)'
      BY <3>1, <3>2, <1>10 DEF RevInv, OwnRev, Holds, LockedPCs, TryLock
    <3>5. QED
      BY <1>10, <3>1, <3>3, <3>4 DEF RevInv, TryLock
  <2>2. CASE UNCHANGED <<current, locked, pc, job, rev, err>>
    BY <1>4, <1>10, <2>2 DEF TryLock, RevInv, OwnRev, NextRev
  <2>3. CASE Leave(w) /\ UNCHANGED <<current, locked>>
    BY <1>2, <1>4, <1>10, <2>3 DEF TryLock
  <2>4. QED
    BY <1>10, <2>1, <2>2, <2>3 DEF TryLock
<1>11. ASSUME NEW w \in Writers, ReadRev(w) PROVE RevInv'
  <2>1. HeadRev' = HeadRev
    BY <1>4, <1>11 DEF ReadRev
  <2>2. CASE Fail(w)
    BY <1>3, <1>11, <2>1, <2>2 DEF ReadRev, Holds, LockedPCs
  <2>3. CASE locked \in Nat /\ rev' = [rev EXCEPT ![w] = NextRev(job[w], locked)]
             /\ Goto(w, "tmp") /\ UNCHANGED <<job, retry, err>>
    <3>1. pc'[w] = "tmp" /\ \A v \in Writers \ {w} : pc'[v] = pc[v]
      BY <2>3, GotoFrame DEF PCs
    <3>2. rev'[w] = NextRev(job[w], locked)
          /\ \A v \in Writers \ {w} : rev'[v] = rev[v]
      BY <2>3 DEF WriterTypeOK
    <3>3. \A v \in Writers : OwnRev(v)'
      BY <1>11, <2>3, <3>1, <3>2 DEF ReadRev, RevInv, OwnRev, NextRev
    <3>4. QED
      BY <1>11, <2>1, <2>3, <3>1, <3>2, <3>3 DEF ReadRev, RevInv
  <2>4. QED
    BY <1>11, <2>2, <2>3 DEF ReadRev
<1>12. ASSUME NEW w \in Writers, WriteTmp(w) PROVE RevInv'
  <2>1. pc'[w] = "swap" /\ \A v \in Writers \ {w} : pc'[v] = pc[v]
    BY <1>12, GotoFrame DEF WriteTmp, PCs
  <2>2. HeadRev' = HeadRev
    BY <1>4, <1>12 DEF WriteTmp
  <2>3. \A v \in Writers : OwnRev(v)'
    BY <1>12, <2>1 DEF WriteTmp, RevInv, OwnRev, NextRev
  <2>4. QED
    BY <1>12, <2>1, <2>2, <2>3 DEF WriteTmp, RevInv
<1>13. ASSUME NEW w \in Writers, SwapTmp(w) PROVE RevInv'
  <2>1. /\ pc'[w] \in {"trunc", "glog"}
        /\ \A v \in Writers \ {w} : pc'[v] = pc[v]
    BY <1>13, GotoFrame DEF SwapTmp, AfterSwap, PCs
  <2>2. \A v \in Writers \ {w} : ~Holds(v)
    BY <1>13, OthersOutside DEF SwapTmp, Holds, LockedPCs
  <2>3. /\ locked \in Nat /\ HeadRev = locked
        /\ rev[w] = NextRev(job[w], locked) /\ rev[w] \in Nat /\ job[w] \in Job
        /\ locked' = rev[w] /\ HeadRev' = rev[w]
    BY <1>13 DEF SwapTmp, LockInv, TmpIsOwn, LockedPCs, RevInv, OwnRev, HeadRev,
                 TokenFile, WriterTypeOK
  <2>4. /\ rev[w] >= locked /\ rev[w] > 0
        /\ Fresh(job[w]) => rev[w] = locked + 1
    <3>1. job[w].wasDepr => locked > 0
      BY <1>13, <2>3 DEF SwapTmp, RevInv
    <3>2. QED
      BY <2>3, <3>1, NextRevBounds
  <2>5. \A v \in Writers : OwnRev(v)'
    BY <1>13, <2>1, <2>2, <2>3, <2>4
    DEF SwapTmp, RevInv, OwnRev, Holds, LockedPCs
  <2>6. DOMAIN revisions \subseteq 1..locked
    BY <2>3 DEF RevInv
  <2>7. DOMAIN revisions \subseteq 1..rev[w]
    BY <2>3, <2>4, <2>6
  <2>8. Fresh(job[w]) => rev[w] \notin DOMAIN revisions
    BY <2>3, <2>4, <2>6
  <2>9. UNCHANGED <<revisions, job, rev>>
    BY <1>13 DEF SwapTmp
  <2>10. \A v \in Writers : pc'[v] # "idle" /\ job[v].wasDepr => rev[w] > 0
    BY <2>4
  <2>11. \A v \in Writers : pc'[v] = "trunc" => v = w
    BY <2>1, <2>2 DEF Holds, LockedPCs
  <2>12. \A v \in Writers : pc'[v] # "body"
    BY <2>1, <2>2 DEF Holds, LockedPCs
  <2>13. QED
    BY <2>3, <2>5, <2>7, <2>8, <2>9, <2>10, <2>11, <2>12 DEF RevInv, Fresh
<1>14. ASSUME NEW w \in Writers, NEW whole \in BOOLEAN, NEW to \in PCs,
              pc[w] \in {"trunc", "body"}, to \in {"body", "glog"}, Goto(w, to),
              revisions' = Put(revisions, rev[w], FileOf(w, whole)),
              UNCHANGED <<current, locked, tmp, job, rev, retry, err>>
       PROVE  RevInv'
  <2>1. pc'[w] = to /\ \A v \in Writers \ {w} : pc'[v] = pc[v]
    BY <1>14, GotoFrame
  <2>2. \A v \in Writers \ {w} : ~Holds(v)
    BY <1>14, OthersOutside DEF Holds, LockedPCs
  <2>3. HeadRev' = HeadRev /\ HeadRev = rev[w] /\ rev[w] > 0 /\ rev[w] \in Nat
    BY <1>4, <1>14 DEF LockInv, LockedPCs, RevInv, OwnRev, HeadRev, TokenFile
  <2>4. FileOf(w, whole) \in RevisionFile /\ FileOf(w, whole).id = job[w].id
    BY <1>14, WriterRecords DEF FileOf
  <2>5. /\ DOMAIN revisions' = DOMAIN revisions \cup {rev[w]}
        /\ revisions'[rev[w]] = FileOf(w, whole)
    BY <1>14, <2>3, <2>4, PutType
  <2>6. DOMAIN revisions' \subseteq 1..HeadRev
    BY <2>3, <2>5 DEF RevInv
  <2>7. \A v \in Writers : OwnRev(v)'
    BY <1>14, <2>1, <2>2 DEF RevInv, OwnRev, NextRev, Holds, LockedPCs
  <2>8. \A v \in Writers : pc'[v] # "trunc"
    BY <1>14, <2>1, <2>2 DEF Holds, LockedPCs
  <2>9. \A v \in Writers : pc'[v] = "body" => v = w
    BY <2>1, <2>2 DEF Holds, LockedPCs
  <2>10. QED
    BY <1>14, <2>1, <2>3, <2>4, <2>5, <2>6, <2>7, <2>8, <2>9 DEF RevInv
<1>15. ASSUME NEW w \in Writers, TruncateRevision(w) PROVE RevInv'
  BY <1>14, <1>15 DEF TruncateRevision, PCs
<1>16. ASSUME NEW w \in Writers, WriteRevision(w) PROVE RevInv'
  BY <1>14, <1>16 DEF WriteRevision, PCs
<1>17. ASSUME NEW w \in Writers, NEW to \in PCs, Goto(w, to),
              <<pc[w], to>> \in {<<"glog", "llog">>, <<"llog", "unlock">>},
              UNCHANGED <<current, locked, revisions, job, rev, err>>
       PROVE  RevInv'
  <2>1. pc'[w] = to /\ \A v \in Writers \ {w} : pc'[v] = pc[v]
    BY <1>17, GotoFrame
  <2>2. HeadRev' = HeadRev
    BY <1>4, <1>17
  <2>3. \A v \in Writers : OwnRev(v)'
    BY <1>17, <2>1 DEF RevInv, OwnRev, NextRev
  <2>4. QED
    BY <1>17, <2>1, <2>2, <2>3 DEF RevInv
<1>18. ASSUME NEW w \in Writers, LogGlobal(w) PROVE RevInv'
  BY <1>17, <1>18 DEF LogGlobal, PCs
<1>19. ASSUME NEW w \in Writers, LogLocal(w) PROVE RevInv'
  BY <1>17, <1>19 DEF LogLocal, PCs
<1>20. ASSUME NEW w \in Writers, Unlock(w) PROVE RevInv'
  <2>1. \A v \in Writers \ {w} : ~Holds(v)
    BY <1>20, OthersOutside DEF Unlock, Holds, LockedPCs
  <2>2. HeadRev' = HeadRev
    BY <1>20 DEF Unlock, HeadRev, TokenFile, LockInv, SingleToken, Holds, LockedPCs
  <2>3. QED
    BY <1>2, <1>20, <2>1, <2>2 DEF Unlock
<1>21. ASSUME NEW w \in Writers, IOFault(w) PROVE RevInv'
  <2>1. HeadRev' = HeadRev
    BY <1>4, <1>21 DEF IOFault
  <2>2. CASE pc[w] \in {"mkdir", "open", "flush", "lock"} /\ Leave(w) /\ UNCHANGED tmp
    BY <1>2, <1>21, <2>1, <2>2 DEF IOFault
  <2>3. CASE pc[w] \in LockedPCs \ {"unlock"} /\ Fail(w)
    BY <1>3, <1>21, <2>1, <2>3 DEF IOFault, Holds
  <2>4. QED
    BY <1>21, <2>2, <2>3 DEF IOFault
<1>22. ASSUME NEW w \in Writers, Crash(w) PROVE RevInv'
  BY <1>2, <1>4, <1>22 DEF Crash
<1>23. CASE UNCHANGED vars
  BY <1>4, <1>23 DEF vars, writer, RevInv, OwnRev, NextRev
<1>24. QED
  BY <1>5, <1>6, <1>7, <1>8, <1>9, <1>10, <1>11, <1>12, <1>13, <1>15, <1>16,
     <1>18, <1>19, <1>20, <1>21, <1>22, <1>23 DEF Next, Step

\* The head and the owner's number agree in every reachable state.
THEOREM RevisionInvariant == Spec => []RevInv
<1>1. Spec => [](TypeOK /\ LockInv)
  BY TypeCorrect, LockInvariant, PTL
<1>2. QED
  BY <1>1, InitRev, RevStep, PTL DEF Spec

\* Only the two halves of writing a revision file touch the directory.
LEMMA OnlyBodyWrites ==
  ASSUME Next, revisions' # revisions
  PROVE  \E w \in Writers, whole \in BOOLEAN :
           /\ pc[w] = IF whole THEN "body" ELSE "trunc"
           /\ revisions' = Put(revisions, rev[w], FileOf(w, whole))
           /\ UNCHANGED <<current, locked, job, rev, err, llog, acked>>
BY DEF Next, Step, Begin, CheckDir, MakeDir, OpenCurrent, FlushCurrent, TryLock,
       ReadRev, WriteTmp, SwapTmp, TruncateRevision, WriteRevision, LogGlobal,
       LogLocal, Unlock, IOFault, Crash, disk, history

\* The stored text of an existing revision changes only under the page's owner,
\* and only by a save that reuses this very number: a save that makes a new
\* revision never finds a file under its number.
THEOREM RevisionsFrozen == Spec => OldRevisionsFrozen
<1>1. TypeOK /\ LockInv /\ RevInv /\ [Next]_vars => [FrozenStep]_revisions
  <2> SUFFICES ASSUME TypeOK, LockInv, RevInv, Next, revisions' # revisions,
                      NEW r \in DOMAIN revisions
               PROVE  \/ r \in DOMAIN revisions' /\ revisions'[r] = revisions[r]
                      \/ \E w \in Writers :
                           /\ Holds(w) /\ rev[w] = r
                           /\ ~Fresh(job[w]) \/ revisions[r].id = job[w].id
    BY DEF FrozenStep, vars, disk
  <2>1. PICK w \in Writers, whole \in BOOLEAN :
           /\ pc[w] = IF whole THEN "body" ELSE "trunc"
           /\ revisions' = Put(revisions, rev[w], FileOf(w, whole))
    BY OnlyBodyWrites
  <2>2. Holds(w)
    BY <2>1 DEF Holds, LockedPCs
  <2>3. CASE r # rev[w]
    BY <2>1, <2>3 DEF Put
  <2>4. CASE r = rev[w]
    BY <2>1, <2>2, <2>4 DEF RevInv
  <2>5. QED
    BY <2>3, <2>4
<1>2. QED
  BY <1>1, TypeCorrect, LockInvariant, RevisionInvariant, PTL
  DEF Spec, OldRevisionsFrozen

------------------------------------------------------------------------------
(* Numbers in the log and in the receipts. *)

\* Before any save nothing is logged or acknowledged.
LEMMA InitLog == Init => LogInv
BY DEF Init, LogInv, LocalLogIncreasing, NumbersUnique, Numbered

\* Only SwapTmp puts a number on disk; a writer that has put it there keeps its
\* job and its number until it leaves.
LEMMA NumberedFrame ==
  ASSUME TypeOK, RevInv, Next, NEW v \in Writers, Numbered(v)'
  PROVE  \/ SwapTmp(v)
         \/ Numbered(v) /\ job'[v] = job[v] /\ rev'[v] = rev[v]
            /\ (pc[v] = "unlock" => pc'[v] = "unlock")
<1> USE DEF TypeOK, Numbered, disk, history
<1>1. ASSUME NEW w \in Writers, NEW to \in PCs, Goto(w, to),
             UNCHANGED <<job, rev, err>>, <<pc[w], to>> \in
               {<<"check", "lock">>, <<"check", "mkdir">>, <<"mkdir", "open">>,
                <<"open", "flush">>, <<"flush", "lock">>, <<"lock", "read">>,
                <<"tmp", "swap">>, <<"trunc", "body">>, <<"body", "glog">>,
                <<"glog", "llog">>, <<"llog", "unlock">>}
      PROVE  Numbered(v) /\ job'[v] = job[v] /\ rev'[v] = rev[v]
             /\ (pc[v] = "unlock" => pc'[v] = "unlock")
  <2>1. pc'[w] = to /\ \A u \in Writers \ {w} : pc'[u] = pc[u]
    BY <1>1, GotoFrame
  <2>2. QED
    BY <1>1, <2>1 DEF RevInv, OwnRev
<1>2. ASSUME NEW w \in Writers, Leave(w)
      PROVE  Numbered(v) /\ job'[v] = job[v] /\ rev'[v] = rev[v]
             /\ (pc[v] = "unlock" => pc'[v] = "unlock")
  <2>1. /\ pc'[w] = "idle"
        /\ \A u \in Writers \ {w} :
              /\ pc'[u] = pc[u] /\ err'[u] = err[u]
              /\ job'[u] = job[u] /\ rev'[u] = rev[u]
    BY <1>2, LeaveFrame
  <2>2. QED
    BY <2>1
<1>3. ASSUME NEW w \in Writers, Fail(w)
      PROVE  Numbered(v) /\ job'[v] = job[v] /\ rev'[v] = rev[v]
             /\ (pc[v] = "unlock" => pc'[v] = "unlock")
  <2>1. /\ pc'[w] = "unlock" /\ err'[w] = TRUE /\ UNCHANGED <<job, rev>>
        /\ \A u \in Writers \ {w} : pc'[u] = pc[u] /\ err'[u] = err[u]
    BY <1>3, FailFrame
  <2>2. QED
    BY <2>1
<1>4. ASSUME NEW w \in Writers, NEW kind \in Kinds, NEW depr \in BOOLEAN,
             Begin(w, kind, depr)
      PROVE  Numbered(v) /\ job'[v] = job[v] /\ rev'[v] = rev[v]
             /\ (pc[v] = "unlock" => pc'[v] = "unlock")
  <2>1. pc'[w] = "check" /\ \A u \in Writers \ {w} : pc'[u] = pc[u]
    BY <1>4, GotoFrame DEF Begin, PCs
  <2>2. QED
    BY <1>4, <2>1 DEF Begin, WriterTypeOK
<1>5. ASSUME NEW w \in Writers, CheckDir(w) \/ MakeDir(w) \/ OpenCurrent(w)
                \/ FlushCurrent(w) \/ WriteTmp(w)
      PROVE  Numbered(v) /\ job'[v] = job[v] /\ rev'[v] = rev[v]
             /\ (pc[v] = "unlock" => pc'[v] = "unlock")
  BY <1>1, <1>2, <1>5 DEF CheckDir, MakeDir, OpenCurrent, FlushCurrent,
     WriteTmp, PCs
<1>6. ASSUME NEW w \in Writers, TryLock(w)
      PROVE  Numbered(v) /\ job'[v] = job[v] /\ rev'[v] = rev[v]
             /\ (pc[v] = "unlock" => pc'[v] = "unlock")
  BY <1>1, <1>2, <1>6 DEF TryLock, PCs
<1>7. ASSUME NEW w \in Writers, ReadRev(w)
      PROVE  Numbered(v) /\ job'[v] = job[v] /\ rev'[v] = rev[v]
             /\ (pc[v] = "unlock" => pc'[v] = "unlock")
  <2>1. CASE Goto(w, "tmp") /\ UNCHANGED <<job, retry, err>>
             /\ rev' = [rev EXCEPT ![w] = NextRev(job[w], locked)]
    <3>1. pc'[w] = "tmp" /\ \A u \in Writers \ {w} : pc'[u] = pc[u]
      BY <2>1, GotoFrame DEF PCs
    <3>2. QED
      BY <1>7, <2>1, <3>1 DEF WriterTypeOK
  <2>2. QED
    BY <1>3, <1>7, <2>1 DEF ReadRev
<1>8. ASSUME NEW w \in Writers, SwapTmp(w), v # w
      PROVE  Numbered(v) /\ job'[v] = job[v] /\ rev'[v] = rev[v]
             /\ (pc[v] = "unlock" => pc'[v] = "unlock")
  <2>1. \A u \in Writers \ {w} : pc'[u] = pc[u]
    BY <1>8, GotoFrame DEF SwapTmp, AfterSwap, PCs
  <2>2. QED
    BY <1>8, <2>1 DEF SwapTmp
<1>9. ASSUME NEW w \in Writers, TruncateRevision(w) \/ WriteRevision(w)
                \/ LogGlobal(w) \/ LogLocal(w)
      PROVE  Numbered(v) /\ job'[v] = job[v] /\ rev'[v] = rev[v]
             /\ (pc[v] = "unlock" => pc'[v] = "unlock")
  BY <1>1, <1>9 DEF TruncateRevision, WriteRevision, LogGlobal, LogLocal, PCs
<1>10. ASSUME NEW w \in Writers, Unlock(w) \/ IOFault(w) \/ Crash(w)
       PROVE  Numbered(v) /\ job'[v] = job[v] /\ rev'[v] = rev[v]
              /\ (pc[v] = "unlock" => pc'[v] = "unlock")
  BY <1>2, <1>3, <1>10 DEF Unlock, IOFault, Crash
<1>11. QED
  BY <1>4, <1>5, <1>6, <1>7, <1>8, <1>9, <1>10 DEF Next, Step

\* The head moves only when a number is put on disk.
LEMMA HeadFrame ==
  ASSUME TypeOK, LockInv, Next, ~\E w \in Writers : SwapTmp(w)
  PROVE  HeadRev' = HeadRev
<1> USE ConstantsAssumption DEF HeadRev, TokenFile, disk
<1>1. ASSUME NEW w \in Writers, TryLock(w) PROVE HeadRev' = HeadRev
  BY <1>1 DEF TryLock, LockInv, SingleToken
<1>2. ASSUME NEW w \in Writers, OpenCurrent(w) PROVE HeadRev' = HeadRev
  BY <1>2 DEF OpenCurrent, LockInv
<1>3. ASSUME NEW w \in Writers, FlushCurrent(w) PROVE HeadRev' = HeadRev
  BY <1>3 DEF FlushCurrent, TypeOK, DiskTypeOK, FileContent
<1>4. ASSUME NEW w \in Writers, Unlock(w) PROVE HeadRev' = HeadRev
  BY <1>4 DEF Unlock, LockInv, SingleToken, Holds, LockedPCs
<1>5. CASE UNCHANGED <<current, locked>>
  BY <1>5
<1>6. QED
  BY <1>1, <1>2, <1>3, <1>4, <1>5
  DEF Next, Step, Begin, CheckDir, MakeDir, ReadRev, WriteTmp,
      TruncateRevision, WriteRevision, LogGlobal, LogLocal, IOFault, Crash

\* What a writer that is about to rename its number into place will put there.
LEMMA SwapNumbers ==
  ASSUME TypeOK, LockInv, RevInv, NEW w \in Writers, SwapTmp(w)
  PROVE  /\ HeadRev \in Nat /\ HeadRev' = rev[w] /\ rev[w] >= HeadRev
         /\ Fresh(job[w]) => rev[w] = HeadRev + 1
         /\ UNCHANGED <<job, rev, llog, acked>>
<1>1. /\ locked \in Nat /\ HeadRev = locked
      /\ rev[w] = NextRev(job[w], locked) /\ rev[w] \in Nat /\ job[w] \in Job
      /\ locked' = rev[w] /\ HeadRev' = rev[w]
  BY ConstantsAssumption
  DEF SwapTmp, LockInv, TmpIsOwn, LockedPCs, RevInv, OwnRev, HeadRev,
      TokenFile, TypeOK, WriterTypeOK
<1>2. QED
  BY <1>1, NextRevBounds DEF SwapTmp, history

\* A new log line or receipt carries the head.
LEMMA LogLineIsHead ==
  ASSUME TypeOK, LockInv, RevInv, NEW w \in Writers, Numbered(w)
  PROVE  rev[w] = HeadRev /\ HeadRev \in Nat
BY ConstantsAssumption
DEF Numbered, RevInv, OwnRev, LockInv, SingleToken, Holds, LockedPCs, HeadRev,
    TokenFile, TypeOK, WriterTypeOK

\* The numbers of log lines and receipts are natural numbers.
LEMMA LogNumbers ==
  ASSUME TypeOK, NEW i \in DOMAIN llog PROVE llog[i].rev \in Nat
<1>1. llog[i] \in LogLine
  BY DEF TypeOK, DiskTypeOK
<1>2. QED
  BY <1>1 DEF LogLine

\* Every step keeps the log sorted and the receipts below what comes next.
LEMMA LogStep ==
  TypeOK /\ LockInv /\ RevInv /\ LogInv /\ [Next]_vars => LogInv'
<1> SUFFICES ASSUME TypeOK, LockInv, RevInv, LogInv, [Next]_vars PROVE LogInv'
  OBVIOUS
<1>1. CASE UNCHANGED vars
  BY <1>1 DEF LogInv, LocalLogIncreasing, NumbersUnique, Numbered, HeadRev,
              TokenFile, vars, disk, writer, history
<1>2. ASSUME NEW w \in Writers, SwapTmp(w) PROVE LogInv'
  <2>1. \A v \in Writers : Numbered(v)' => v = w
    <3>1. \A v \in Writers \ {w} : pc'[v] = pc[v] /\ err'[v] = err[v] /\ ~Holds(v)
      BY <1>2, GotoFrame, OthersOutside
      DEF SwapTmp, AfterSwap, PCs, TypeOK, Holds, LockedPCs
    <3>2. QED
      BY <3>1 DEF Numbered, Holds, LockedPCs
  <2>2. /\ \A a \in acked : a.rev <= rev[w] /\ (Fresh(job[w]) => a.rev < rev[w])
        /\ \A i \in DOMAIN llog :
             llog[i].rev <= rev[w] /\ (Fresh(job[w]) => llog[i].rev < rev[w])
    <3>1. \A a \in acked : a.rev \in Nat
      BY DEF TypeOK, HistoryTypeOK, Receipts
    <3>2. \A i \in DOMAIN llog : llog[i].rev \in Nat
      BY LogNumbers
    <3>3. rev[w] \in Nat
      BY DEF TypeOK, WriterTypeOK
    <3>4. QED
      BY <1>2, <3>1, <3>2, <3>3, SwapNumbers DEF LogInv
  <2>3. QED
    BY <1>2, <2>1, <2>2, SwapNumbers
    DEF LogInv, LocalLogIncreasing, NumbersUnique, Fresh
<1>3. ASSUME Next, ~\E w \in Writers : SwapTmp(w) PROVE LogInv'
  <2>1. HeadRev' = HeadRev
    BY <1>3, HeadFrame
  <2>2. \A v \in Writers : Numbered(v)' =>
          Numbered(v) /\ job'[v] = job[v] /\ rev'[v] = rev[v]
          /\ (pc[v] = "unlock" => pc'[v] = "unlock")
    BY <1>3, NumberedFrame
  <2>3. ASSUME UNCHANGED <<llog, acked>> PROVE LogInv'
    BY <2>1, <2>2, <2>3 DEF LogInv, LocalLogIncreasing, NumbersUnique, Fresh
  <2>4. ASSUME NEW w \in Writers, LogLocal(w) PROVE LogInv'
    <3>1. CASE ~Fresh(job[w])
      BY <2>3, <2>4, <3>1 DEF LogLocal, history
    <3>2. CASE Fresh(job[w])
      <4>1. Numbered(w) /\ rev[w] = HeadRev /\ HeadRev \in Nat
        BY <2>4, LogLineIsHead DEF LogLocal, Numbered
      <4>2. /\ llog' = Append(llog, Line(w)) /\ llog \in Seq(LogLine)
            /\ Line(w) \in LogLine /\ Line(w).rev = rev[w] /\ UNCHANGED acked
        BY <2>4, <3>2, WriterRecords
        DEF LogLocal, TypeOK, DiskTypeOK, Line, history
      <4>3. /\ DOMAIN llog' = 1..(Len(llog) + 1) /\ DOMAIN llog = 1..Len(llog)
            /\ Len(llog) \in Nat
            /\ \A i \in DOMAIN llog : llog'[i] = llog[i]
            /\ llog'[Len(llog) + 1] = Line(w)
        BY <4>2
      <4>4. \A i \in DOMAIN llog : llog[i].rev < rev[w] /\ llog[i].rev \in Nat
        BY <2>4, <3>2, <4>1, LogNumbers DEF LogInv, LogLocal
      <4>5. LocalLogIncreasing'
        BY <4>2, <4>3, <4>4 DEF LogInv, LocalLogIncreasing
      <4>6. \A i \in DOMAIN llog' : llog'[i].rev <= HeadRev'
        BY <2>1, <4>1, <4>2, <4>3, <4>4
      <4>7. \A v \in Writers : Numbered(v)' => v = w /\ pc'[v] = "unlock"
        BY <2>2, <2>4, OthersOutside, GotoFrame
        DEF LogLocal, PCs, TypeOK, Holds, LockedPCs, Numbered
      <4>8. QED
        BY <2>1, <2>2, <4>2, <4>5, <4>6, <4>7
        DEF LogInv, NumbersUnique, Fresh
    <3>3. QED
      BY <3>1, <3>2
  <2>5. ASSUME NEW w \in Writers, Unlock(w) PROVE LogInv'
    <3>1. \A v \in Writers : ~Numbered(v)'
      BY <2>2, <2>5, OthersOutside, LeaveFrame
      DEF Unlock, TypeOK, Holds, LockedPCs, Numbered
    <3>2. CASE err[w]
      BY <2>1, <2>5, <3>1, <3>2
      DEF Unlock, LogInv, LocalLogIncreasing, NumbersUnique
    <3>3. CASE ~err[w]
      <4>1. Numbered(w) /\ rev[w] = HeadRev /\ HeadRev \in Nat
        BY <2>5, <3>3, LogLineIsHead DEF Unlock, Numbered
      <4>2. /\ acked' = acked \cup {Receipt(w)} /\ UNCHANGED llog
            /\ Receipt(w).rev = rev[w] /\ Receipt(w).fresh = Fresh(job[w])
        BY <2>5, <3>3 DEF Unlock, Receipt
      <4>3. Fresh(job[w]) => \A a \in acked : a.rev < rev[w] /\ a.rev \in Nat
        BY <4>1 DEF LogInv, TypeOK, HistoryTypeOK, Receipts
      <4>4. NumbersUnique'
        BY <4>1, <4>2, <4>3 DEF LogInv, NumbersUnique
      <4>5. QED
        BY <2>1, <3>1, <4>1, <4>2, <4>4 DEF LogInv, LocalLogIncreasing
    <3>4. QED
      BY <3>2, <3>3, <2>5 DEF TypeOK, WriterTypeOK
  <2>6. QED
    BY <1>3, <2>3, <2>4, <2>5
    DEF Next, Step, Begin, CheckDir, MakeDir, OpenCurrent, FlushCurrent,
        TryLock, ReadRev, WriteTmp, TruncateRevision, WriteRevision, LogGlobal,
        IOFault, Crash, disk, history
<1>4. QED
  BY <1>1, <1>2, <1>3

\* The log and the receipts stay below what the owner is about to use.
THEOREM LogInvariant == Spec => []LogInv
<1>1. Spec => [](TypeOK /\ LockInv /\ RevInv)
  BY TypeCorrect, LockInvariant, RevisionInvariant, PTL
<1>2. QED
  BY <1>1, InitLog, LogStep, PTL DEF Spec

\* Two acknowledged saves that made a revision have different numbers.
THEOREM NumbersAreUnique == Spec => []NumbersUnique
<1>1. LogInv => NumbersUnique
  BY DEF LogInv
<1>2. QED
  BY <1>1, LogInvariant, PTL

\* A page's edit-log is strictly increasing in the revision number.
THEOREM LogIncreases == Spec => []LocalLogIncreasing
<1>1. LogInv => LocalLogIncreasing
  BY DEF LogInv
<1>2. QED
  BY <1>1, LogInvariant, PTL
------------------------------------------------------------------------------
(* Who has the token. *)

\* Only one writer is between the two renames.
LEMMA OwnerAlone ==
  ASSUME LockInv, NEW w \in Writers, Holds(w)
  PROVE  Owner = {w} /\ locked # Missing /\ Token = "held"
BY DEF LockInv, SingleToken, Owner, Token

\* A file called `current` has no owner.
LEMMA OwnerNone ==
  ASSUME LockInv, locked = Missing
  PROVE  Owner = {}
BY DEF LockInv, SingleToken, Owner

\* What a move of one writer does to the set of owners.
LEMMA OwnerMoves ==
  ASSUME WriterTypeOK, NEW w \in Writers, NEW label \in PCs, Goto(w, label)
  PROVE  /\ label \in LockedPCs => Owner' = Owner \cup {w}
         /\ label \notin LockedPCs => Owner' = Owner \ {w}
<1>1. pc'[w] = label /\ \A v \in Writers \ {w} : pc'[v] = pc[v]
  BY GotoFrame
<1> QED BY <1>1 DEF Owner, Holds

\* The same for the two ways an exception moves it.
LEMMA OwnerLeaves ==
  ASSUME WriterTypeOK, NEW w \in Writers, Leave(w)
  PROVE  Owner' = Owner \ {w}
BY OwnerMoves DEF Leave, PCs, LockedPCs

LEMMA OwnerFails ==
  ASSUME WriterTypeOK, NEW w \in Writers, Holds(w), Fail(w)
  PROVE  Owner' = Owner
<1>1. Owner' = Owner \cup {w}
  BY OwnerMoves DEF Fail, PCs, LockedPCs
<1> QED BY <1>1 DEF Owner

------------------------------------------------------------------------------
(* Steps. *)

\* A step that changes neither the files nor the owner does nothing to the page.
LEMMA NothingHappens ==
  ASSUME UNCHANGED <<current, locked, revisions, llog>>, Owner' = Owner
  PROVE  UNCHANGED Abstract!vars
BY DEF Abstract!vars, Token, HeadRev, TokenFile, LoggedRevs

\* Before the first rename.
LEMMA OutsideMaps ==
  ASSUME TypeOK, LockInv, NEW w \in Writers,
         \/ \E kind \in Kinds, depr \in BOOLEAN : Begin(w, kind, depr)
         \/ CheckDir(w) \/ MakeDir(w)
  PROVE  UNCHANGED Abstract!vars
<1>1. UNCHANGED <<current, locked, revisions, llog>>
  BY DEF Begin, CheckDir, MakeDir, disk
<1>2. w \notin Owner
  BY DEF Begin, CheckDir, MakeDir, Owner, Holds, LockedPCs
<1>3. Leave(w) \/ Goto(w, "check") \/ Goto(w, "lock") \/ Goto(w, "mkdir") \/ Goto(w, "open")
  BY DEF Begin, CheckDir, MakeDir
<1>4. Owner' = Owner \ {w}
  BY <1>3, OwnerLeaves, OwnerMoves DEF TypeOK, PCs, LockedPCs
<1> QED BY <1>1, <1>2, <1>4, NothingHappens

\* The creation of `current` is the creation of the page.
LEMMA OpenMaps ==
  ASSUME TypeOK, LockInv, NEW w \in Writers, OpenCurrent(w)
  PROVE  Abstract!Create
<1>1. /\ current = Missing /\ locked = Missing /\ current' = Empty /\ locked' = Missing
      /\ UNCHANGED <<revisions, llog>>
  BY DEF OpenCurrent, LockInv
<1>2. Owner' = Owner
  <2>1. Owner' = Owner \ {w}
    BY OwnerMoves DEF OpenCurrent, TypeOK, PCs, LockedPCs
  <2>2. w \notin Owner
    BY DEF OpenCurrent, Owner, Holds, LockedPCs
  <2> QED BY <2>1, <2>2
<1>3. Token = "absent" /\ Token' = "free" /\ HeadRev' = HeadRev /\ UNCHANGED LoggedRevs
  BY <1>1, ConstantsAssumption DEF Token, HeadRev, TokenFile, LoggedRevs
<1> QED BY <1>1, <1>2, <1>3 DEF Abstract!Create

\* The 0 that arrives late is what an empty file counts as.
LEMMA FlushMaps ==
  ASSUME TypeOK, LockInv, NEW w \in Writers, FlushCurrent(w)
  PROVE  UNCHANGED Abstract!vars
<1>1. Owner' = Owner
  <2>1. Owner' = Owner \ {w}
    BY OwnerMoves DEF FlushCurrent, TypeOK, PCs, LockedPCs
  <2>2. w \notin Owner
    BY DEF FlushCurrent, Owner, Holds, LockedPCs
  <2> QED BY <2>1, <2>2
<1>2. Token' = Token /\ HeadRev' = HeadRev /\ UNCHANGED <<revisions, LoggedRevs>>
  BY ConstantsAssumption
  DEF FlushCurrent, Token, HeadRev, TokenFile, TypeOK, DiskTypeOK, FileContent, LoggedRevs
<1> QED BY <1>1, <1>2 DEF Abstract!vars

\* The rename takes the token; a turn that fails, or the last one, does nothing.
LEMMA LockMaps ==
  ASSUME TypeOK, LockInv, NEW w \in Writers, TryLock(w)
  PROVE  Abstract!Acquire(w) \/ UNCHANGED Abstract!vars
<1>1. w \notin Owner /\ UNCHANGED <<revisions, llog>>
  BY DEF TryLock, Owner, Holds, LockedPCs
<1>2. CASE current # Missing
  <2>1. /\ locked = Missing /\ locked' = current /\ current' = Missing
        /\ Goto(w, "read")
    BY <1>2 DEF TryLock, LockInv, SingleToken
  <2>2. Owner' = {w}
    BY <2>1, OwnerMoves, OwnerNone DEF TypeOK, PCs, LockedPCs
  <2>3. Token = "free" /\ Token' = "held" /\ HeadRev' = HeadRev
    BY <1>2, <2>1 DEF Token, HeadRev, TokenFile
  <2> QED BY <1>1, <2>2, <2>3 DEF Abstract!Acquire, LoggedRevs
<1>3. CASE current = Missing
  <2>1. UNCHANGED <<current, locked>> /\ (UNCHANGED pc \/ Leave(w))
    BY <1>3 DEF TryLock
  <2>2. Owner' = Owner
    BY <1>1, <2>1, OwnerLeaves DEF TypeOK, Owner, Holds
  <2> QED BY <1>1, <2>1, <2>2, NothingHappens
<1> QED BY <1>2, <1>3

\* A step of the owner that stays inside.
LEMMA OwnerStays ==
  ASSUME TypeOK, LockInv, NEW w \in Writers, Holds(w),
         NEW label \in LockedPCs, Goto(w, label)
  PROVE  Owner' = Owner
<1>1. Owner' = Owner \cup {w}
  BY OwnerMoves DEF TypeOK, PCs, LockedPCs
<1> QED BY <1>1 DEF Owner

\* Reading the number, preparing the next one and the global log.
LEMMA InsideMaps ==
  ASSUME TypeOK, LockInv, NEW w \in Writers, ReadRev(w) \/ WriteTmp(w) \/ LogGlobal(w)
  PROVE  UNCHANGED Abstract!vars
<1>1. UNCHANGED <<current, locked, revisions, llog>> /\ Holds(w)
  BY DEF ReadRev, WriteTmp, LogGlobal, disk, Holds, LockedPCs
<1>2. Goto(w, "tmp") \/ Goto(w, "swap") \/ Goto(w, "llog") \/ Fail(w)
  BY DEF ReadRev, WriteTmp, LogGlobal
<1>3. Owner' = Owner
  BY <1>1, <1>2, OwnerStays, OwnerFails DEF TypeOK, LockedPCs
<1> QED BY <1>1, <1>3, NothingHappens

\* The new number in place is the advance of the head, unless the save reuses one.
LEMMA SwapMaps ==
  ASSUME TypeOK, LockInv, RevInv, NEW w \in Writers, SwapTmp(w)
  PROVE  Abstract!Advance(w) \/ UNCHANGED Abstract!vars
<1>1. Holds(w) /\ UNCHANGED <<current, revisions, llog>>
  BY DEF SwapTmp, Holds, LockedPCs
<1>2. Owner' = Owner
  BY <1>1, OwnerStays DEF SwapTmp, AfterSwap, LockedPCs
<1>3. /\ locked \in Nat /\ HeadRev = locked /\ locked' = rev[w] /\ rev[w] \in Nat
      /\ rev[w] \in {HeadRev, HeadRev + 1}
  <2>1. locked \in Nat /\ rev[w] = NextRev(job[w], locked) /\ locked' = rev[w]
    BY DEF SwapTmp, LockInv, TmpIsOwn, LockedPCs, RevInv, OwnRev
  <2>2. job[w] \in Job /\ rev[w] \in Nat
    BY DEF TypeOK, WriterTypeOK
  <2>3. HeadRev = locked
    BY <2>1, ConstantsAssumption DEF HeadRev, TokenFile
  <2> QED BY <2>1, <2>2, <2>3, NextRevBounds
<1>4. HeadRev' = rev[w] /\ Token = "held" /\ Token' = "held"
  BY <1>3, ConstantsAssumption DEF HeadRev, TokenFile, Token
<1>5. w \in Owner
  BY <1>1 DEF Owner
<1> QED BY <1>1, <1>2, <1>3, <1>4, <1>5 DEF Abstract!Advance, Abstract!vars, LoggedRevs

\* Both halves of writing the text store it under the head.
LEMMA StoreMaps ==
  ASSUME TypeOK, LockInv, RevInv, NEW w \in Writers, NEW whole \in BOOLEAN,
         IF whole THEN WriteRevision(w) ELSE TruncateRevision(w)
  PROVE  Abstract!Store(w)
<1>1. /\ Holds(w) /\ pc[w] \in {"trunc", "body"}
      /\ revisions' = Put(revisions, rev[w], FileOf(w, whole))
      /\ UNCHANGED <<current, locked, llog>>
  BY DEF TruncateRevision, WriteRevision, Holds, LockedPCs
<1>2. Owner' = Owner /\ w \in Owner
  BY <1>1, OwnerStays DEF TruncateRevision, WriteRevision, LockedPCs, Owner
<1>3. rev[w] = HeadRev /\ HeadRev \in Nat
  BY <1>1, LogLineIsHead DEF Numbered
<1>4. rev[w] > 0
  BY <1>1 DEF RevInv, OwnRev
<1>5. FileOf(w, whole) \in RevisionFile
  BY <1>1, WriterRecords DEF TypeOK
<1>6. UNCHANGED <<Token, HeadRev, LoggedRevs>>
  BY <1>1 DEF Token, HeadRev, TokenFile, LoggedRevs
<1> QED BY <1>1, <1>2, <1>3, <1>4, <1>5, <1>6 DEF Abstract!Store, Abstract!Put, Put

\* A save with a number of its own records it; the others leave the log alone.
LEMMA RecordMaps ==
  ASSUME TypeOK, LockInv, RevInv, LogInv, NEW w \in Writers, LogLocal(w)
  PROVE  Abstract!Record(w) \/ UNCHANGED Abstract!vars
<1>1. Holds(w) /\ UNCHANGED <<current, locked, revisions>> /\ pc[w] = "llog"
  BY DEF LogLocal, Holds, LockedPCs
<1>2. Owner' = Owner /\ w \in Owner
  BY <1>1, OwnerStays DEF LogLocal, LockedPCs, Owner
<1>3. CASE ~Fresh(job[w])
  BY <1>1, <1>2, <1>3, NothingHappens DEF LogLocal
<1>4. CASE Fresh(job[w])
  <2>1. rev[w] = HeadRev /\ HeadRev \in Nat
    BY <1>1, LogLineIsHead DEF Numbered
  <2>2. /\ llog \in Seq(LogLine) /\ Line(w) \in LogLine /\ Line(w).rev = rev[w]
        /\ llog' = Append(llog, Line(w))
    BY <1>1, <1>4, WriterRecords DEF LogLocal, TypeOK, DiskTypeOK, Line
  <2>3. /\ Len(llog) \in Nat /\ DOMAIN llog = 1..Len(llog)
        /\ DOMAIN llog' = 1..(Len(llog) + 1)
        /\ \A i \in 1..Len(llog) : llog'[i] = llog[i]
        /\ llog'[Len(llog) + 1] = Line(w)
    BY <2>2
  <2>4. LoggedRevs \in Seq(Nat) /\ Len(LoggedRevs) = Len(llog)
    <3>1. \A i \in 1..Len(llog) : llog[i].rev \in Nat
      BY <2>3, LogNumbers
    <3> QED BY <2>3, <3>1 DEF LoggedRevs
  <2>5. LoggedRevs' = Append(LoggedRevs, HeadRev)
    <3>1. /\ DOMAIN Append(LoggedRevs, HeadRev) = 1..(Len(llog) + 1)
          /\ \A i \in 1..Len(llog) : Append(LoggedRevs, HeadRev)[i] = llog[i].rev
          /\ Append(LoggedRevs, HeadRev)[Len(llog) + 1] = HeadRev
          /\ Append(LoggedRevs, HeadRev) = [i \in 1..(Len(llog) + 1) |->
                                              Append(LoggedRevs, HeadRev)[i]]
      BY <2>1, <2>3, <2>4 DEF LoggedRevs
    <3>2. LoggedRevs' = [i \in 1..(Len(llog) + 1) |-> llog'[i].rev]
      BY <2>3 DEF LoggedRevs
    <3>3. ASSUME NEW i \in 1..(Len(llog) + 1)
          PROVE  llog'[i].rev = Append(LoggedRevs, HeadRev)[i]
      <4>1. CASE i \in 1..Len(llog)
        BY <2>3, <3>1, <4>1
      <4>2. CASE i = Len(llog) + 1
        BY <2>1, <2>2, <2>3, <3>1, <4>2
      <4>3. i \in 1..Len(llog) \/ i = Len(llog) + 1
        BY <2>3
      <4> QED BY <4>1, <4>2, <4>3
    <3> QED BY <3>1, <3>2, <3>3
  <2>6. \A i \in DOMAIN LoggedRevs : LoggedRevs[i] < HeadRev
    BY <1>1, <1>4, <2>1 DEF LogInv, Numbered, LoggedRevs
  <2>7. UNCHANGED <<Token, HeadRev>>
    BY <1>1 DEF Token, HeadRev, TokenFile
  <2> QED BY <1>1, <1>2, <2>5, <2>6, <2>7 DEF Abstract!Record
<1> QED BY <1>3, <1>4

\* The rename back gives the token up.
LEMMA UnlockMaps ==
  ASSUME TypeOK, LockInv, NEW w \in Writers, Unlock(w)
  PROVE  Abstract!Release(w)
<1>1. /\ Holds(w) /\ current' = locked /\ locked' = Missing
      /\ UNCHANGED <<revisions, llog>>
  BY DEF Unlock, Holds, LockedPCs
<1>2. Owner = {w} /\ locked # Missing
  BY <1>1, OwnerAlone
<1>3. Owner' = {}
  BY <1>2, OwnerLeaves DEF Unlock, TypeOK
<1>4. Token' = "free" /\ HeadRev' = HeadRev
  BY <1>1, <1>2 DEF Token, HeadRev, TokenFile
<1> QED BY <1>1, <1>2, <1>3, <1>4 DEF Abstract!Release, LoggedRevs

\* An error moves a writer only; a death of the owner leaves the token with nobody.
LEMMA FaultMaps ==
  ASSUME TypeOK, LockInv, NEW w \in Writers, IOFault(w) \/ Crash(w)
  PROVE  Abstract!Abandon(w) \/ UNCHANGED Abstract!vars
<1>1. UNCHANGED <<current, locked, revisions, llog>>
  BY DEF IOFault, Crash, disk
<1>2. CASE Holds(w) /\ Fail(w)
  BY <1>1, <1>2, OwnerFails, NothingHappens DEF TypeOK
<1>3. CASE ~Holds(w) /\ Leave(w)
  BY <1>1, <1>3, OwnerLeaves, NothingHappens DEF TypeOK, Owner
<1>4. CASE Holds(w) /\ Leave(w)
  <2>1. Owner = {w} /\ Owner' = {}
    BY <1>4, OwnerAlone, OwnerLeaves DEF TypeOK
  <2> QED BY <1>1, <2>1 DEF Abstract!Abandon, Token, HeadRev, TokenFile, LoggedRevs
<1> QED BY <1>2, <1>3, <1>4 DEF IOFault, Crash, Holds

\* Every step of the files is a step of the page, or none.
LEMMA Simulation ==
  TypeOK /\ LockInv /\ RevInv /\ LogInv /\ [Next]_vars => [Abstract!Next]_(Abstract!vars)
<1> SUFFICES ASSUME TypeOK, LockInv, RevInv, LogInv, [Next]_vars
             PROVE  Abstract!Next \/ UNCHANGED Abstract!vars
  OBVIOUS
<1>1. CASE UNCHANGED vars
  BY <1>1, NothingHappens DEF vars, disk, writer, Owner, Holds
<1>2. ASSUME NEW w \in Writers,
             \/ \E kind \in Kinds, depr \in BOOLEAN : Begin(w, kind, depr)
             \/ Step(w) \/ IOFault(w) \/ Crash(w)
      PROVE  Abstract!Next \/ UNCHANGED Abstract!vars
  <2>1. CASE OpenCurrent(w)
    BY <2>1, OpenMaps DEF Abstract!Next
  <2>2. CASE TryLock(w)
    BY <2>2, LockMaps DEF Abstract!Next
  <2>3. CASE SwapTmp(w)
    BY <2>3, SwapMaps DEF Abstract!Next
  <2>4. CASE TruncateRevision(w)
    <3>1. Abstract!Store(w)
      BY <2>4, StoreMaps
    <3> QED BY <3>1 DEF Abstract!Next
  <2>5. CASE WriteRevision(w)
    <3>1. Abstract!Store(w)
      BY <2>5, StoreMaps
    <3> QED BY <3>1 DEF Abstract!Next
  <2>6. CASE LogLocal(w)
    BY <2>6, RecordMaps DEF Abstract!Next
  <2>7. CASE Unlock(w)
    BY <2>7, UnlockMaps DEF Abstract!Next
  <2>8. CASE IOFault(w) \/ Crash(w)
    BY <2>8, FaultMaps DEF Abstract!Next
  <2>9. CASE FlushCurrent(w)
    BY <2>9, FlushMaps
  <2>10. CASE ReadRev(w) \/ WriteTmp(w) \/ LogGlobal(w)
    BY <2>10, InsideMaps
  <2>11. CASE \/ \E kind \in Kinds, depr \in BOOLEAN : Begin(w, kind, depr)
              \/ CheckDir(w) \/ MakeDir(w)
    BY <2>11, OutsideMaps
  <2> QED BY <1>2, <2>1, <2>2, <2>3, <2>4, <2>5, <2>6, <2>7, <2>8, <2>9, <2>10, <2>11
          DEF Step
<1> QED BY <1>1, <1>2 DEF Next

\* A page that was never saved.
LEMMA InitMaps == Init => Abstract!Init
<1> SUFFICES ASSUME Init PROVE Abstract!Init
  OBVIOUS
<1>1. Token = "absent" /\ Owner = {} /\ HeadRev = 0
  BY ConstantsAssumption DEF Init, Token, Owner, Holds, LockedPCs, HeadRev, TokenFile
<1>2. revisions = [r \in {} |-> r]
  BY DEF Init
<1>3. LoggedRevs = <<>>
  BY DEF Init, LoggedRevs
<1> QED BY <1>1, <1>2, <1>3 DEF Abstract!Init

\* The save protocol, with its files, retries, errors and deaths, is the abstract page:
\* a token for one owner, a head that grows by one, texts stored under the head only,
\* and a log in order (_write_file as a whole).
THEOREM HistoryImplemented == Spec => ImplementsHistory
<1>1. Spec => [](TypeOK /\ LockInv /\ RevInv /\ LogInv)
  BY TypeCorrect, LockInvariant, RevisionInvariant, LogInvariant, PTL
<1>2. QED
  BY <1>1, InitMaps, Simulation, PTL DEF Spec, ImplementsHistory, Abstract!Spec
------------------------------------------------------------------------------
(* What was acknowledged stays on disk. *)

\* Before any save nothing is acknowledged.
LEMMA InitFile == Init => FileInv
BY DEF Init, FileInv, IdInv, AckedDurable, Written

\* Only a save that begins gets an identity, and only one that returns is acknowledged.
LEMMA IdFrame ==
  ASSUME TypeOK, Next
  PROVE  \E w \in Writers :
           \/ \E kind \in Kinds, depr \in BOOLEAN : Begin(w, kind, depr)
           \/ /\ \A v \in Writers : pc'[v] # "idle" => pc[v] # "idle" /\ job'[v] = job[v]
              /\ serial' = serial
              /\ \/ acked' = acked
                 \/ pc[w] # "idle" /\ pc'[w] = "idle" /\ acked' = acked \cup {Receipt(w)}
<1> SUFFICES ASSUME NEW w \in Writers, Step(w) \/ IOFault(w) \/ Crash(w)
             PROVE  /\ \A v \in Writers : pc'[v] # "idle" => pc[v] # "idle" /\ job'[v] = job[v]
                    /\ serial' = serial
                    /\ \/ acked' = acked
                       \/ pc[w] # "idle" /\ pc'[w] = "idle" /\ acked' = acked \cup {Receipt(w)}
  BY DEF Next
<1> USE DEF TypeOK
<1>1. ASSUME Leave(w), pc[w] # "idle"
      PROVE  /\ pc'[w] = "idle"
             /\ \A v \in Writers : pc'[v] # "idle" => pc[v] # "idle" /\ job'[v] = job[v]
  BY <1>1, LeaveFrame
<1>2. ASSUME Fail(w), pc[w] # "idle"
      PROVE  \A v \in Writers : pc'[v] # "idle" => pc[v] # "idle" /\ job'[v] = job[v]
  BY <1>2, FailFrame
<1>3. ASSUME UNCHANGED job, pc[w] # "idle", NEW to \in PCs, Goto(w, to)
      PROVE  \A v \in Writers : pc'[v] # "idle" => pc[v] # "idle" /\ job'[v] = job[v]
  BY <1>3, GotoFrame
<1>4. CASE CheckDir(w) \/ MakeDir(w) \/ OpenCurrent(w) \/ FlushCurrent(w)
  BY <1>1, <1>3, <1>4 DEF CheckDir, MakeDir, OpenCurrent, FlushCurrent, PCs, history
<1>5. CASE TryLock(w) \/ ReadRev(w)
  BY <1>1, <1>2, <1>3, <1>5 DEF TryLock, ReadRev, PCs, history
<1>6. CASE WriteTmp(w) \/ SwapTmp(w) \/ TruncateRevision(w) \/ WriteRevision(w)
  BY <1>3, <1>6 DEF WriteTmp, SwapTmp, AfterSwap, TruncateRevision, WriteRevision, PCs, history
<1>7. CASE LogGlobal(w) \/ LogLocal(w)
  BY <1>3, <1>7 DEF LogGlobal, LogLocal, PCs, history
<1>8. CASE Unlock(w)
  BY <1>1, <1>8 DEF Unlock
<1>9. CASE IOFault(w) \/ Crash(w)
  BY <1>1, <1>2, <1>9 DEF IOFault, Crash, LockedPCs
<1> QED BY <1>4, <1>5, <1>6, <1>7, <1>8, <1>9 DEF Step

\* Identities stay unique, and nobody works at a save that was acknowledged.
LEMMA IdStep == TypeOK /\ IdInv /\ [Next]_vars => IdInv'
<1> SUFFICES ASSUME TypeOK, IdInv, [Next]_vars PROVE IdInv'
  OBVIOUS
<1>0. /\ serial \in Nat /\ \A v \in Writers : job[v].id \in Nat
      /\ \A a \in acked : a.id \in Nat
  BY ConstantsAssumption, JobFields
  DEF TypeOK, HistoryTypeOK, WriterTypeOK, Receipts
<1>1. CASE UNCHANGED vars
  BY <1>1 DEF vars, writer, history, IdInv
<1>2. ASSUME NEW w \in Writers, NEW kind \in Kinds, NEW depr \in BOOLEAN, Begin(w, kind, depr)
      PROVE  IdInv'
  <2>1. /\ serial' = serial + 1 /\ acked' = acked /\ job'[w].id = serial + 1
        /\ \A v \in Writers \ {w} : job'[v] = job[v] /\ pc'[v] = pc[v]
    BY <1>2 DEF Begin, Goto, TypeOK, WriterTypeOK
  <2> QED BY <1>0, <2>1 DEF IdInv
<1>3. ASSUME NEW w \in Writers,
             \A v \in Writers : pc'[v] # "idle" => pc[v] # "idle" /\ job'[v] = job[v],
             serial' = serial,
             \/ acked' = acked
             \/ pc[w] # "idle" /\ pc'[w] = "idle" /\ acked' = acked \cup {Receipt(w)}
      PROVE  IdInv'
  <2>1. Receipt(w).id = job[w].id
    BY DEF Receipt
  <2> QED BY <1>0, <1>3, <2>1 DEF IdInv
<1> QED BY <1>1, <1>2, <1>3, IdFrame

\* A text is written when WriteRevision has written it, or there is none to write.
LEMMA WrittenFrame ==
  ASSUME TypeOK, RevInv, Next, NEW v \in Writers, Written(v)'
  PROVE  /\ job'[v] = job[v] /\ rev'[v] = rev[v]
         /\ Written(v) \/ WriteRevision(v) \/ (SwapTmp(v) /\ job[v].deleted)
<1> USE DEF TypeOK
<1>1. Numbered(v)'
  BY DEF Written, Numbered
<1>2. CASE SwapTmp(v)
  <2>1. pc'[v] = AfterSwap(job[v]) /\ UNCHANGED <<job, rev>>
    BY <1>2, GotoFrame DEF SwapTmp, AfterSwap, PCs
  <2> QED BY <1>2, <2>1 DEF Written, AfterSwap
<1>3. CASE Numbered(v) /\ job'[v] = job[v] /\ rev'[v] = rev[v]
  <2>1. CASE pc[v] \in {"trunc", "body"} /\ ~WriteRevision(v)
    <3>1. pc'[v] \in {"trunc", "body", "idle"} \/ (pc'[v] = "unlock" /\ err'[v])
      <4>1. PICK w \in Writers :
              (\E kind \in Kinds, depr \in BOOLEAN : Begin(w, kind, depr))
              \/ Step(w) \/ IOFault(w) \/ Crash(w)
        BY DEF Next
      <4>2. CASE w = v
        <5>1. TruncateRevision(v) \/ IOFault(v) \/ Crash(v)
          BY <2>1, <4>1, <4>2
          DEF Step, Begin, CheckDir, MakeDir, OpenCurrent, FlushCurrent, TryLock, ReadRev,
              WriteTmp, SwapTmp, LogGlobal, LogLocal, Unlock
        <5>2. CASE TruncateRevision(v)
          BY <5>2, GotoFrame DEF TruncateRevision, PCs
        <5>3. CASE IOFault(v) \/ Crash(v)
          BY <2>1, <5>3, LeaveFrame, FailFrame DEF IOFault, Crash
        <5> QED BY <5>1, <5>2, <5>3
      <4>3. CASE w # v
        <5>1. pc'[v] = pc[v]
          BY <4>1, <4>3
          DEF Step, Begin, CheckDir, MakeDir, OpenCurrent, FlushCurrent, TryLock, ReadRev,
              WriteTmp, SwapTmp, TruncateRevision, WriteRevision, LogGlobal, LogLocal, Unlock,
              IOFault, Crash, Goto, Leave, Fail, WriterTypeOK
        <5> QED BY <2>1, <5>1
      <4> QED BY <4>2, <4>3
    <3> QED BY <3>1 DEF Written
  <2> QED BY <1>3, <2>1 DEF Numbered, Written
<1> QED BY <1>1, <1>2, <1>3, NumberedFrame

\* Only a save that returns without an exception is acknowledged.
LEMMA OnlyUnlockAcks ==
  ASSUME Next, acked' # acked
  PROVE  \E w \in Writers : /\ Unlock(w) /\ ~err[w] /\ acked' = acked \cup {Receipt(w)}
                            /\ UNCHANGED <<revisions, llog>>
BY DEF Next, Step, Begin, CheckDir, MakeDir, OpenCurrent, FlushCurrent, TryLock,
       ReadRev, WriteTmp, SwapTmp, TruncateRevision, WriteRevision, LogGlobal,
       LogLocal, Unlock, IOFault, Crash, disk, history

\* What a write of the owner leaves in the directory.
LEMMA BodyWrites ==
  ASSUME TypeOK, Next, revisions' # revisions
  PROVE  \E w \in Writers, whole \in BOOLEAN :
           /\ pc[w] = IF whole THEN "body" ELSE "trunc"
           /\ UNCHANGED <<current, locked, job, rev, err, llog, acked>>
           /\ DOMAIN revisions' = DOMAIN revisions \cup {rev[w]}
           /\ revisions'[rev[w]] = FileOf(w, whole)
           /\ \A r \in DOMAIN revisions \ {rev[w]} : revisions'[r] = revisions[r]
<1>1. PICK w \in Writers, whole \in BOOLEAN :
        /\ pc[w] = IF whole THEN "body" ELSE "trunc"
        /\ revisions' = Put(revisions, rev[w], FileOf(w, whole))
        /\ UNCHANGED <<current, locked, job, rev, err, llog, acked>>
  BY OnlyBodyWrites
<1>2. rev[w] \in Nat /\ FileOf(w, whole) \in RevisionFile
  BY <1>1, WriterRecords DEF TypeOK, WriterTypeOK
<1> QED BY <1>1, <1>2, PutType DEF TypeOK

\* Every step keeps what was acknowledged, and what is about to be, in the files.
LEMMA FileStep == TypeOK /\ LockInv /\ RevInv /\ FileInv /\ [Next]_vars => FileInv'
<1> SUFFICES ASSUME TypeOK, LockInv, RevInv, FileInv, [Next]_vars PROVE FileInv'
  OBVIOUS
<1>1. CASE UNCHANGED vars
  <2>1. IdInv'
    BY IdStep DEF FileInv
  <2> QED BY <1>1, <2>1 DEF vars, disk, writer, history, FileInv, AckedDurable, Written
<1>2. CASE Next
  <2>1. IdInv'
    BY IdStep DEF FileInv
  <2>2. AckedDurable'
    <3>1. CASE revisions' # revisions
      <4>1. PICK w \in Writers, whole \in BOOLEAN :
              /\ pc[w] = IF whole THEN "body" ELSE "trunc"
              /\ acked' = acked
              /\ DOMAIN revisions' = DOMAIN revisions \cup {rev[w]}
              /\ revisions'[rev[w]] = FileOf(w, whole)
              /\ \A r \in DOMAIN revisions \ {rev[w]} : revisions'[r] = revisions[r]
        BY <1>2, <3>1, BodyWrites
      <4>2. ASSUME NEW a \in acked, ~a.deleted
            PROVE  /\ a.rev \in DOMAIN revisions'
                   /\ \/ revisions'[a.rev].id = a.id /\ revisions'[a.rev].whole
                      \/ revisions'[a.rev].id # a.id /\ revisions'[a.rev].inplace
        <5>1. /\ a.rev \in DOMAIN revisions
              /\ \/ revisions[a.rev].id = a.id /\ revisions[a.rev].whole
                 \/ revisions[a.rev].id # a.id /\ revisions[a.rev].inplace
          BY <4>2 DEF FileInv, AckedDurable
        <5>2. job[w].id # a.id
          BY <4>1 DEF FileInv, IdInv
        <5>3. CASE a.rev = rev[w]
          <6>1. rev[w] \in DOMAIN revisions
                /\ (revisions[rev[w]].id # job[w].id \/ revisions[rev[w]].inplace)
            BY <5>1, <5>2, <5>3
          <6>2. FileOf(w, whole).id = job[w].id /\ FileOf(w, whole).inplace
            BY <6>1 DEF FileOf
          <6> QED BY <4>1, <5>1, <5>2, <5>3, <6>2
        <5>4. CASE a.rev # rev[w]
          BY <4>1, <5>1, <5>4
        <5> QED BY <5>3, <5>4
      <4> QED BY <4>1, <4>2 DEF AckedDurable
    <3>2. CASE revisions' = revisions /\ acked' = acked
      BY <3>2 DEF FileInv, AckedDurable
    <3>3. CASE revisions' = revisions /\ acked' # acked
      <4>1. PICK w \in Writers :
              Unlock(w) /\ ~err[w] /\ acked' = acked \cup {Receipt(w)}
        BY <1>2, <3>3, OnlyUnlockAcks
      <4>2. Written(w)
        BY <4>1 DEF Unlock, Written
      <4> QED BY <3>3, <4>1, <4>2 DEF FileInv, AckedDurable, Receipt
    <3> QED BY <3>1, <3>2, <3>3
  <2>3. ASSUME NEW v \in Writers, Written(v)', ~job'[v].deleted
        PROVE  /\ rev'[v] \in DOMAIN revisions'
               /\ revisions'[rev'[v]].id = job'[v].id /\ revisions'[rev'[v]].whole
    <3>1. job'[v] = job[v] /\ rev'[v] = rev[v]
      BY <1>2, <2>3, WrittenFrame
    <3>2. CASE WriteRevision(v)
      <4>1. rev[v] \in Nat /\ FileOf(v, TRUE) \in RevisionFile
        BY <3>2, WriterRecords DEF TypeOK, WriterTypeOK, WriteRevision
      <4>2. DOMAIN revisions' = DOMAIN revisions \cup {rev[v]}
            /\ revisions'[rev[v]] = FileOf(v, TRUE)
        BY <3>2, <4>1, PutType DEF WriteRevision, TypeOK
      <4> QED BY <3>1, <4>2 DEF FileOf
    <3>3. CASE Written(v)
      <4>1. revisions' = revisions
        <5>1. ASSUME NEW w \in Writers, pc[w] \in {"trunc", "body"} PROVE FALSE
          BY <3>3, <5>1 DEF LockInv, SingleToken, Holds, LockedPCs, Written
        <5> QED BY <1>2, <5>1, OnlyBodyWrites
      <4> QED BY <2>3, <3>1, <3>3, <4>1 DEF FileInv
    <3> QED BY <1>2, <2>3, <3>1, <3>2, <3>3, WrittenFrame
  <2> QED BY <2>1, <2>2, <2>3 DEF FileInv
<1> QED BY <1>1, <1>2

LEMMA FileInvariant == Spec => []FileInv
<1>1. Spec => [](TypeOK /\ LockInv /\ RevInv)
  BY TypeCorrect, LockInvariant, RevisionInvariant, PTL
<1>2. QED
  BY <1>1, InitFile, FileStep, PTL DEF Spec

\* A save that returned is found complete in its revision file ever after, unless a
\* save meant to reuse that number replaced it (_write_file's promise to its callers).
THEOREM AckedStaysOnDisk == Spec => []AckedDurable
<1>1. FileInv => AckedDurable
  BY DEF FileInv
<1> QED BY <1>1, FileInvariant, PTL
------------------------------------------------------------------------------
(* What a reader sees. *)

\* A new page shows nothing.
LEMMA InitHead == Init => HeadInv
BY ConstantsAssumption
DEF Init, HeadInv, PositiveInv, HeadFacts, OwnerFacts, Numbered, BeforeSwap, Written

\* Only LogLocal appends to the page's log, and it appends one line.
LEMMA LogAppended ==
  ASSUME TypeOK, NEW w \in Writers, LogLocal(w), Fresh(job[w])
  PROVE  /\ Len(llog) \in Nat /\ DOMAIN llog = 1..Len(llog)
         /\ DOMAIN llog' = 1..(Len(llog) + 1) /\ Len(llog') = Len(llog) + 1
         /\ llog' # <<>> /\ llog'[Len(llog) + 1].rev = rev[w]
         /\ \A i \in DOMAIN llog : llog'[i] = llog[i]
<1>1. llog \in Seq(LogLine) /\ Line(w) \in LogLine /\ llog' = Append(llog, Line(w))
  BY WriterRecords DEF LogLocal, TypeOK, DiskTypeOK
<1> QED BY <1>1 DEF Line

\* The number a save puts on disk is positive, and one nobody used or one in sight.
LEMMA SwapPositive ==
  ASSUME TypeOK, LockInv, RevInv, NEW w \in Writers, SwapTmp(w)
  PROVE  /\ locked \in Nat /\ locked' = rev[w] /\ rev[w] \in Nat \ {0}
         /\ HeadRev = locked
         /\ \/ rev[w] = locked
            \/ rev[w] = locked + 1 /\ (Fresh(job[w]) \/ locked = 0)
<1>1. /\ locked \in Nat /\ HeadRev = locked
      /\ rev[w] = NextRev(job[w], locked) /\ rev[w] \in Nat /\ job[w] \in Job
      /\ locked' = rev[w]
  BY ConstantsAssumption
  DEF SwapTmp, LockInv, TmpIsOwn, LockedPCs, RevInv, OwnRev, HeadRev, TokenFile, TypeOK,
      WriterTypeOK
<1>2. job[w].wasDepr => HeadRev > 0
  BY DEF SwapTmp, RevInv
<1>3. job[w].wasDepr \in BOOLEAN /\ job[w].backup \in BOOLEAN
  BY <1>1, JobFields
<1> QED BY <1>1, <1>2, <1>3 DEF NextRev, Fresh

\* Numbers on disk and in the log stay positive.
LEMMA PositiveStep == TypeOK /\ LockInv /\ RevInv /\ PositiveInv /\ [Next]_vars => PositiveInv'
<1> SUFFICES ASSUME TypeOK, LockInv, RevInv, PositiveInv, [Next]_vars PROVE PositiveInv'
  OBVIOUS
<1>1. CASE UNCHANGED vars
  BY <1>1 DEF vars, disk, writer, PositiveInv, Numbered
<1>2. CASE Next
  <2>1. ASSUME NEW v \in Writers, Numbered(v)' PROVE rev'[v] > 0
    <3>1. CASE SwapTmp(v)
      <4>1. rev[v] \in Nat \ {0} /\ rev' = rev
        BY <3>1, SwapPositive DEF SwapTmp
      <4> QED BY <4>1
    <3>2. CASE Numbered(v) /\ rev'[v] = rev[v]
      BY <3>2 DEF PositiveInv
    <3> QED BY <1>2, <2>1, <3>1, <3>2, NumberedFrame
  <2>2. ASSUME NEW i \in DOMAIN llog' PROVE llog'[i].rev > 0
    <3>1. CASE llog' = llog
      BY <2>2, <3>1 DEF PositiveInv
    <3>2. CASE llog' # llog
      <4>1. PICK w \in Writers : LogLocal(w) /\ Fresh(job[w])
        BY <1>2, <3>2
        DEF Next, Step, Begin, CheckDir, MakeDir, OpenCurrent, FlushCurrent, TryLock,
            ReadRev, WriteTmp, SwapTmp, TruncateRevision, WriteRevision, LogGlobal,
            LogLocal, Unlock, IOFault, Crash, disk
      <4>2. Numbered(w)
        BY <4>1 DEF LogLocal, Numbered
      <4>3. CASE i \in DOMAIN llog
        BY <4>1, <4>3, LogAppended DEF PositiveInv
      <4>4. CASE i = Len(llog) + 1
        BY <4>1, <4>2, <4>4, LogAppended DEF PositiveInv
      <4>5. i \in DOMAIN llog \/ i = Len(llog) + 1
        BY <2>2, <4>1, LogAppended
      <4> QED BY <4>3, <4>4, <4>5
    <3> QED BY <3>1, <3>2
  <2> QED BY <2>1, <2>2 DEF PositiveInv
<1> QED BY <1>1, <1>2

\* A step that writes no text, log or receipt, moves at most one writer, and neither
\* puts a positive number into a token file nor brings that writer under a new claim.
LEMMA HeadQuiet ==
  ASSUME HeadFacts, NEW w \in Writers, UNCHANGED <<revisions, llog, acked>>,
         current' = current \/ current' \notin Nat \ {0},
         locked' = locked \/ locked' \notin Nat \ {0},
         \A v \in Writers \ {w} :
           pc'[v] = pc[v] /\ err'[v] = err[v] /\ job'[v] = job[v] /\ rev'[v] = rev[v],
         BeforeSwap(w)' => BeforeSwap(w),
         Numbered(w)' => /\ Numbered(w) /\ job'[w] = job[w] /\ rev'[w] = rev[w]
                         /\ (pc'[w] = "unlock" => pc[w] = "unlock")
                         /\ (Written(w)' => Written(w)),
         pc'[w] = "unlock" /\ err'[w] => locked' \notin Nat \ {0}
  PROVE  HeadFacts'
<1>1. current' \in Nat \ {0} => Readable(current)' /\ LoggedLast(current)'
  BY DEF HeadFacts, OwnerFacts, Readable, LoggedLast
<1>4. ASSUME NEW v \in Writers, v # w
      PROVE  /\ BeforeSwap(v)' => BeforeSwap(v) /\ pc'[v] = pc[v]
             /\ Written(v)' => Written(v)
             /\ Numbered(v)' => Numbered(v)
  BY <1>4 DEF BeforeSwap, Written, Numbered
<1>5. \A v \in Writers : BeforeSwap(v)' => BeforeSwap(v)
  BY <1>4
<1>6. ASSUME NEW v \in Writers, Numbered(v)'
      PROVE  /\ Numbered(v) /\ job'[v] = job[v] /\ rev'[v] = rev[v]
             /\ (pc'[v] = "unlock" => pc[v] = "unlock")
             /\ (Written(v)' => Written(v))
  BY <1>4, <1>6
<1>7. ASSUME NEW v \in Writers
      PROVE  /\ BeforeSwap(v)' /\ locked' \in Nat \ {0} => Readable(locked)' /\ LoggedLast(locked)'
             /\ Written(v)' /\ job'[v].deleted /\ rev'[v] \in DOMAIN revisions'
                  => revisions'[rev'[v]].whole
             /\ Numbered(v)' /\ (Fresh(job'[v]) => pc'[v] = "unlock") => LoggedLast(rev[v])'
             /\ pc'[v] = "unlock" /\ err'[v] => locked' \notin Nat \ {0}
  <2>1. BeforeSwap(v)' /\ locked' \in Nat \ {0} => Readable(locked)' /\ LoggedLast(locked)'
    BY <1>5 DEF HeadFacts, OwnerFacts, Readable, LoggedLast
  <2>2. Written(v)' => Numbered(v)'
    BY DEF Written, Numbered
  <2>3. Written(v)' /\ job'[v].deleted /\ rev'[v] \in DOMAIN revisions'
          => revisions'[rev'[v]].whole
    BY <1>6, <2>2 DEF HeadFacts, OwnerFacts
  <2>4. Numbered(v)' /\ (Fresh(job'[v]) => pc'[v] = "unlock") => LoggedLast(rev[v])'
    BY <1>6 DEF HeadFacts, OwnerFacts, LoggedLast
  <2>5. pc'[v] = "unlock" /\ err'[v] => locked' \notin Nat \ {0}
    BY DEF HeadFacts, OwnerFacts
  <2> QED BY <2>1, <2>3, <2>4, <2>5
<1> QED BY <1>1, <1>7 DEF HeadFacts, OwnerFacts

\* What HeadFacts says of a writer is about the owner only.
LEMMA OutsideFacts ==
  ASSUME NEW v \in Writers, ~Holds(v)' PROVE OwnerFacts(v)'
BY DEF OwnerFacts, Holds, LockedPCs, BeforeSwap, Written, Numbered

\* While the owner keeps the page locked, its own facts are all there is.
LEMMA HeadOfOwner ==
  ASSUME TypeOK, LockInv, NEW w \in Writers,
         \/ pc[w] = "lock" /\ locked = Missing
         \/ Holds(w),
         \A v \in Writers \ {w} : pc'[v] = pc[v],
         current' \in Nat \ {0} => Readable(current)' /\ LoggedLast(current)', OwnerFacts(w)'
  PROVE  HeadFacts'
<1>1. \A v \in Writers \ {w} : ~Holds(v)'
  <2>1. \A v \in Writers \ {w} : ~Holds(v)
    BY OthersOutside DEF LockInv, SingleToken
  <2> QED BY <2>1 DEF Holds
<1>2. \A v \in Writers : OwnerFacts(v)'
  BY <1>1, OutsideFacts
<1> QED BY <1>2 DEF HeadFacts, OwnerFacts

\* The owner's `current` is gone until it renames it back.
LEMMA OwnerHides ==
  ASSUME LockInv, NEW w \in Writers, Holds(w) PROVE current = Missing
BY DEF LockInv, SingleToken

\* Taking the lock carries over what a reader saw.
LEMMA HeadLock ==
  ASSUME TypeOK, LockInv, HeadFacts, NEW w \in Writers, TryLock(w), current # Missing
  PROVE  HeadFacts'
<1>1. /\ locked = Missing /\ locked' = current /\ current' = Missing
      /\ UNCHANGED <<revisions, llog, acked>> /\ pc'[w] = "read"
      /\ pc[w] = "lock" /\ \A v \in Writers \ {w} : pc'[v] = pc[v]
  BY GotoFrame DEF TryLock, LockInv, SingleToken, history, TypeOK, PCs
<1>2. locked' \in Nat \ {0} => Readable(locked)' /\ LoggedLast(locked)'
  BY <1>1 DEF HeadFacts, OwnerFacts, Readable, LoggedLast
<1>3. OwnerFacts(w)'
  BY <1>1, <1>2 DEF OwnerFacts, Written, Numbered
<1> QED BY <1>1, <1>3, HeadOfOwner, ConstantsAssumption

\* A save that puts a number on disk either makes it, or finds under it what a reader saw.
LEMMA HeadSwap ==
  ASSUME TypeOK, LockInv, RevInv, LogInv, PositiveInv, HeadFacts, NEW w \in Writers, SwapTmp(w)
  PROVE  HeadFacts'
<1>1. /\ UNCHANGED <<current, job, rev, revisions, llog, acked>> /\ pc[w] = "swap"
      /\ pc'[w] = AfterSwap(job[w]) /\ \A v \in Writers \ {w} : pc'[v] = pc[v]
  BY GotoFrame DEF SwapTmp, AfterSwap, history, TypeOK, PCs
<1>2. Holds(w) /\ current' = Missing
  BY <1>1, OwnerHides DEF Holds, LockedPCs
<1>3. pc'[w] \in {"glog", "trunc"}
  BY <1>1 DEF AfterSwap
<1>4. rev[w] = locked => Readable(rev[w]) /\ LoggedLast(rev[w])
  BY <1>1, SwapPositive DEF HeadFacts, OwnerFacts, BeforeSwap
<1>5. rev[w] \in DOMAIN revisions => revisions[rev[w]].whole
  <2>1. CASE rev[w] = locked
    BY <1>4, <2>1 DEF Readable
  <2>2. CASE rev[w] = locked + 1
    BY <2>2, SwapPositive DEF RevInv
  <2> QED BY <2>1, <2>2, SwapPositive
<1>6. ~Fresh(job[w]) => LoggedLast(rev[w])
  <2>1. CASE rev[w] = locked
    BY <1>4, <2>1
  <2>2. CASE rev[w] = 1 /\ locked = 0
    <3>1. \A i \in DOMAIN llog : llog[i].rev <= 0 /\ llog[i].rev > 0 /\ llog[i].rev \in Nat
      BY <2>2, SwapPositive, LogNumbers DEF LogInv, PositiveInv
    <3>2. llog \in Seq(LogLine) /\ DOMAIN llog = {}
      BY <3>1 DEF TypeOK, DiskTypeOK
    <3>3. llog = <<>>
      BY <3>2
    <3> QED BY <2>2, <3>3 DEF LoggedLast
  <2> QED BY <2>1, <2>2, SwapPositive
<1>7. OwnerFacts(w)'
  BY <1>1, <1>3, <1>5, <1>6 DEF OwnerFacts, BeforeSwap, LoggedLast
<1> QED BY <1>1, <1>2, <1>7, HeadOfOwner, ConstantsAssumption

\* While the text is being written nothing is claimed of it; then it is whole.
LEMMA HeadWrite ==
  ASSUME TypeOK, LockInv, HeadFacts, NEW w \in Writers, TruncateRevision(w) \/ WriteRevision(w)
  PROVE  HeadFacts'
<1>1. /\ UNCHANGED <<current, job, rev, llog>> /\ pc[w] \in {"trunc", "body"}
      /\ \A v \in Writers \ {w} : pc'[v] = pc[v]
      /\ (TruncateRevision(w) /\ pc'[w] = "body") \/ (WriteRevision(w) /\ pc'[w] = "glog")
  BY GotoFrame DEF TruncateRevision, WriteRevision, TypeOK, PCs
<1>2. Holds(w) /\ current' = Missing
  BY <1>1, OwnerHides DEF Holds, LockedPCs
<1>3. WriteRevision(w) => revisions'[rev[w]].whole
  <2>1. rev[w] \in Nat /\ FileOf(w, TRUE) \in RevisionFile
    BY <1>1, WriterRecords DEF TypeOK, WriterTypeOK
  <2>2. WriteRevision(w) => revisions'[rev[w]] = FileOf(w, TRUE)
    BY <2>1, PutType DEF WriteRevision, TypeOK
  <2>3. FileOf(w, TRUE).whole
    BY DEF FileOf
  <2> QED BY <2>2, <2>3
<1>4. ~Fresh(job[w]) => LoggedLast(rev[w])
  BY <1>1 DEF HeadFacts, OwnerFacts, Numbered
<1>5. OwnerFacts(w)'
  BY <1>1, <1>3, <1>4 DEF OwnerFacts, BeforeSwap, Written, LoggedLast
<1> QED BY <1>1, <1>2, <1>5, HeadOfOwner, ConstantsAssumption

\* Before it unlocks, a save with a number of its own has logged it; another one found
\* the number it reuses logged.
LEMMA HeadRecord ==
  ASSUME TypeOK, LockInv, RevInv, HeadFacts, NEW w \in Writers, LogLocal(w)
  PROVE  HeadFacts'
<1>1. /\ UNCHANGED <<current, job, rev, err, revisions>> /\ pc[w] = "llog" /\ pc'[w] = "unlock"
      /\ \A v \in Writers \ {w} : pc'[v] = pc[v]
  BY GotoFrame DEF LogLocal, TypeOK, PCs
<1>2. Holds(w) /\ current' = Missing
  BY <1>1, OwnerHides DEF Holds, LockedPCs
<1>3. LoggedLast(rev[w])'
  <2>1. CASE Fresh(job[w])
    BY <1>1, <2>1, LogAppended DEF LoggedLast
  <2>2. CASE ~Fresh(job[w])
    <3>1. LoggedLast(rev[w]) /\ llog' = llog
      BY <1>1, <2>2 DEF LogLocal, HeadFacts, OwnerFacts, Numbered
    <3> QED BY <1>1, <3>1 DEF LoggedLast
  <2> QED BY <2>1, <2>2
<1>4. Written(w)' => Written(w)
  BY <1>1 DEF Written
<1>5. ~err'[w]
  BY <1>1 DEF RevInv, OwnRev
<1>6. OwnerFacts(w)'
  BY <1>1, <1>3, <1>4, <1>5 DEF HeadFacts, OwnerFacts, BeforeSwap
<1> QED BY <1>1, <1>2, <1>6, HeadOfOwner, ConstantsAssumption

\* Giving the page back shows a reader the number that is logged and readable.
LEMMA HeadUnlock ==
  ASSUME TypeOK, LockInv, RevInv, FileInv, HeadFacts, NEW w \in Writers, Unlock(w)
  PROVE  HeadFacts'
<1>1. /\ current' = locked /\ UNCHANGED <<revisions, llog>> /\ pc[w] = "unlock"
      /\ pc'[w] = "idle" /\ \A v \in Writers \ {w} : pc'[v] = pc[v]
      /\ acked' = IF err[w] THEN acked ELSE acked \cup {Receipt(w)}
  BY LeaveFrame DEF Unlock, TypeOK
<1>2. Holds(w)
  BY <1>1 DEF Holds, LockedPCs
<1>3. ASSUME locked \in Nat \ {0} PROVE Readable(current)' /\ LoggedLast(current)'
  <2>1. ~err[w] /\ rev[w] = locked
    BY <1>1, <1>3 DEF HeadFacts, OwnerFacts, RevInv, OwnRev
  <2>2. LoggedLast(rev[w])
    BY <1>1, <2>1 DEF HeadFacts, OwnerFacts, Numbered
  <2>3. CASE rev[w] \in DOMAIN revisions
    <3>1. revisions[rev[w]].whole
      BY <1>1, <2>1, <2>3 DEF HeadFacts, OwnerFacts, FileInv, Written
    <3> QED BY <1>1, <2>1, <2>2, <2>3, <3>1 DEF Readable, LoggedLast
  <2>4. CASE rev[w] \notin DOMAIN revisions
    <3>1. job[w].deleted
      BY <1>1, <2>1, <2>4 DEF FileInv, Written
    <3>2. Receipt(w) \in acked' /\ Receipt(w).deleted /\ Receipt(w).rev = rev[w]
      BY <1>1, <2>1, <3>1 DEF Receipt
    <3> QED BY <1>1, <2>1, <2>2, <2>4, <3>2 DEF Readable, LoggedLast
  <2> QED BY <2>3, <2>4
<1>4. OwnerFacts(w)'
  BY <1>1 DEF OwnerFacts, BeforeSwap, Written, Numbered
<1> QED BY <1>1, <1>2, <1>3, <1>4, HeadOfOwner

\* Unless an I/O error happens, every step keeps the number in sight logged and readable.
LEMMA HeadStep ==
  /\ TypeOK /\ LockInv /\ RevInv /\ LogInv /\ FileInv /\ HeadInv /\ [Next]_vars
  => HeadInv'
<1> SUFFICES ASSUME TypeOK, LockInv, RevInv, LogInv, FileInv, HeadInv, [Next]_vars,
                    faults' = 0
             PROVE  HeadFacts'
  BY PositiveStep DEF HeadInv
<1> USE DEF TypeOK, disk, history
<1>1. CASE UNCHANGED vars
  BY <1>1 DEF vars, writer, HeadInv, HeadFacts, OwnerFacts, Readable, LoggedLast, BeforeSwap,
              Written, Numbered
<1>2. ASSUME NEW w \in Writers,
             \/ \E kind \in Kinds, depr \in BOOLEAN : Begin(w, kind, depr)
             \/ Step(w) \/ IOFault(w) \/ Crash(w)
      PROVE  HeadFacts'
  <2>1. ~IOFault(w) /\ faults = 0
    <3>1. ~IOFault(w)
      BY ConstantsAssumption DEF HistoryTypeOK, IOFault
    <3>2. faults' = faults
      BY <1>2, <3>1
      DEF Crash, Begin, Step, CheckDir, MakeDir, OpenCurrent, FlushCurrent, TryLock, ReadRev,
          WriteTmp, SwapTmp, TruncateRevision, WriteRevision, LogGlobal, LogLocal, Unlock
    <3> QED BY <3>1, <3>2
  <2>2. HeadFacts
    BY <2>1 DEF HeadInv
  <2>3. ASSUME UNCHANGED <<current, locked, revisions, llog, acked>>, Leave(w)
        PROVE  HeadFacts'
    BY <2>2, <2>3, LeaveFrame, HeadQuiet DEF BeforeSwap, Numbered
  <2>4. ASSUME UNCHANGED <<revisions, llog, acked, rev, err>>,
               current' = current \/ current' \notin Nat \ {0},
               locked' = locked \/ locked' \notin Nat \ {0},
               NEW to \in {"check", "mkdir", "open", "flush", "lock"}, Goto(w, to),
               \A v \in Writers \ {w} : job'[v] = job[v]
        PROVE  HeadFacts'
    <3>1. pc'[w] = to /\ \A v \in Writers \ {w} : pc'[v] = pc[v]
      BY <2>4, GotoFrame DEF PCs
    <3> QED BY <2>2, <2>4, <3>1, HeadQuiet DEF BeforeSwap, Numbered
  <2>5. ASSUME UNCHANGED <<current, locked, revisions, llog, acked, job, err>>,
               NEW to \in PCs, Goto(w, to), \A v \in Writers \ {w} : rev'[v] = rev[v],
               \/ to \in {"tmp", "swap"} /\ BeforeSwap(w)
               \/ to = "llog" /\ pc[w] = "glog" /\ rev' = rev
        PROVE  HeadFacts'
    <3>1. pc'[w] = to /\ \A v \in Writers \ {w} : pc'[v] = pc[v]
      BY <2>5, GotoFrame
    <3> QED BY <2>2, <2>5, <3>1, HeadQuiet DEF BeforeSwap, Numbered, Written
  <2>6. CASE \/ \E kind \in Kinds, depr \in BOOLEAN : Begin(w, kind, depr)
             \/ CheckDir(w) \/ MakeDir(w)
    BY <2>3, <2>4, <2>6 DEF Begin, CheckDir, MakeDir, WriterTypeOK
  <2>7. CASE OpenCurrent(w) \/ FlushCurrent(w)
    BY <2>4, <2>7, ConstantsAssumption DEF OpenCurrent, FlushCurrent
  <2>8. CASE TryLock(w)
    <3>1. CASE UNCHANGED <<current, locked, pc, job, rev, err>>
      <4>1. UNCHANGED <<revisions, llog, acked>> /\ pc[w] = "lock"
        BY <2>8 DEF TryLock
      <4> QED BY <2>2, <3>1, <4>1, HeadQuiet DEF BeforeSwap, Numbered, Written
    <3>2. CASE current = Missing /\ Leave(w)
      BY <2>3, <2>8, <3>2 DEF TryLock
    <3> QED BY <2>2, <2>8, <3>1, <3>2, HeadLock DEF TryLock
  <2>9. CASE ReadRev(w)
    <3>1. CASE locked = Empty /\ Fail(w)
      <4>1. UNCHANGED <<current, locked, revisions, llog, acked>> /\ pc[w] = "read"
        BY <2>9 DEF ReadRev
      <4> QED BY <2>2, <3>1, <4>1, FailFrame, HeadQuiet, ConstantsAssumption
              DEF BeforeSwap, Numbered, Written
    <3>2. CASE Goto(w, "tmp") /\ UNCHANGED <<job, err>> /\ rev' = [rev EXCEPT ![w] = rev'[w]]
      <4>1. /\ UNCHANGED <<current, locked, revisions, llog, acked>> /\ pc[w] = "read"
            /\ \A v \in Writers \ {w} : rev'[v] = rev[v]
        BY <2>9, <3>2 DEF ReadRev, WriterTypeOK
      <4> QED BY <2>5, <3>2, <4>1 DEF PCs, BeforeSwap
    <3> QED BY <2>9, <3>1, <3>2 DEF ReadRev, WriterTypeOK
  <2>10. CASE WriteTmp(w) \/ LogGlobal(w)
    BY <2>5, <2>10 DEF WriteTmp, LogGlobal, BeforeSwap, PCs
  <2>11. CASE SwapTmp(w)
    BY <2>2, <2>11, HeadSwap DEF HeadInv
  <2>12. CASE TruncateRevision(w) \/ WriteRevision(w)
    BY <2>2, <2>12, HeadWrite
  <2>13. CASE LogLocal(w)
    BY <2>2, <2>13, HeadRecord
  <2>14. CASE Unlock(w)
    BY <2>2, <2>14, HeadUnlock
  <2>15. CASE Crash(w)
    BY <2>3, <2>15 DEF Crash
  <2> QED BY <1>2, <2>1, <2>6, <2>7, <2>8, <2>9, <2>10, <2>11, <2>12, <2>13, <2>14, <2>15
          DEF Step
<1> QED BY <1>1, <1>2 DEF Next

LEMMA HeadInvariant == Spec => []HeadInv
<1>1. Spec => [](TypeOK /\ LockInv /\ RevInv /\ LogInv)
  BY TypeCorrect, LockInvariant, RevisionInvariant, LogInvariant, PTL
<1>2. QED
  BY <1>1, FileInvariant, InitHead, HeadStep, PTL DEF Spec

\* Unless an I/O error happened, a reader never sees a torn or missing text: under the
\* number in `current` there is a complete one, or a delete that was acknowledged.
THEOREM HeadIsReadable == Spec => []VisibleHead
<1>1. HeadInv => VisibleHead
  BY DEF HeadInv, HeadFacts, VisibleHead
<1> QED BY <1>1, HeadInvariant, PTL

\* Unless an I/O error happened, the number a reader sees is the last one in the log.
THEOREM HeadIsLogged == Spec => []HeadLogged
<1>1. HeadInv => HeadLogged
  BY DEF HeadInv, HeadFacts, HeadLogged
<1> QED BY <1>1, HeadInvariant, PTL
==============================================================================
