--------------------------- MODULE TagStoreProofs ---------------------------
(* Proofs about DirLock and about TagStore, which rests on its lock. *)
EXTENDS TagStore, TLAPS
------------------------------------------------------------------------------
(* The lock. *)

\* Each client that relies on a directory has it, and once a writer has seen no
\* reader's directory there is none.
Hold ==
  stolen \/ /\ \A c \in Client : InWriteDir(c) => writeDir = c
            /\ \A c \in Client : InReadDir(c) => c \in readDirs
            /\ \A c \in Client : pc[c] = "exclusive" => readDirs = {}

IInv == LockTypeOK /\ NothingLeft /\ Hold

\* The invariant contains that locks exclude each other: nobody but the owner of
\* the write_lock directory is past it, and a reader has a directory.
LEMMA HoldExcludes == LockTypeOK /\ Hold => ExclusionUnlessStolen
  BY SMT DEF LockTypeOK, Hold, ExclusionUnlessStolen, Exclusion, InWriteDir, InReadDir

\* Nobody relies on anything in the beginning.
LEMMA InitInv == Init => IInv
<1> SUFFICES ASSUME Init PROVE IInv
  OBVIOUS
<1> USE LockAssumption DEF Init
<1>1. writeOld \in BOOLEAN /\ stolen \in BOOLEAN
  OBVIOUS
<1>2. LockTypeOK
  BY <1>1, SMT DEF LockTypeOK, Labels
<1>3. NothingLeft /\ Hold
  BY SMT DEF NothingLeft, Hold, InWriteDir, InReadDir, Dead
<1> QED
  BY <1>2, <1>3 DEF IInv

\* Removing the write_lock directory leaves none, and the types are kept.
LEMMA RemoveTypes ==
  ASSUME NEW c \in Client, RemoveWriteDir(c)
  PROVE  writeDir' = NoDir /\ writeOld' \in BOOLEAN /\ stolen' \in BOOLEAN
BY DEF RemoveWriteDir

\* Every step keeps the types.
LEMMA TypeInductive == LockTypeOK /\ [Next]_lockVars => LockTypeOK'
<1> SUFFICES ASSUME LockTypeOK, [Next]_lockVars PROVE LockTypeOK'
  OBVIOUS
<1> USE DEF LockTypeOK, Labels, Goto
<1>1. CASE WriteDirAges
  <2>1. writeOld' \in BOOLEAN
    BY <1>1 DEF WriteDirAges
  <2> QED
    BY <1>1, <2>1, SMT DEF WriteDirAges
<1>2. ASSUME NEW c \in Client, ReadDirAges(c) PROVE LockTypeOK'
  BY <1>2, SMT DEF ReadDirAges
<1>3. ASSUME NEW c \in Client, NEW m \in {"read", "write"}, Acquire(c, m)
      PROVE  LockTypeOK'
  BY <1>3, SMT DEF Acquire
<1>4. ASSUME NEW c \in Client, Waiting(c) PROVE LockTypeOK'
  <2>1. CASE Mkdir(c)
    <3>1. writeOld' \in BOOLEAN
      BY <2>1 DEF Mkdir
    <3> QED
      BY <2>1, <3>1, SMT DEF Mkdir, AfterMkdir
  <2>2. CASE MkdirFails(c)
    BY <2>2, SMT DEF MkdirFails
  <2>3. CASE GiveUp(c)
    BY <2>3, SMT DEF GiveUp
  <2>4. CASE IsExpired(c)
    BY <2>4, SMT DEF IsExpired
  <2>5. CASE Expire(c)
    BY <2>5, RemoveTypes, SMT DEF Expire
  <2>6. CASE Mark(c)
    BY <2>6, SMT DEF Mark
  <2>7. CASE Unmark(c)
    BY <2>7, RemoveTypes, SMT DEF Unmark
  <2>8. CASE ExpireReadLocks(c)
    BY <2>8, SMT DEF ExpireReadLocks
  <2>9. CASE HaveReadLocks(c)
    BY <2>9, SMT DEF HaveReadLocks
  <2>10. CASE GiveUpWrite(c)
    BY <2>10, RemoveTypes, SMT DEF GiveUpWrite
  <2> QED
    BY <1>4, <2>1, <2>2, <2>3, <2>4, <2>5, <2>6, <2>7, <2>8, <2>9, <2>10 DEF Waiting
<1>5. ASSUME NEW c \in Client, ReleaseRead(c) PROVE LockTypeOK'
  BY <1>5, SMT DEF ReleaseRead, OtherReadDirs, StillOld
<1>6. ASSUME NEW c \in Client, ReleaseWrite(c) PROVE LockTypeOK'
  BY <1>6, RemoveTypes, SMT DEF ReleaseWrite
<1>7. ASSUME NEW c \in Client, Crash(c) PROVE LockTypeOK'
  BY <1>7, SMT DEF Crash
<1>8. CASE UNCHANGED lockVars
  BY <1>8, SMT DEF lockVars
<1> QED
  BY <1>1, <1>2, <1>3, <1>4, <1>5, <1>6, <1>7, <1>8 DEF Next, Ageing

\* Every step keeps that nobody alive leaves a directory behind: whoever leaves
\* the lock, or gives up, removes what it made, and others only remove.
LEMMA NothingLeftInductive ==
  LockTypeOK /\ NothingLeft /\ [Next]_lockVars => NothingLeft'
<1> SUFFICES ASSUME LockTypeOK, NothingLeft, [Next]_lockVars PROVE NothingLeft'
  OBVIOUS
<1> USE LockAssumption DEF LockTypeOK, NothingLeft, Labels, Goto, InReadDir, InWriteDir, Dead
<1>1. CASE WriteDirAges
  BY <1>1, SMT DEF WriteDirAges
<1>2. ASSUME NEW c \in Client, ReadDirAges(c) PROVE NothingLeft'
  BY <1>2, SMT DEF ReadDirAges
<1>3. ASSUME NEW c \in Client, NEW m \in {"read", "write"}, Acquire(c, m)
      PROVE  NothingLeft'
  BY <1>3, SMT DEF Acquire
<1>4. ASSUME NEW c \in Client, Waiting(c) PROVE NothingLeft'
  <2>1. CASE Mkdir(c)
    BY <2>1, SMT DEF Mkdir, AfterMkdir
  <2>2. CASE MkdirFails(c)
    BY <2>2, SMT DEF MkdirFails
  <2>3. CASE GiveUp(c)
    BY <2>3, SMT DEF GiveUp
  <2>4. CASE IsExpired(c)
    BY <2>4, SMT DEF IsExpired
  <2>5. CASE Expire(c)
    BY <2>5, RemoveTypes, SMT DEF Expire
  <2>6. CASE Mark(c)
    BY <2>6, SMT DEF Mark
  <2>7. CASE Unmark(c)
    BY <2>7, RemoveTypes, SMT DEF Unmark
  <2>8. CASE ExpireReadLocks(c)
    BY <2>8, SMT DEF ExpireReadLocks
  <2>9. CASE HaveReadLocks(c)
    BY <2>9, SMT DEF HaveReadLocks
  <2>10. CASE GiveUpWrite(c)
    BY <2>10, RemoveTypes, SMT DEF GiveUpWrite
  <2> QED
    BY <1>4, <2>1, <2>2, <2>3, <2>4, <2>5, <2>6, <2>7, <2>8, <2>9, <2>10 DEF Waiting
<1>5. ASSUME NEW c \in Client, ReleaseRead(c) PROVE NothingLeft'
  BY <1>5, SMT DEF ReleaseRead, OtherReadDirs, StillOld
<1>6. ASSUME NEW c \in Client, ReleaseWrite(c) PROVE NothingLeft'
  BY <1>6, RemoveTypes, SMT DEF ReleaseWrite
<1>7. ASSUME NEW c \in Client, Crash(c) PROVE NothingLeft'
  BY <1>7, SMT DEF Crash
<1>8. CASE UNCHANGED lockVars
  BY <1>8, SMT DEF lockVars
<1> QED
  BY <1>1, <1>2, <1>3, <1>4, <1>5, <1>6, <1>7, <1>8 DEF Next, Ageing

\* As long as nothing is stolen, a directory is only removed by who made it or
\* when its maker is dead.
LEMMA RemoveSafe ==
  ASSUME NEW c \in Client, RemoveWriteDir(c), ~stolen'
  PROVE  ~stolen /\ (writeDir \in {NoDir, c} \/ Dead(writeDir))
BY DEF RemoveWriteDir

\* Every step keeps that who relies on a directory has it, unless the step removes
\* a directory somebody alive relies on.
LEMMA HoldInductive ==
  LockTypeOK /\ NothingLeft /\ Hold /\ [Next]_lockVars => Hold'
<1> SUFFICES ASSUME LockTypeOK, NothingLeft, Hold, [Next]_lockVars, ~stolen'
             PROVE  Hold'
  BY DEF Hold
<1> USE LockAssumption
        DEF LockTypeOK, NothingLeft, Hold, Labels, Goto, InReadDir, InWriteDir, Dead
<1>1. CASE WriteDirAges
  BY <1>1, SMT DEF WriteDirAges
<1>2. ASSUME NEW c \in Client, ReadDirAges(c) PROVE Hold'
  BY <1>2, SMT DEF ReadDirAges
<1>3. ASSUME NEW c \in Client, NEW m \in {"read", "write"}, Acquire(c, m)
      PROVE  Hold'
  BY <1>3, SMT DEF Acquire
<1>4. ASSUME NEW c \in Client, Waiting(c) PROVE Hold'
  <2>1. CASE Mkdir(c)
    BY <2>1, SMT DEF Mkdir, AfterMkdir
  <2>2. CASE MkdirFails(c)
    BY <2>2, SMT DEF MkdirFails
  <2>3. CASE GiveUp(c)
    BY <2>3, SMT DEF GiveUp
  <2>4. CASE IsExpired(c)
    BY <2>4, SMT DEF IsExpired
  <2>5. CASE Expire(c)
    BY <2>5, RemoveTypes, RemoveSafe, SMT DEF Expire
  <2>6. CASE Mark(c)
    BY <2>6, SMT DEF Mark
  <2>7. CASE Unmark(c)
    BY <2>7, RemoveTypes, RemoveSafe, SMT DEF Unmark
  <2>8. CASE ExpireReadLocks(c)
    <3>1. ~stolen /\ \A r \in readOld : ~InReadDir(r)
      BY <2>8 DEF ExpireReadLocks
    <3> QED
      BY <2>8, <3>1, SMT DEF ExpireReadLocks
  <2>9. CASE HaveReadLocks(c)
    BY <2>9, SMT DEF HaveReadLocks
  <2>10. CASE GiveUpWrite(c)
    BY <2>10, RemoveTypes, RemoveSafe, SMT DEF GiveUpWrite
  <2> QED
    BY <1>4, <2>1, <2>2, <2>3, <2>4, <2>5, <2>6, <2>7, <2>8, <2>9, <2>10 DEF Waiting
<1>5. ASSUME NEW c \in Client, ReleaseRead(c) PROVE Hold'
  BY <1>5, SMT DEF ReleaseRead, OtherReadDirs, StillOld
<1>6. ASSUME NEW c \in Client, ReleaseWrite(c) PROVE Hold'
  BY <1>6, RemoveTypes, RemoveSafe, SMT DEF ReleaseWrite
<1>7. ASSUME NEW c \in Client, Crash(c) PROVE Hold'
  BY <1>7, SMT DEF Crash
<1>8. CASE UNCHANGED lockVars
  BY <1>8, SMT DEF lockVars
<1> QED
  BY <1>1, <1>2, <1>3, <1>4, <1>5, <1>6, <1>7, <1>8 DEF Next, Ageing

\* The whole invariant is kept.
LEMMA Inductive == IInv /\ [Next]_lockVars => IInv'
  BY TypeInductive, NothingLeftInductive, HoldInductive DEF IInv

\* The inductive invariant holds for any number of processes.
THEOREM InvHolds == Spec => []IInv
  BY InitInv, Inductive, PTL DEF Spec

\* The types of all variables, for any number of processes.
THEOREM TypeHolds == Spec => []LockTypeOK
<1>1. IInv => LockTypeOK
  BY DEF IInv
<1> QED
  BY <1>1, InvHolds, PTL

\* However an attempt at a lock ends, a process that lives leaves no directory
\* behind that others would have to wait for.
THEOREM NothingLeftHolds == Spec => []NothingLeft
<1>1. IInv => NothingLeft
  BY DEF IInv
<1> QED
  BY <1>1, InvHolds, PTL

\* A writer is alone unless a directory was removed that a living process relied
\* on: the order of making and looking for directories is right.
THEOREM ExclusionHolds == Spec => []ExclusionUnlessStolen
<1>1. IInv => ExclusionUnlessStolen
  BY HoldExcludes DEF IInv
<1> QED
  BY <1>1, InvHolds, PTL
------------------------------------------------------------------------------
(* The file of tags. *)

\* Only who has the write lock, or has died with it, is at work on the file.
AtWork ==
  \A c \in Client :
    work[c] \in {"open", "dump", "written"} => pc[c] \in {"exclusive", "dead"}

\* What a client at work on the file has in its hands: all the tags that have
\* been added, and its own; and the file is torn only while one client writes it.
InHand ==
  stolen \/ lost \/
    /\ \A c \in Client : work[c] = "dump" => pc[c] = "exclusive"
    /\ \A c \in Client :
         work[c] \in {"open", "dump"} /\ pc[c] = "exclusive"
           => c \in tags[c] /\ added \subseteq tags[c]
    /\ \A c \in Client :
         work[c] = "written" /\ pc[c] = "exclusive" => ~torn /\ c \in file
    /\ torn => \E c \in Client : work[c] = "dump"
    /\ ~torn => added \subseteq file

TInv == TypeOK /\ NothingLeft /\ Hold /\ AtWork /\ InHand

\* Every step of the store is one of its lock, or none.
LEMMA LockStep == [TNext]_<<lockVars, tagVars>> => [Next]_lockVars
<1> SUFFICES ASSUME [TNext]_<<lockVars, tagVars>> PROVE [Next]_lockVars
  OBVIOUS
<1>1. CASE Ageing
  BY <1>1 DEF Next
<1>2. ASSUME NEW c \in Client, Start(c) PROVE Next
  BY <1>2 DEF Start, Next
<1>3. ASSUME NEW c \in Client, Load(c) \/ AppendTag(c) \/ Open(c) \/ Dump(c)
      PROVE  UNCHANGED lockVars
  BY <1>3 DEF Load, AppendTag, Open, Dump
<1>4. ASSUME NEW c \in Client, Release(c) PROVE Next
  BY <1>4 DEF Release, Next
<1>5. ASSUME NEW c \in Client, Waiting(c) PROVE Next
  BY <1>5 DEF Next
<1>8. ASSUME NEW c \in Client, DumpFails(c) PROVE Next
  BY <1>8 DEF DumpFails, Next
<1>6. ASSUME NEW c \in Client, Die(c) PROVE Next
  BY <1>6 DEF Die, Next
<1>7. CASE UNCHANGED <<lockVars, tagVars>>
  BY <1>7
<1> QED
  BY <1>1, <1>2, <1>3, <1>4, <1>5, <1>6, <1>7, <1>8 DEF TNext

\* A client that waits for the lock or takes it does not have the write lock
\* yet, and moves nobody else.
LEMMA WaitingFrame ==
  ASSUME LockTypeOK, NEW c \in Client, Waiting(c)
  PROVE  /\ pc[c] \notin {"exclusive", "dead"}
         /\ \A d \in Client : d # c => pc'[d] = pc[d]
         /\ stolen => stolen'
<1> USE DEF LockTypeOK, Goto
<1>1. pc[c] \notin {"exclusive", "dead"} /\ \A d \in Client : d # c => pc'[d] = pc[d]
  BY SMT DEF Waiting, Mkdir, MkdirFails, GiveUp, IsExpired, Expire, Mark, Unmark,
             ExpireReadLocks, HaveReadLocks, GiveUpWrite
<1>2. stolen => stolen'
  BY DEF Waiting, Mkdir, MkdirFails, GiveUp, IsExpired, Expire, Mark, Unmark,
         ExpireReadLocks, HaveReadLocks, GiveUpWrite, RemoveWriteDir
<1> QED
  BY <1>1, <1>2

\* The same for who enters or leaves the lock.
LEMMA AcquireFrame ==
  ASSUME LockTypeOK, NEW c \in Client, NEW m, Acquire(c, m)
  PROVE  /\ pc[c] = "idle"
         /\ \A d \in Client : d # c => pc'[d] = pc[d]
         /\ stolen => stolen'
BY SMT DEF Acquire, LockTypeOK, Goto

\* The same for who enters or leaves the lock.
LEMMA ReleaseReadFrame ==
  ASSUME LockTypeOK, NEW c \in Client, ReleaseRead(c)
  PROVE  /\ pc[c] = "shared"
         /\ \A d \in Client : d # c => pc'[d] = pc[d]
         /\ stolen => stolen'
BY SMT DEF ReleaseRead, LockTypeOK, Goto

\* The same for who enters or leaves the lock.
LEMMA ReleaseWriteFrame ==
  ASSUME LockTypeOK, NEW c \in Client, ReleaseWrite(c)
  PROVE  /\ pc[c] = "exclusive"
         /\ \A d \in Client : d # c => pc'[d] = pc[d]
         /\ stolen => stolen'
<1>1. pc[c] = "exclusive" /\ \A d \in Client : d # c => pc'[d] = pc[d]
  BY SMT DEF ReleaseWrite, LockTypeOK, Goto
<1>2. stolen => stolen'
  BY DEF ReleaseWrite, RemoveWriteDir
<1> QED
  BY <1>1, <1>2

\* Every step keeps the types.
LEMMA TagTypes == TypeOK /\ [TNext]_<<lockVars, tagVars>> => TypeOK'
<1> SUFFICES ASSUME TypeOK, [TNext]_<<lockVars, tagVars>> PROVE TypeOK'
  OBVIOUS
<1>1. LockTypeOK'
  BY LockStep, TypeInductive DEF TypeOK
<1> USE DEF TypeOK, Working
<1>2. ASSUME NEW c \in Client, Start(c) PROVE TypeOK'
  BY <1>1, <1>2, SMT DEF Start
<1>3. ASSUME NEW c \in Client, Load(c) PROVE TypeOK'
  BY <1>1, <1>3, SMT DEF Load, Loaded
<1>4. ASSUME NEW c \in Client, AppendTag(c) PROVE TypeOK'
  BY <1>1, <1>4, SMT DEF AppendTag, Fresh, Loaded
<1>5. ASSUME NEW c \in Client, Open(c) PROVE TypeOK'
  <2>1. torn' \in BOOLEAN
    BY <1>5 DEF Open
  <2> QED
    BY <1>1, <1>5, <2>1, SMT DEF Open
<1>6. ASSUME NEW c \in Client, Dump(c) PROVE TypeOK'
  <2>1. torn' \in BOOLEAN
    BY <1>6 DEF Dump
  <2> QED
    BY <1>1, <1>6, <2>1, SMT DEF Dump
<1>7. ASSUME NEW c \in Client, Release(c) PROVE TypeOK'
  BY <1>1, <1>7, SMT DEF Release, tagVars
<1>8. ASSUME NEW c \in Client, Die(c) PROVE TypeOK'
  <2>1. lost' \in BOOLEAN
    BY <1>8 DEF Die
  <2> QED
    BY <1>1, <1>8, <2>1, SMT DEF Die
<1>9. CASE UNCHANGED tagVars
  BY <1>1, <1>9, SMT DEF tagVars
<1>10. ASSUME NEW c \in Client, DumpFails(c) PROVE TypeOK'
  <2>1. lost' \in BOOLEAN
    BY <1>10 DEF DumpFails
  <2> QED
    BY <1>1, <1>10, <2>1, SMT DEF DumpFails
<1> QED
  BY <1>2, <1>3, <1>4, <1>5, <1>6, <1>7, <1>8, <1>9, <1>10 DEF TNext

\* Every step keeps that only who has the write lock is at work on the file.
LEMMA AtWorkInductive ==
  TypeOK /\ AtWork /\ [TNext]_<<lockVars, tagVars>> => AtWork'
<1> SUFFICES ASSUME TypeOK, AtWork, [TNext]_<<lockVars, tagVars>> PROVE AtWork'
  OBVIOUS
<1>0. LockTypeOK
  BY DEF TypeOK
<1> USE DEF TypeOK, AtWork, Working
<1>1. ASSUME NEW c \in Client, Start(c) PROVE AtWork'
  BY <1>0, <1>1, AcquireFrame, SMT DEF Start
<1>2. ASSUME NEW c \in Client, Load(c) \/ AppendTag(c) \/ Open(c) \/ Dump(c)
      PROVE  AtWork'
  BY <1>2, SMT DEF Load, AppendTag, Open, Dump, lockVars
<1>3. ASSUME NEW c \in Client, Release(c) PROVE AtWork'
  BY <1>0, <1>3, ReleaseReadFrame, ReleaseWriteFrame, SMT DEF Release, tagVars
<1>4. ASSUME NEW c \in Client, Waiting(c), UNCHANGED tagVars PROVE AtWork'
  BY <1>0, <1>4, WaitingFrame, SMT DEF tagVars
<1>5. ASSUME NEW c \in Client, Die(c) PROVE AtWork'
  BY <1>0, <1>5, SMT DEF Die, Crash, LockTypeOK
<1>6. CASE Ageing /\ UNCHANGED tagVars
  BY <1>6, SMT DEF Ageing, WriteDirAges, ReadDirAges, tagVars
<1>7. CASE UNCHANGED <<lockVars, tagVars>>
  BY <1>7, SMT DEF lockVars, tagVars
<1>8. ASSUME NEW c \in Client, DumpFails(c) PROVE AtWork'
  BY <1>0, <1>8, ReleaseWriteFrame, SMT DEF DumpFails
<1> QED
  BY <1>1, <1>2, <1>3, <1>4, <1>5, <1>6, <1>7, <1>8 DEF TNext

\* Every step keeps what is in hand, unless a lock is stolen or a client fails
\* or dies with the file truncated.
LEMMA InHandInductive ==
  TypeOK /\ Hold /\ AtWork /\ InHand /\ [TNext]_<<lockVars, tagVars>> => InHand'
<1> SUFFICES ASSUME TypeOK, Hold, AtWork, InHand, [TNext]_<<lockVars, tagVars>>,
                    ~stolen', ~lost'
             PROVE  InHand'
  BY DEF InHand
<1>0. LockTypeOK /\ (~stolen => Exclusion)
  BY HoldExcludes DEF TypeOK, ExclusionUnlessStolen
<1> USE DEF TypeOK, AtWork, InHand, Working, Exclusion
<1>1. ASSUME NEW c \in Client, Start(c) PROVE InHand'
  <2>1. ~stolen /\ ~lost
    BY <1>0, <1>1, AcquireFrame DEF Start
  <2> QED
    BY <1>0, <1>1, <2>1, AcquireFrame, SMT DEF Start
<1>2. ASSUME NEW c \in Client, Load(c) PROVE InHand'
  BY <1>2, SMT DEF Load, lockVars
<1>3. ASSUME NEW c \in Client, AppendTag(c) PROVE InHand'
  <2>1. ~stolen /\ ~lost
    BY <1>3 DEF AppendTag, lockVars
  <2>2. ~torn
    BY <1>0, <1>3, <2>1, SMT DEF AppendTag
  <2> QED
    BY <1>3, <2>1, <2>2, SMT DEF AppendTag, Fresh, Loaded, lockVars
<1>4. ASSUME NEW c \in Client, Open(c) PROVE InHand'
  <2>1. ~stolen /\ ~lost
    BY <1>4 DEF Open, lockVars
  <2> QED
    BY <1>0, <1>4, <2>1, SMT DEF Open, lockVars
<1>5. ASSUME NEW c \in Client, Dump(c) PROVE InHand'
  <2>1. ~stolen /\ ~lost
    BY <1>5 DEF Dump, lockVars
  <2> QED
    BY <1>0, <1>5, <2>1, SMT DEF Dump, lockVars
<1>6. ASSUME NEW c \in Client, Release(c) PROVE InHand'
  <2>1. ~stolen /\ ~lost
    BY <1>0, <1>6, ReleaseReadFrame, ReleaseWriteFrame DEF Release, tagVars
  <2>2. CASE work[c] = "made" /\ ReleaseRead(c) /\ UNCHANGED tagVars
    BY <1>0, <2>1, <2>2, ReleaseReadFrame, SMT DEF tagVars
  <2>3. CASE Working(c, "written", "end") /\ ReleaseWrite(c)
    BY <1>0, <1>6, <2>1, <2>3, ReleaseWriteFrame, SMT DEF Release
  <2> QED
    BY <1>6, <2>2, <2>3 DEF Release
<1>7. ASSUME NEW c \in Client, Waiting(c), UNCHANGED tagVars PROVE InHand'
  <2>1. ~stolen /\ ~lost
    BY <1>0, <1>7, WaitingFrame DEF tagVars
  <2> QED
    BY <1>0, <1>7, <2>1, WaitingFrame, SMT DEF tagVars
<1>8. ASSUME NEW c \in Client, Die(c) PROVE InHand'
  <2>1. ~stolen /\ ~lost /\ work[c] # "dump"
    BY <1>8 DEF Die, Crash
  <2> QED
    BY <1>0, <1>8, <2>1, SMT DEF Die, Crash, LockTypeOK
<1>9. CASE Ageing /\ UNCHANGED tagVars
  BY <1>9, SMT DEF Ageing, WriteDirAges, ReadDirAges, tagVars
<1>10. CASE UNCHANGED <<lockVars, tagVars>>
  BY <1>10, SMT DEF lockVars, tagVars
<1>11. ASSUME NEW c \in Client, DumpFails(c) PROVE InHand'
  BY <1>11 DEF DumpFails
<1> QED
  BY <1>1, <1>2, <1>3, <1>4, <1>5, <1>6, <1>7, <1>8, <1>9, <1>10, <1>11 DEF TNext

\* Nobody is at work in the beginning.
LEMMA TagInit == TInit => TInv
<1> SUFFICES ASSUME TInit PROVE TInv
  OBVIOUS
<1>1. LockTypeOK /\ NothingLeft /\ Hold
  BY InitInv DEF TInit, IInv
<1>2. torn \in BOOLEAN /\ lost \in BOOLEAN /\ ~torn
  BY DEF TInit
<1>3. TypeOK
  BY <1>1, <1>2, SMT DEF TInit, TypeOK
<1>4. AtWork /\ InHand
  BY <1>2, SMT DEF TInit, AtWork, InHand
<1> QED
  BY <1>1, <1>3, <1>4 DEF TInv

\* The whole invariant is kept.
LEMMA TagInductive == TInv /\ [TNext]_<<lockVars, tagVars>> => TInv'
<1> SUFFICES ASSUME TInv, [TNext]_<<lockVars, tagVars>> PROVE TInv'
  OBVIOUS
<1>1. LockTypeOK /\ [Next]_lockVars
  BY LockStep DEF TInv, TypeOK
<1>2. NothingLeft' /\ Hold'
  BY <1>1, NothingLeftInductive, HoldInductive DEF TInv
<1> QED
  BY <1>2, TagTypes, AtWorkInductive, InHandInductive DEF TInv

\* The inductive invariant of the store holds for any number of processes.
THEOREM TagInvHolds == TSpec => []TInv
  BY TagInit, TagInductive, PTL DEF TSpec

\* What the store does with its lock is what the lock's own specification allows.
THEOREM UsesLock == TSpec => Spec
<1>1. TInit => Init
  BY DEF TInit
<1> QED
  BY <1>1, LockStep, PTL DEF TSpec, Spec

\* The types of all variables, for any number of processes.
THEOREM TagTypeHolds == TSpec => []TypeOK
<1>1. TInv => TypeOK
  BY DEF TInv
<1> QED
  BY <1>1, TagInvHolds, PTL

\* No tag whose add has returned is lost, for any number of processes that add
\* tags, unless a lock is stolen or a process fails
\* or dies with the file truncated.
THEOREM TagsKeptHolds == TSpec => []TagsKept
<1>1. ASSUME TInv, ~stolen, ~lost PROVE added \subseteq Kept
  <2>1. CASE torn
    <3>1. PICK c \in Client : work[c] = "dump"
      BY <1>1, <2>1 DEF TInv, InHand
    <3>2. added \subseteq tags[c]
      BY <1>1, <3>1, SMT DEF TInv, InHand
    <3> QED
      BY <2>1, <3>1, <3>2, SMT DEF Kept
  <2>2. CASE ~torn
    BY <1>1, <2>2 DEF TInv, InHand, Kept
  <2> QED
    BY <2>1, <2>2
<1>2. TInv => TagsKept
  BY <1>1 DEF TagsKept
<1> QED
  BY <1>2, TagInvHolds, PTL
=============================================================================
