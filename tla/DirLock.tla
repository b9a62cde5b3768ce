------------------------------ MODULE DirLock ------------------------------
(***************************************************************************)
(* ReadLock and WriteLock of MoinMoin/util/lock.py: locks between          *)
(* processes made of directories.  There is one write_lock directory, and  *)
(* any number of read_lock_ directories with unique names.  A reader takes *)
(* the write lock for as long as it makes its directory; a writer takes it *)
(* and then waits until there is no reader's directory.                    *)
(*                                                                         *)
(* A process that waits removes directories that are too old, because      *)
(* their makers may have died.                                             *)
(***************************************************************************)
EXTENDS FiniteSets

CONSTANTS
  Client,      \* processes that use the lock
  NoDir,       \* there is no write_lock directory
  MayExpire,   \* whether a lock may be held for longer than its timeout
  MayCrash     \* whether processes may die

ASSUME LockAssumption ==
  NoDir \notin Client /\ MayExpire \in BOOLEAN /\ MayCrash \in BOOLEAN

VARIABLES
  writeDir,   \* who made the write_lock directory, if there is one
  writeOld,   \* whether it is older than the timeout
  readDirs,   \* who has a read_lock_ directory
  readOld,    \* those of them that are older than the timeout
  pc,         \* where each client is
  mode,       \* which lock it is acquiring
  stolen      \* observed: a directory was removed that a living client relies on

lockVars == <<writeDir, writeOld, readDirs, readOld, pc, mode, stolen>>

Init ==
  /\ writeDir = NoDir /\ writeOld = FALSE
  /\ readDirs = {} /\ readOld = {}
  /\ pc = [c \in Client |-> "idle"]
  /\ mode = [c \in Client |-> "read"]
  /\ stolen = FALSE

Goto(c, from, to) == pc[c] = from /\ pc' = [pc EXCEPT ![c] = to]

Dead(c) == pc[c] = "dead"

\* Clients that have a directory and rely on it.
InWriteDir(c) == pc[c] \in {"mark", "unmark", "drain", "look", "exclusive"}
InReadDir(c)  == pc[c] \in {"unmark", "shared"}

------------------------------------------------------------------------------
(* ExclusiveLock *)

Acquire(c, m) ==
  /\ Goto(c, "idle", "try")
  /\ mode' = [mode EXCEPT ![c] = m]
  /\ UNCHANGED <<writeDir, writeOld, readDirs, readOld, stolen>>

\* Mutant of AfterMkdir: the writer does not wait for readers.
AfterMkdirAtOnce(m) == IF m = "read" THEN "mark" ELSE "exclusive"

AfterMkdir(m) == IF m = "read" THEN "mark" ELSE "drain"

Mkdir(c) ==
  /\ writeDir = NoDir
  /\ Goto(c, "try", AfterMkdir(mode[c]))
  /\ writeDir' = c /\ writeOld' = FALSE
  /\ UNCHANGED <<readDirs, readOld, mode, stolen>>

MkdirFails(c) ==
  /\ writeDir # NoDir
  /\ Goto(c, "try", "stat")
  /\ UNCHANGED <<writeDir, writeOld, readDirs, readOld, mode, stolen>>

\* The time the client wants to wait is over.
GiveUp(c) ==
  /\ Goto(c, "try", "idle")
  /\ UNCHANGED <<writeDir, writeOld, readDirs, readOld, mode, stolen>>

\* isExpired: "too old or missing".
Expired == writeDir = NoDir \/ writeOld

IsExpired(c) ==
  /\ Goto(c, "stat", IF Expired THEN "rmdir" ELSE "try")
  /\ UNCHANGED <<writeDir, writeOld, readDirs, readOld, mode, stolen>>

\* _removeLockDir: whosever it is.
RemoveWriteDir(c) ==
  /\ writeDir' = NoDir /\ writeOld' = FALSE
  /\ stolen' = (stolen \/ (writeDir \notin {NoDir, c} /\ ~Dead(writeDir)))

Expire(c) ==
  /\ Goto(c, "rmdir", "try")
  /\ RemoveWriteDir(c)
  /\ UNCHANGED <<readDirs, readOld, mode>>

------------------------------------------------------------------------------
(* ReadLock *)

Mark(c) ==
  /\ Goto(c, "mark", "unmark")
  /\ readDirs' = readDirs \cup {c}
  /\ UNCHANGED <<writeDir, writeOld, readOld, mode, stolen>>

Unmark(c) ==
  /\ Goto(c, "unmark", "shared")
  /\ RemoveWriteDir(c)
  /\ UNCHANGED <<readDirs, readOld, mode>>

\* Mutant of OtherReadDirs: the directory stays.
AllReadDirs(c) == readDirs

OtherReadDirs(c) == readDirs \ {c}

\* Mutant of StillOld: the age outlives the directory.
AsOld(c) == readOld

StillOld(c) == readOld \ {c}

ReleaseRead(c) ==
  /\ Goto(c, "shared", "idle")
  /\ readDirs' = OtherReadDirs(c) /\ readOld' = StillOld(c)
  /\ UNCHANGED <<writeDir, writeOld, mode, stolen>>

------------------------------------------------------------------------------
(* WriteLock *)

ExpireReadLocks(c) ==
  /\ Goto(c, "drain", "look")
  /\ readDirs' = readDirs \ readOld /\ readOld' = {}
  /\ stolen' = (stolen \/ \E r \in readOld : InReadDir(r))
  /\ UNCHANGED <<writeDir, writeOld, mode>>

HaveReadLocks(c) ==
  /\ Goto(c, "look", IF readDirs = {} THEN "exclusive" ELSE "drain")
  /\ UNCHANGED <<writeDir, writeOld, readDirs, readOld, mode, stolen>>

\* Time is over while there are readers.
GiveUpWrite(c) ==
  /\ Goto(c, "drain", "idle") \/ Goto(c, "look", "idle")
  /\ RemoveWriteDir(c)
  /\ UNCHANGED <<readDirs, readOld, mode>>

ReleaseWrite(c) ==
  /\ Goto(c, "exclusive", "idle")
  /\ RemoveWriteDir(c)
  /\ UNCHANGED <<readDirs, readOld, mode>>

------------------------------------------------------------------------------
(* Time and crashes *)

WriteDirAges ==
  /\ MayExpire /\ writeDir # NoDir /\ ~writeOld
  /\ writeOld' = TRUE
  /\ UNCHANGED <<writeDir, readDirs, readOld, pc, mode, stolen>>

ReadDirAges(c) ==
  /\ MayExpire /\ c \in readDirs \ readOld
  /\ readOld' = readOld \cup {c}
  /\ UNCHANGED <<writeDir, writeOld, readDirs, pc, mode, stolen>>

Crash(c) ==
  /\ MayCrash /\ pc[c] # "idle" /\ ~Dead(c)
  /\ pc' = [pc EXCEPT ![c] = "dead"]
  /\ UNCHANGED <<writeDir, writeOld, readDirs, readOld, mode, stolen>>

\* What goes on whatever the lock is used for.
Waiting(c) ==
  \/ Mkdir(c) \/ MkdirFails(c) \/ GiveUp(c) \/ IsExpired(c) \/ Expire(c)
  \/ Mark(c) \/ Unmark(c)
  \/ ExpireReadLocks(c) \/ HaveReadLocks(c) \/ GiveUpWrite(c)

Ageing == WriteDirAges \/ \E c \in Client : ReadDirAges(c)

Next ==
  \/ Ageing
  \/ \E c \in Client :
       \/ \E m \in {"read", "write"} : Acquire(c, m)
       \/ Waiting(c)
       \/ ReleaseRead(c) \/ ReleaseWrite(c)
       \/ Crash(c)

Spec == Init /\ [][Next]_lockVars
------------------------------------------------------------------------------
(***************************************************************************)
(* Properties.                                                             *)
(***************************************************************************)
Labels == {"idle", "try", "stat", "rmdir", "mark", "unmark", "shared",
           "drain", "look", "exclusive", "dead"}

LockTypeOK ==
  /\ writeDir \in Client \cup {NoDir} /\ writeOld \in BOOLEAN
  /\ readDirs \subseteq Client /\ readOld \subseteq readDirs
  /\ pc \in [Client -> Labels]
  /\ mode \in [Client -> {"read", "write"}]
  /\ stolen \in BOOLEAN

\* "Only one exclusive lock per resource is allowed": a client that has the
\* write lock has it alone, and nobody has a read lock.
Exclusion ==
  \A c, d \in Client :
    c # d /\ pc[c] = "exclusive" => pc[d] \notin {"exclusive", "shared"}

\* Waiting for the timer, the marks of readers and the order in which they are
\* made and looked for exclude each other, unless a directory is removed that
\* somebody relies on.
ExclusionUnlessStolen == stolen \/ Exclusion

\* However an attempt ends, a client that is alive and has no lock has left no
\* directory behind that others would have to wait for.
NothingLeft ==
  \A c \in Client :
    /\ c \in readDirs => InReadDir(c) \/ Dead(c)
    /\ writeDir = c => InWriteDir(c) \/ Dead(c)
=============================================================================
