-------------------------- MODULE RepoLockProofs --------------------------
(***************************************************************************)
(* Theorems about RepoLock: type correctness, the inductive invariant from *)
(* which its safety properties follow, and that it implements              *)
(* ExclusiveAccess, for every set of processes, threads, paths and lock    *)
(* files.                                                                  *)
(***************************************************************************)
EXTENDS RepoLockRefinement, TLAPS

USE ConstantsAssumption
    DEF Idle, StaleRelease, OpPoints, ScopePoints, ReleasePoints, Points

\* The steps preserve the types, and no call leaves a deadline or a release
\* flag behind for the next.
LEMMA TypeStep ==
  TypeOK /\ ReleasedIsMarked /\ [Next]_vars
    => TypeOK' /\ ReleasedIsMarked'
<1> SUFFICES ASSUME TypeOK, ReleasedIsMarked, [Next]_vars
             PROVE  TypeOK' /\ ReleasedIsMarked'
  OBVIOUS
<1> USE DEF TypeOK, ReleasedIsMarked, Goto, Return, TakeMutex, DropMutex,
            MutexOf
<1>1. ASSUME NEW t \in Threads, Call(t)
      PROVE  TypeOK' /\ ReleasedIsMarked'
  <2>1. ASSUME NEW c \in Paths, OpCall(t, c)
       PROVE  TypeOK' /\ ReleasedIsMarked'
    BY <2>1 DEF OpCall
  <2>2. ASSUME NEW c \in Paths, ScopeCall(t, c)
       PROVE  TypeOK' /\ ReleasedIsMarked'
    BY <2>2 DEF ScopeCall
  \* The flag is clear when a scope object arrives,
  <2>3. ASSUME NEW c \in Paths, HandleRelease(t, c)
       PROVE  TypeOK' /\ ReleasedIsMarked'
    BY <2>3 DEF HandleRelease
  <2>4. ASSUME NEW c \in Paths, HandleReleaseAgain(t, c)
       PROVE  TypeOK' /\ ReleasedIsMarked'
    BY <2>4 DEF HandleReleaseAgain
  <2> QED
    BY <2>1, <2>2, <2>3, <2>4, <1>1 DEF Call
<1>2. ASSUME NEW t \in Threads, OpStep(t)
      PROVE  TypeOK' /\ ReleasedIsMarked'
  <2>1. CASE OpTakeMutex(t)
    BY <2>1 DEF OpTakeMutex
  <2>2. CASE OpEnterScope(t)
    BY <2>2 DEF OpEnterScope
  <2>3. CASE OpOpenFile(t)
    BY <2>3 DEF OpOpenFile
  <2>4. CASE OpLockFile(t)
    BY <2>4 DEF OpLockFile
  <2>5. CASE OpTimeout(t)
    BY <2>5 DEF OpTimeout
  <2> QED
    BY <2>1, <2>2, <2>3, <2>4, <2>5, <1>2 DEF OpStep
<1>3. ASSUME NEW t \in Threads, OpEnd(t)
      PROVE  TypeOK' /\ ReleasedIsMarked'
  <2>1. CASE OpDropFile(t)
    BY <2>1 DEF OpDropFile
  <2>2. CASE OpDropMutex(t)
    BY <2>2 DEF OpDropMutex
  <2> QED
    BY <2>1, <2>2, <1>3 DEF OpEnd
<1>4. ASSUME NEW t \in Threads, ScopeStep(t)
      PROVE  TypeOK' /\ ReleasedIsMarked'
  <2>1. CASE ScopeTakeMutex(t)
    BY <2>1 DEF ScopeTakeMutex
  <2>2. CASE ScopeMutexBusy(t)
    BY <2>2 DEF ScopeMutexBusy
  <2>3. CASE ScopeInsert(t)
    BY <2>3 DEF ScopeInsert
  <2>4. CASE ScopeReturn(t)
    BY <2>4 DEF ScopeReturn
  <2>5. CASE ScopeBusy(t)
    BY <2>5 DEF ScopeBusy
  <2>6. CASE ScopeTimeout(t)
    BY <2>6 DEF ScopeTimeout
  <2>7. CASE ScopeRetry(t)
    BY <2>7 DEF ScopeRetry
  <2> QED
    BY <2>1, <2>2, <2>3, <2>4, <2>5, <2>6, <2>7, <1>4 DEF ScopeStep
<1>5. ASSUME NEW t \in Threads, ReleaseStep(t)
      PROVE  TypeOK' /\ ReleasedIsMarked'
  \* set by its first release,
  <2>1. CASE ReleaseStart(t)
    BY <2>1 DEF ReleaseStart
  <2>2. CASE ReleaseTakeMutex(t)
    BY <2>2 DEF ReleaseTakeMutex
  <2>3. CASE ReleaseRemove(t)
    BY <2>3 DEF ReleaseRemove
  <2>4. CASE ReleaseDropMutex(t)
    BY <2>4 DEF ReleaseDropMutex
  \* and gone with the object.
  <2>5. CASE ReleaseAgain(t)
    BY <2>5 DEF ReleaseAgain
  <2>6. CASE StaleReleaseReturn(t)
    BY <2>6 DEF StaleReleaseReturn
  <2> QED
    BY <2>1, <2>2, <2>3, <2>4, <2>5, <2>6, <1>5 DEF ReleaseStep
<1>6. ASSUME NEW t \in Threads, OpIoError(t)
      PROVE  TypeOK' /\ ReleasedIsMarked'
  BY <1>6 DEF OpIoError
<1>7. ASSUME NEW t \in Threads, ScopeIoError(t)
      PROVE  TypeOK' /\ ReleasedIsMarked'
  BY <1>7 DEF ScopeIoError
<1>8. ASSUME NEW t \in Threads, DeadlinePasses(t)
      PROVE  TypeOK' /\ ReleasedIsMarked'
  BY <1>8 DEF DeadlinePasses
<1>9. ASSUME NEW p \in Processes, Crash(p)
      PROVE  TypeOK' /\ ReleasedIsMarked'
  BY <1>9 DEF Crash
<1>10. CASE UNCHANGED vars
  BY <1>10 DEF vars
<1> QED
  BY <1>1, <1>2, <1>3, <1>4, <1>5, <1>6, <1>7, <1>8, <1>9, <1>10
  DEF Next

\* A thread enters the mutex when it is free and leaves it when it drops it.
LEMMA MutexStep ==
  TypeOK /\ MutexIsOwned /\ [Next]_vars
    => MutexIsOwned'
<1> SUFFICES ASSUME TypeOK, MutexIsOwned, [Next]_vars
             PROVE  MutexIsOwned'
  OBVIOUS
<1> USE DEF TypeOK, MutexIsOwned, InMutex, Goto, Return, TakeMutex,
            DropMutex, MutexOf
<1>1. ASSUME NEW t \in Threads, Call(t)
      PROVE  MutexIsOwned'
  <2>1. ASSUME NEW c \in Paths, OpCall(t, c)
       PROVE  MutexIsOwned'
    BY <2>1 DEF OpCall
  <2>2. ASSUME NEW c \in Paths, ScopeCall(t, c)
       PROVE  MutexIsOwned'
    BY <2>2 DEF ScopeCall
  <2>3. ASSUME NEW c \in Paths, HandleRelease(t, c)
       PROVE  MutexIsOwned'
    BY <2>3 DEF HandleRelease
  <2>4. ASSUME NEW c \in Paths, HandleReleaseAgain(t, c)
       PROVE  MutexIsOwned'
    BY <2>4 DEF HandleReleaseAgain
  <2> QED
    BY <2>1, <2>2, <2>3, <2>4, <1>1 DEF Call
<1>2. ASSUME NEW t \in Threads, OpStep(t)
      PROVE  MutexIsOwned'
  \* The mutex was free, so nobody else is inside.
  <2>1. CASE OpTakeMutex(t)
    BY <2>1 DEF OpTakeMutex
  <2>2. CASE OpEnterScope(t)
    BY <2>2 DEF OpEnterScope
  <2>3. CASE OpOpenFile(t)
    BY <2>3 DEF OpOpenFile
  <2>4. CASE OpLockFile(t)
    BY <2>4 DEF OpLockFile
  <2>5. CASE OpTimeout(t)
    BY <2>5 DEF OpTimeout
  <2> QED
    BY <2>1, <2>2, <2>3, <2>4, <2>5, <1>2 DEF OpStep
<1>3. ASSUME NEW t \in Threads, OpEnd(t)
      PROVE  MutexIsOwned'
  <2>1. CASE OpDropFile(t)
    BY <2>1 DEF OpDropFile
  <2>2. CASE OpDropMutex(t)
    BY <2>2 DEF OpDropMutex
  <2> QED
    BY <2>1, <2>2, <1>3 DEF OpEnd
<1>4. ASSUME NEW t \in Threads, ScopeStep(t)
      PROVE  MutexIsOwned'
  \* Likewise.
  <2>1. CASE ScopeTakeMutex(t)
    BY <2>1 DEF ScopeTakeMutex
  <2>2. CASE ScopeMutexBusy(t)
    BY <2>2 DEF ScopeMutexBusy
  <2>3. CASE ScopeInsert(t)
    BY <2>3 DEF ScopeInsert
  <2>4. CASE ScopeReturn(t)
    BY <2>4 DEF ScopeReturn
  <2>5. CASE ScopeBusy(t)
    BY <2>5 DEF ScopeBusy
  <2>6. CASE ScopeTimeout(t)
    BY <2>6 DEF ScopeTimeout
  <2>7. CASE ScopeRetry(t)
    BY <2>7 DEF ScopeRetry
  <2> QED
    BY <2>1, <2>2, <2>3, <2>4, <2>5, <2>6, <2>7, <1>4 DEF ScopeStep
<1>5. ASSUME NEW t \in Threads, ReleaseStep(t)
      PROVE  MutexIsOwned'
  <2>1. CASE ReleaseStart(t)
    BY <2>1 DEF ReleaseStart
  \* Likewise.
  <2>2. CASE ReleaseTakeMutex(t)
    BY <2>2 DEF ReleaseTakeMutex
  <2>3. CASE ReleaseRemove(t)
    BY <2>3 DEF ReleaseRemove
  <2>4. CASE ReleaseDropMutex(t)
    BY <2>4 DEF ReleaseDropMutex
  <2>5. CASE ReleaseAgain(t)
    BY <2>5 DEF ReleaseAgain
  <2>6. CASE StaleReleaseReturn(t)
    BY <2>6 DEF StaleReleaseReturn
  <2> QED
    BY <2>1, <2>2, <2>3, <2>4, <2>5, <2>6, <1>5 DEF ReleaseStep
<1>6. ASSUME NEW t \in Threads, OpIoError(t)
      PROVE  MutexIsOwned'
  BY <1>6 DEF OpIoError
<1>7. ASSUME NEW t \in Threads, ScopeIoError(t)
      PROVE  MutexIsOwned'
  BY <1>7 DEF ScopeIoError
<1>8. ASSUME NEW t \in Threads, DeadlinePasses(t)
      PROVE  MutexIsOwned'
  BY <1>8 DEF DeadlinePasses
<1>9. ASSUME NEW p \in Processes, Crash(p)
      PROVE  MutexIsOwned'
  BY <1>9 DEF Crash
<1>10. CASE UNCHANGED vars
  BY <1>10 DEF vars
<1> QED
  BY <1>1, <1>2, <1>3, <1>4, <1>5, <1>6, <1>7, <1>8, <1>9, <1>10
  DEF Next

\* A descriptor is locked only when the file is free of every other.
LEMMA DescriptorStep ==
  TypeOK /\ OneDescriptorPerFile /\ DescriptorsAreUsed /\ [Next]_vars
    => OneDescriptorPerFile' /\ DescriptorsAreUsed'
<1> SUFFICES ASSUME TypeOK, OneDescriptorPerFile, DescriptorsAreUsed,
                    [Next]_vars
             PROVE  OneDescriptorPerFile' /\ DescriptorsAreUsed'
  OBVIOUS
<1> USE DEF TypeOK, OneDescriptorPerFile, DescriptorsAreUsed, Running,
            FileLocked, LockFile, Goto, Return, TakeMutex, DropMutex,
            MutexOf
<1>1. ASSUME NEW t \in Threads, Call(t)
      PROVE  OneDescriptorPerFile' /\ DescriptorsAreUsed'
  <2>1. ASSUME NEW c \in Paths, OpCall(t, c)
       PROVE  OneDescriptorPerFile' /\ DescriptorsAreUsed'
    BY <2>1 DEF OpCall
  <2>2. ASSUME NEW c \in Paths, ScopeCall(t, c)
       PROVE  OneDescriptorPerFile' /\ DescriptorsAreUsed'
    BY <2>2 DEF ScopeCall
  <2>3. ASSUME NEW c \in Paths, HandleRelease(t, c)
       PROVE  OneDescriptorPerFile' /\ DescriptorsAreUsed'
    BY <2>3 DEF HandleRelease
  <2>4. ASSUME NEW c \in Paths, HandleReleaseAgain(t, c)
       PROVE  OneDescriptorPerFile' /\ DescriptorsAreUsed'
    BY <2>4 DEF HandleReleaseAgain
  <2> QED
    BY <2>1, <2>2, <2>3, <2>4, <1>1 DEF Call
<1>2. ASSUME NEW t \in Threads, OpStep(t)
      PROVE  OneDescriptorPerFile' /\ DescriptorsAreUsed'
  <2>1. CASE OpTakeMutex(t)
    BY <2>1 DEF OpTakeMutex
  <2>2. CASE OpEnterScope(t)
    BY <2>2 DEF OpEnterScope
  <2>3. CASE OpOpenFile(t)
    BY <2>3 DEF OpOpenFile
  \* try_lock succeeds only when no descriptor holds the file,
  <2>4. CASE OpLockFile(t)
    BY <2>4 DEF OpLockFile
  <2>5. CASE OpTimeout(t)
    BY <2>5 DEF OpTimeout
  <2> QED
    BY <2>1, <2>2, <2>3, <2>4, <2>5, <1>2 DEF OpStep
<1>3. ASSUME NEW t \in Threads, OpEnd(t)
      PROVE  OneDescriptorPerFile' /\ DescriptorsAreUsed'
  \* the descriptor closes as the operation ends,
  <2>1. CASE OpDropFile(t)
    BY <2>1 DEF OpDropFile
  <2>2. CASE OpDropMutex(t)
    BY <2>2 DEF OpDropMutex
  <2> QED
    BY <2>1, <2>2, <1>3 DEF OpEnd
<1>4. ASSUME NEW t \in Threads, ScopeStep(t)
      PROVE  OneDescriptorPerFile' /\ DescriptorsAreUsed'
  <2>1. CASE ScopeTakeMutex(t)
    BY <2>1 DEF ScopeTakeMutex
  <2>2. CASE ScopeMutexBusy(t)
    BY <2>2 DEF ScopeMutexBusy
  \* here as there;
  <2>3. CASE ScopeInsert(t)
    BY <2>3 DEF ScopeInsert
  <2>4. CASE ScopeReturn(t)
    BY <2>4 DEF ScopeReturn
  <2>5. CASE ScopeBusy(t)
    BY <2>5 DEF ScopeBusy
  <2>6. CASE ScopeTimeout(t)
    BY <2>6 DEF ScopeTimeout
  <2>7. CASE ScopeRetry(t)
    BY <2>7 DEF ScopeRetry
  <2> QED
    BY <2>1, <2>2, <2>3, <2>4, <2>5, <2>6, <2>7, <1>4 DEF ScopeStep
<1>5. ASSUME NEW t \in Threads, ReleaseStep(t)
      PROVE  OneDescriptorPerFile' /\ DescriptorsAreUsed'
  <2>1. CASE ReleaseStart(t)
    BY <2>1 DEF ReleaseStart
  <2>2. CASE ReleaseTakeMutex(t)
    BY <2>2 DEF ReleaseTakeMutex
  \* or as the entry is removed,
  <2>3. CASE ReleaseRemove(t)
    BY <2>3 DEF ReleaseRemove
  <2>4. CASE ReleaseDropMutex(t)
    BY <2>4 DEF ReleaseDropMutex
  <2>5. CASE ReleaseAgain(t)
    BY <2>5 DEF ReleaseAgain
  <2>6. CASE StaleReleaseReturn(t)
    BY <2>6 DEF StaleReleaseReturn
  <2> QED
    BY <2>1, <2>2, <2>3, <2>4, <2>5, <2>6, <1>5 DEF ReleaseStep
<1>6. ASSUME NEW t \in Threads, OpIoError(t)
      PROVE  OneDescriptorPerFile' /\ DescriptorsAreUsed'
  BY <1>6 DEF OpIoError
<1>7. ASSUME NEW t \in Threads, ScopeIoError(t)
      PROVE  OneDescriptorPerFile' /\ DescriptorsAreUsed'
  BY <1>7 DEF ScopeIoError
<1>8. ASSUME NEW t \in Threads, DeadlinePasses(t)
      PROVE  OneDescriptorPerFile' /\ DescriptorsAreUsed'
  BY <1>8 DEF DeadlinePasses
\* or as the process dies.
<1>9. ASSUME NEW p \in Processes, Crash(p)
      PROVE  OneDescriptorPerFile' /\ DescriptorsAreUsed'
  BY <1>9 DEF Crash
<1>10. CASE UNCHANGED vars
  BY <1>10 DEF vars
<1> QED
  BY <1>1, <1>2, <1>3, <1>4, <1>5, <1>6, <1>7, <1>8, <1>9, <1>10
  DEF Next

\* A scope passes from its acquirer to its handle to its releaser.
LEMMA OwnerStep ==
  TypeOK /\ ReleasedIsMarked /\ MutexIsOwned /\ ScopeHasOneOwner /\ HandleIsHeld /\ [Next]_vars
    => ScopeHasOneOwner' /\ HandleIsHeld'
<1> SUFFICES ASSUME TypeOK, ReleasedIsMarked, MutexIsOwned,
                    ScopeHasOneOwner, HandleIsHeld, [Next]_vars
             PROVE  ScopeHasOneOwner' /\ HandleIsHeld'
  OBVIOUS
<1> USE DEF TypeOK, ReleasedIsMarked, MutexIsOwned, ScopeHasOneOwner,
            HandleIsHeld, OwnsScope, InScope, InMutex, Goto, Return,
            TakeMutex, DropMutex, MutexOf
<1>1. ASSUME NEW t \in Threads, Call(t)
      PROVE  ScopeHasOneOwner' /\ HandleIsHeld'
  <2>1. ASSUME NEW c \in Paths, OpCall(t, c)
       PROVE  ScopeHasOneOwner' /\ HandleIsHeld'
    BY <2>1 DEF OpCall
  <2>2. ASSUME NEW c \in Paths, ScopeCall(t, c)
       PROVE  ScopeHasOneOwner' /\ HandleIsHeld'
    BY <2>2 DEF ScopeCall
  \* the handle's becomes the releaser's,
  <2>3. ASSUME NEW c \in Paths, HandleRelease(t, c)
       PROVE  ScopeHasOneOwner' /\ HandleIsHeld'
    BY <2>3 DEF HandleRelease
  <2>4. ASSUME NEW c \in Paths, HandleReleaseAgain(t, c)
       PROVE  ScopeHasOneOwner' /\ HandleIsHeld'
    BY <2>4 DEF HandleReleaseAgain
  <2> QED
    BY <2>1, <2>2, <2>3, <2>4, <1>1 DEF Call
<1>2. ASSUME NEW t \in Threads, OpStep(t)
      PROVE  ScopeHasOneOwner' /\ HandleIsHeld'
  <2>1. CASE OpTakeMutex(t)
    BY <2>1 DEF OpTakeMutex
  <2>2. CASE OpEnterScope(t)
    BY <2>2 DEF OpEnterScope
  <2>3. CASE OpOpenFile(t)
    BY <2>3 DEF OpOpenFile
  <2>4. CASE OpLockFile(t)
    BY <2>4 DEF OpLockFile
  <2>5. CASE OpTimeout(t)
    BY <2>5 DEF OpTimeout
  <2> QED
    BY <2>1, <2>2, <2>3, <2>4, <2>5, <1>2 DEF OpStep
<1>3. ASSUME NEW t \in Threads, OpEnd(t)
      PROVE  ScopeHasOneOwner' /\ HandleIsHeld'
  <2>1. CASE OpDropFile(t)
    BY <2>1 DEF OpDropFile
  <2>2. CASE OpDropMutex(t)
    BY <2>2 DEF OpDropMutex
  <2> QED
    BY <2>1, <2>2, <1>3 DEF OpEnd
<1>4. ASSUME NEW t \in Threads, ScopeStep(t)
      PROVE  ScopeHasOneOwner' /\ HandleIsHeld'
  <2>1. CASE ScopeTakeMutex(t)
    BY <2>1 DEF ScopeTakeMutex
  <2>2. CASE ScopeMutexBusy(t)
    BY <2>2 DEF ScopeMutexBusy
  \* There was no entry, so the scope had no owner.
  <2>3. CASE ScopeInsert(t)
    BY <2>3 DEF ScopeInsert
  \* The acquirer's ownership becomes the handle's,
  <2>4. CASE ScopeReturn(t)
    BY <2>4 DEF ScopeReturn
  <2>5. CASE ScopeBusy(t)
    BY <2>5 DEF ScopeBusy
  <2>6. CASE ScopeTimeout(t)
    BY <2>6 DEF ScopeTimeout
  <2>7. CASE ScopeRetry(t)
    BY <2>7 DEF ScopeRetry
  <2> QED
    BY <2>1, <2>2, <2>3, <2>4, <2>5, <2>6, <2>7, <1>4 DEF ScopeStep
<1>5. ASSUME NEW t \in Threads, ReleaseStep(t)
      PROVE  ScopeHasOneOwner' /\ HandleIsHeld'
  <2>1. CASE ReleaseStart(t)
    BY <2>1 DEF ReleaseStart
  <2>2. CASE ReleaseTakeMutex(t)
    BY <2>2 DEF ReleaseTakeMutex
  \* which ends with the entry, and with nobody else owning it;
  <2>3. CASE ReleaseRemove(t)
    BY <2>3 DEF ReleaseRemove
  \* the flag keeps the drop from being a second owner.
  <2>4. CASE ReleaseDropMutex(t)
    BY <2>4 DEF ReleaseDropMutex
  <2>5. CASE ReleaseAgain(t)
    BY <2>5 DEF ReleaseAgain
  <2>6. CASE StaleReleaseReturn(t)
    BY <2>6 DEF StaleReleaseReturn
  <2> QED
    BY <2>1, <2>2, <2>3, <2>4, <2>5, <2>6, <1>5 DEF ReleaseStep
<1>6. ASSUME NEW t \in Threads, OpIoError(t)
      PROVE  ScopeHasOneOwner' /\ HandleIsHeld'
  BY <1>6 DEF OpIoError
<1>7. ASSUME NEW t \in Threads, ScopeIoError(t)
      PROVE  ScopeHasOneOwner' /\ HandleIsHeld'
  BY <1>7 DEF ScopeIoError
<1>8. ASSUME NEW t \in Threads, DeadlinePasses(t)
      PROVE  ScopeHasOneOwner' /\ HandleIsHeld'
  BY <1>8 DEF DeadlinePasses
<1>9. ASSUME NEW p \in Processes, Crash(p)
      PROVE  ScopeHasOneOwner' /\ HandleIsHeld'
  BY <1>9 DEF Crash
<1>10. CASE UNCHANGED vars
  BY <1>10 DEF vars
<1> QED
  BY <1>1, <1>2, <1>3, <1>4, <1>5, <1>6, <1>7, <1>8, <1>9, <1>10
  DEF Next

\* A scope begins and ends inside the mutex, where no operation of the same path
\* is: none runs on a scope that ends, none polls for a scope that begins.
LEMMA CoverStep ==
  TypeOK /\ MutexIsOwned /\ DescriptorsAreUsed /\ RunningIsCovered /\ NoSelfWait /\ [Next]_vars
    => RunningIsCovered' /\ NoSelfWait'
<1> SUFFICES ASSUME TypeOK, MutexIsOwned, DescriptorsAreUsed,
                    RunningIsCovered, NoSelfWait, [Next]_vars
             PROVE  RunningIsCovered' /\ NoSelfWait'
  OBVIOUS
<1> USE DEF TypeOK, MutexIsOwned, DescriptorsAreUsed, RunningIsCovered,
            NoSelfWait, Running, InScope, InMutex, Goto, Return, TakeMutex,
            DropMutex, MutexOf
<1>1. ASSUME NEW t \in Threads, Call(t)
      PROVE  RunningIsCovered' /\ NoSelfWait'
  <2>1. ASSUME NEW c \in Paths, OpCall(t, c)
       PROVE  RunningIsCovered' /\ NoSelfWait'
    BY <2>1 DEF OpCall
  <2>2. ASSUME NEW c \in Paths, ScopeCall(t, c)
       PROVE  RunningIsCovered' /\ NoSelfWait'
    BY <2>2 DEF ScopeCall
  <2>3. ASSUME NEW c \in Paths, HandleRelease(t, c)
       PROVE  RunningIsCovered' /\ NoSelfWait'
    BY <2>3 DEF HandleRelease
  <2>4. ASSUME NEW c \in Paths, HandleReleaseAgain(t, c)
       PROVE  RunningIsCovered' /\ NoSelfWait'
    BY <2>4 DEF HandleReleaseAgain
  <2> QED
    BY <2>1, <2>2, <2>3, <2>4, <1>1 DEF Call
<1>2. ASSUME NEW t \in Threads, OpStep(t)
      PROVE  RunningIsCovered' /\ NoSelfWait'
  <2>1. CASE OpTakeMutex(t)
    BY <2>1 DEF OpTakeMutex
  \* The scope is there when the operation starts,
  <2>2. CASE OpEnterScope(t)
    BY <2>2 DEF OpEnterScope
  \* No scope is there when the operation starts to poll,
  <2>3. CASE OpOpenFile(t)
    BY <2>3 DEF OpOpenFile
  <2>4. CASE OpLockFile(t)
    BY <2>4 DEF OpLockFile
  <2>5. CASE OpTimeout(t)
    BY <2>5 DEF OpTimeout
  <2> QED
    BY <2>1, <2>2, <2>3, <2>4, <2>5, <1>2 DEF OpStep
<1>3. ASSUME NEW t \in Threads, OpEnd(t)
      PROVE  RunningIsCovered' /\ NoSelfWait'
  <2>1. CASE OpDropFile(t)
    BY <2>1 DEF OpDropFile
  <2>2. CASE OpDropMutex(t)
    BY <2>2 DEF OpDropMutex
  <2> QED
    BY <2>1, <2>2, <1>3 DEF OpEnd
<1>4. ASSUME NEW t \in Threads, ScopeStep(t)
      PROVE  RunningIsCovered' /\ NoSelfWait'
  <2>1. CASE ScopeTakeMutex(t)
    BY <2>1 DEF ScopeTakeMutex
  <2>2. CASE ScopeMutexBusy(t)
    BY <2>2 DEF ScopeMutexBusy
  \* and while it polls no acquirer is inside the mutex.
  <2>3. CASE ScopeInsert(t)
    BY <2>3 DEF ScopeInsert
  <2>4. CASE ScopeReturn(t)
    BY <2>4 DEF ScopeReturn
  <2>5. CASE ScopeBusy(t)
    BY <2>5 DEF ScopeBusy
  <2>6. CASE ScopeTimeout(t)
    BY <2>6 DEF ScopeTimeout
  <2>7. CASE ScopeRetry(t)
    BY <2>7 DEF ScopeRetry
  <2> QED
    BY <2>1, <2>2, <2>3, <2>4, <2>5, <2>6, <2>7, <1>4 DEF ScopeStep
<1>5. ASSUME NEW t \in Threads, ReleaseStep(t)
      PROVE  RunningIsCovered' /\ NoSelfWait'
  <2>1. CASE ReleaseStart(t)
    BY <2>1 DEF ReleaseStart
  <2>2. CASE ReleaseTakeMutex(t)
    BY <2>2 DEF ReleaseTakeMutex
  \* and while it runs no release is inside the mutex.
  <2>3. CASE ReleaseRemove(t)
    BY <2>3 DEF ReleaseRemove
  <2>4. CASE ReleaseDropMutex(t)
    BY <2>4 DEF ReleaseDropMutex
  <2>5. CASE ReleaseAgain(t)
    BY <2>5 DEF ReleaseAgain
  <2>6. CASE StaleReleaseReturn(t)
    BY <2>6 DEF StaleReleaseReturn
  <2> QED
    BY <2>1, <2>2, <2>3, <2>4, <2>5, <2>6, <1>5 DEF ReleaseStep
<1>6. ASSUME NEW t \in Threads, OpIoError(t)
      PROVE  RunningIsCovered' /\ NoSelfWait'
  BY <1>6 DEF OpIoError
<1>7. ASSUME NEW t \in Threads, ScopeIoError(t)
      PROVE  RunningIsCovered' /\ NoSelfWait'
  BY <1>7 DEF ScopeIoError
<1>8. ASSUME NEW t \in Threads, DeadlinePasses(t)
      PROVE  RunningIsCovered' /\ NoSelfWait'
  BY <1>8 DEF DeadlinePasses
<1>9. ASSUME NEW p \in Processes, Crash(p)
      PROVE  RunningIsCovered' /\ NoSelfWait'
  BY <1>9 DEF Crash
<1>10. CASE UNCHANGED vars
  BY <1>10 DEF vars
<1> QED
  BY <1>1, <1>2, <1>3, <1>4, <1>5, <1>6, <1>7, <1>8, <1>9, <1>10
  DEF Next

-----------------------------------------------------------------------------
\* The types of the state, and that no deadline or release flag outlives the
\* call it belongs to.
THEOREM TypeCorrect == Spec => []TypeOK
<1>1. Init => TypeOK /\ ReleasedIsMarked
  BY DEF Init, TypeOK, ReleasedIsMarked
<1>2. TypeOK /\ ReleasedIsMarked /\ [Next]_vars => (TypeOK /\ ReleasedIsMarked)'
  BY TypeStep
<1> QED
  BY <1>1, <1>2, PTL DEF Spec

\* The inductive invariant: the mutex has the owner it names, each file has one
\* locked descriptor, each scope one owner, and operations are covered.
THEOREM LockInvariant == Spec => []IInv
<1>1. Init => IInv
  BY DEF Init, IInv, TypeOK, MutexIsOwned, OneDescriptorPerFile, DescriptorsAreUsed,
         ScopeHasOneOwner, OwnsScope, ReleasedIsMarked, RunningIsCovered, NoSelfWait,
         HandleIsHeld, Running, InMutex
<1>2. IInv /\ [Next]_vars => IInv'
  BY TypeStep, MutexStep, DescriptorStep, OwnerStep, CoverStep DEF IInv
<1> QED
  BY <1>1, <1>2, PTL DEF Spec

\* The invariant leaves no room for two operations on one lock file.
LEMMA ExcludesOthers == IInv => MutualExclusion
<1> SUFFICES ASSUME IInv,
                    NEW t \in Threads, NEW u \in Threads,
                    Running(t), Running(u), LockFile(path[t]) = LockFile(path[u])
             PROVE  t = u
  BY DEF MutualExclusion
<1> USE DEF IInv, TypeOK, OneDescriptorPerFile
\* Each is covered by a descriptor of its own or by a scope of its process.
<1>1. (t \in opFile \/ InScope(t)) /\ (u \in opFile \/ InScope(u))
  BY DEF RunningIsCovered
<1>2. CASE t \in opFile /\ u \in opFile
  BY <1>2
\* A file has no two descriptors, so a scope excludes a descriptor,
<1>3. CASE t \in opFile /\ InScope(u)
  BY <1>3 DEF InScope
<1>4. CASE u \in opFile /\ InScope(t)
  BY <1>4 DEF InScope
\* and two operations in scopes are in the same one, where the mutex decides.
<1>5. CASE InScope(t) /\ InScope(u)
  <2>1. ProcessOf[t] = ProcessOf[u] /\ path[t] = path[u]
    BY <1>5 DEF InScope
  <2>2. MutexOf(t) = t /\ MutexOf(u) = u
    BY DEF MutexIsOwned, InMutex, Running
  <2> QED
    BY <2>1, <2>2 DEF MutexOf
<1> QED
  BY <1>1, <1>2, <1>3, <1>4, <1>5

\* The reason the lock exists: at no time do two operations run against one
\* lock file, whatever the processes, threads, scopes, paths and crashes.
THEOREM OneOperationPerFile == Spec => []MutualExclusion
  BY ExcludesOthers, LockInvariant, PTL

\* An operation that skipped the file because its process holds a scope is
\* covered by that scope until it ends: a release waits for it.
THEOREM OperationsAreCovered == Spec => []RunningIsCovered
<1>1. IInv => RunningIsCovered
  BY DEF IInv
<1> QED
  BY <1>1, LockInvariant, PTL

\* Between acquireRepositoryLock and release no other process operates on the
\* repository: the window a scope exists to close.
THEOREM ScopesExcludeOtherProcesses == Spec => []ScopeExcludesOtherProcesses
<1>1. IInv => ScopeExcludesOtherProcesses
  <2> SUFFICES ASSUME IInv,
                      NEW p \in Processes, NEW c \in handles[p], NEW t \in Threads,
                      Running(t), LockFile(path[t]) = LockFile(c)
               PROVE  ProcessOf[t] = p
    BY DEF ScopeExcludesOtherProcesses
  <2>1. c \in heldScopes[p]
    BY DEF IInv, HandleIsHeld
  <2>2. t \in opFile \/ path[t] \in heldScopes[ProcessOf[t]]
    BY DEF IInv, RunningIsCovered, InScope
  <2> QED
    BY <2>1, <2>2 DEF IInv, OneDescriptorPerFile
<1> QED
  BY <1>1, LockInvariant, PTL

\* No operation polls the lock file of a path for which its own process holds a
\* scope: a call made inside a scope, by the same path, never waits for it.
THEOREM NoOperationWaitsOnItself == Spec => []NoSelfWait
<1>1. IInv => NoSelfWait
  BY DEF IInv
<1> QED
  BY <1>1, LockInvariant, PTL

\* An unreleased handle holds its lock: no release of an earlier scope on the
\* same path, repeated or late, takes it away.
THEOREM HandlesHoldTheirLock == Spec => []HandleIsHeld
<1>1. IInv => HandleIsHeld
  BY DEF IInv
<1> QED
  BY <1>1, LockInvariant, PTL

-----------------------------------------------------------------------------
(***************************************************************************)
(* RepoLock implements ExclusiveAccess.                                    *)
(***************************************************************************)

\* The mapping is well defined: a locked file has one holder, which is the
\* owner that is chosen, and a file somebody works on one worker.
OwnerIsHolder ==
  \A f \in GitDirs :
    /\ \A p \in Processes : HoldsFile(p, f) => Owner(f) = p
    /\ (\A p \in Processes : ~HoldsFile(p, f)) => Owner(f) = Nobody

WorkerWorks ==
  \A f \in GitDirs :
    /\ \A t \in Threads : WorksOn(t, f) => Worker(f) = t
    /\ (\A t \in Threads : ~WorksOn(t, f)) => Worker(f) = Nobody

\* One descriptor per file makes the owner unique.
LEMMA OwnerDefined == IInv => OwnerIsHolder
<1> SUFFICES ASSUME IInv, NEW f \in GitDirs
             PROVE  /\ \A p \in Processes : HoldsFile(p, f) => Owner(f) = p
                    /\ (\A p \in Processes : ~HoldsFile(p, f)) => Owner(f) = Nobody
  BY DEF OwnerIsHolder
<1>1. FileLocked(f) <=> \E p \in Processes : HoldsFile(p, f)
  BY DEF IInv, TypeOK, FileLocked, HoldsFile
<1>2. \A p, q \in Processes : HoldsFile(p, f) /\ HoldsFile(q, f) => p = q
  BY DEF HoldsFile, IInv, OneDescriptorPerFile, TypeOK
<1> QED
  BY <1>1, <1>2 DEF Owner

\* Mutual exclusion makes the worker unique.
LEMMA WorkerDefined == IInv => WorkerWorks
<1> SUFFICES ASSUME IInv, NEW f \in GitDirs
             PROVE  /\ \A t \in Threads : WorksOn(t, f) => Worker(f) = t
                    /\ (\A t \in Threads : ~WorksOn(t, f)) => Worker(f) = Nobody
  BY DEF WorkerWorks
<1>1. MutualExclusion
  BY ExcludesOthers
<1>2. \A t, u \in Threads : WorksOn(t, f) /\ WorksOn(u, f) => t = u
  BY <1>1 DEF MutualExclusion, WorksOn
<1> QED
  BY <1>2 DEF Worker

\* What the steps are mapped from.
Mapped == IInv /\ OwnerIsHolder /\ WorkerWorks

\* A step changes the owner and the worker of a file only if it changes who
\* holds it and who works on it.
LEMMA ViewStep ==
  ASSUME Mapped, Mapped',
         NEW f \in GitDirs
  PROVE  /\ (\A p \in Processes : HoldsFile(p, f)' <=> HoldsFile(p, f))
               => Owner(f)' = Owner(f)
         /\ (\A t \in Threads : WorksOn(t, f)' <=> WorksOn(t, f))
               => Worker(f)' = Worker(f)
<1>1. ASSUME \A p \in Processes : HoldsFile(p, f)' <=> HoldsFile(p, f)
      PROVE  Owner(f)' = Owner(f)
  BY <1>1 DEF Mapped, OwnerIsHolder
<1>2. ASSUME \A t \in Threads : WorksOn(t, f)' <=> WorksOn(t, f)
      PROVE  Worker(f)' = Worker(f)
  BY <1>2 DEF Mapped, WorkerWorks
<1> QED
  BY <1>1, <1>2

\* Every step is one of the abstract lock, or shows nothing of it.
LEMMA RefinesStep ==
  Mapped /\ Mapped' /\ [Next]_vars => [Abstract!Next]_(Abstract!vars)
<1> SUFFICES ASSUME Mapped, Mapped', [Next]_vars
             PROVE  Abstract!Next \/ UNCHANGED Abstract!vars
  OBVIOUS
<1> USE DEF Mapped, IInv, TypeOK, Goto, Return, TakeMutex, DropMutex, MutexOf
\* A step that opens and closes no descriptor and starts and ends no operation
\* shows nothing.
<1>1. ASSUME UNCHANGED <<opFile, heldScopes>>,
             \A t \in Threads : Running(t)' <=> Running(t),
             \A t \in Threads : Running(t) => path'[t] = path[t]
      PROVE  UNCHANGED Abstract!vars
  <2>1. ASSUME NEW f \in GitDirs
        PROVE  /\ \A p \in Processes : HoldsFile(p, f)' <=> HoldsFile(p, f)
               /\ \A t \in Threads : WorksOn(t, f)' <=> WorksOn(t, f)
    BY <1>1 DEF HoldsFile, WorksOn, LockFile, DescriptorsAreUsed
  <2> QED
    BY <2>1, ViewStep DEF Abstract!vars
<1>2. ASSUME NEW t \in Threads, Call(t)
      PROVE  UNCHANGED Abstract!vars
  <2>1. ASSUME NEW c \in Paths,
               OpCall(t, c) \/ ScopeCall(t, c) \/ HandleRelease(t, c) \/ HandleReleaseAgain(t, c)
        PROVE  UNCHANGED Abstract!vars
    BY <1>1, <2>1 DEF OpCall, ScopeCall, HandleRelease, HandleReleaseAgain, Running
  <2> QED
    BY <1>2, <2>1 DEF Call
<1>3. ASSUME NEW t \in Threads, OpStep(t)
      PROVE  Abstract!Next \/ UNCHANGED Abstract!vars
  \* An operation that finds its process's scope begins to work under it,
  <2>1. CASE OpEnterScope(t)
    <3>1. PICK f \in GitDirs : f = LockFile(path[t])
      BY DEF LockFile
    <3>2. Owner(f) = ProcessOf[t]
      BY <2>1, <3>1 DEF OpEnterScope, InScope, HoldsFile, OwnerIsHolder
    <3>3. \A u \in Threads, g \in GitDirs :
            WorksOn(u, g)' <=> WorksOn(u, g) \/ (u = t /\ g = f)
      BY <2>1, <3>1 DEF OpEnterScope, WorksOn, Running, LockFile
    <3>4. \A u \in Threads : ~WorksOn(u, f)
      BY <2>1, <3>1, <3>3 DEF OpEnterScope, WorksOn, Running, WorkerWorks
    <3>5. Worker(f) = Nobody /\ Worker(f)' = t
      BY <3>1, <3>3, <3>4 DEF WorkerWorks
    <3>6. \A g \in GitDirs : Owner(g)' = Owner(g) /\ (g # f => Worker(g)' = Worker(g))
      BY <2>1, <3>3, ViewStep DEF OpEnterScope, HoldsFile, LockFile
    <3>7. Abstract!Begin(t, f)
      BY <3>1, <3>2, <3>5, <3>6 DEF Abstract!Begin
    <3> QED
      BY <3>1, <3>7 DEF Abstract!Next
  \* one that locks the file takes it for itself,
  <2>2. CASE OpLockFile(t)
    <3>1. PICK f \in GitDirs : f = LockFile(path[t])
      BY DEF LockFile
    <3>2. \A u \in Threads, g \in GitDirs :
            WorksOn(u, g)' <=> WorksOn(u, g) \/ (u = t /\ g = f)
      BY <2>2, <3>1 DEF OpLockFile, WorksOn, Running, LockFile
    <3>3. \A p \in Processes, g \in GitDirs :
            HoldsFile(p, g)' <=> HoldsFile(p, g) \/ (p = ProcessOf[t] /\ g = f)
      BY <2>2, <3>1 DEF OpLockFile, HoldsFile, LockFile
    <3>4. Owner(f) = Nobody /\ Owner(f)' = ProcessOf[t]
      BY <2>2, <3>1, <3>3 DEF OpLockFile, OwnerIsHolder, FileLocked, HoldsFile
    <3>5. Worker(f)' = t
      BY <3>1, <3>2 DEF WorkerWorks
    <3>6. \A g \in GitDirs : g # f => Owner(g)' = Owner(g) /\ Worker(g)' = Worker(g)
      BY <3>2, <3>3, ViewStep
    <3>7. Abstract!ClaimAndBegin(t, f)
      BY <3>1, <3>4, <3>5, <3>6 DEF Abstract!ClaimAndBegin
    <3> QED
      BY <3>1, <3>7 DEF Abstract!Next
  <2>3. CASE OpTakeMutex(t) \/ OpOpenFile(t) \/ OpTimeout(t)
    BY <1>1, <2>3 DEF OpTakeMutex, OpOpenFile, OpTimeout, Running
  <2> QED
    BY <1>3, <2>1, <2>2, <2>3 DEF OpStep
<1>4. ASSUME NEW t \in Threads, OpEnd(t)
      PROVE  Abstract!Next \/ UNCHANGED Abstract!vars
  \* and gives it up with the end of its work; the other only ends.
  <2>1. CASE OpDropFile(t)
    <3>1. PICK f \in GitDirs : f = LockFile(path[t])
      BY DEF LockFile
    <3>2. Worker(f) = t
      BY <2>1, <3>1 DEF OpDropFile, WorksOn, Running, WorkerWorks
    <3>3. \A u \in Threads, g \in GitDirs :
            WorksOn(u, g)' <=> WorksOn(u, g) /\ ~(u = t /\ g = f)
      BY <2>1, <3>1 DEF OpDropFile, WorksOn, Running, LockFile
    <3>4. Worker(f)' = Nobody
      BY <3>1, <3>2, <3>3 DEF WorkerWorks
    <3>5. CASE t \in opFile
      <4>1. \A p \in Processes, g \in GitDirs :
              HoldsFile(p, g)' <=> HoldsFile(p, g) /\ g # f
        BY <2>1, <3>1, <3>5 DEF OpDropFile, HoldsFile, LockFile, OneDescriptorPerFile
      <4>2. Owner(f)' = Nobody
        BY <3>1, <4>1 DEF OwnerIsHolder
      <4>3. \A g \in GitDirs : g # f => Owner(g)' = Owner(g) /\ Worker(g)' = Worker(g)
        BY <3>3, <4>1, ViewStep
      <4>4. Abstract!EndAndFree(t, f)
        BY <3>1, <3>2, <3>4, <4>2, <4>3 DEF Abstract!EndAndFree
      <4> QED
        BY <3>1, <4>4 DEF Abstract!Next
    <3>6. CASE t \notin opFile
      <4>1. \A g \in GitDirs : Owner(g)' = Owner(g) /\ (g # f => Worker(g)' = Worker(g))
        <5>1. opFile' = opFile /\ heldScopes' = heldScopes /\ path' = path
          BY <2>1, <3>6 DEF OpDropFile
        <5>2. \A p \in Processes, g \in GitDirs : HoldsFile(p, g)' <=> HoldsFile(p, g)
          BY <5>1 DEF HoldsFile, LockFile
        <5> QED
          BY <3>3, <5>2, ViewStep
      <4>2. Abstract!End(t, f)
        <5> HIDE DEF Mapped, IInv, TypeOK, Goto, Return, TakeMutex, DropMutex, MutexOf
        <5> QED
          BY <3>1, <3>2, <3>4, <4>1 DEF Abstract!End
      <4> QED
        BY <3>1, <4>2 DEF Abstract!Next
    <3> QED
      BY <3>5, <3>6
  <2>2. CASE OpDropMutex(t)
    BY <1>1, <2>2 DEF OpDropMutex, Running
  <2> QED
    BY <1>4, <2>1, <2>2 DEF OpEnd
<1>5. ASSUME NEW t \in Threads, ScopeStep(t)
      PROVE  Abstract!Next \/ UNCHANGED Abstract!vars
  \* A scope claims the file for its process,
  <2>1. CASE ScopeInsert(t)
    <3>1. PICK f \in GitDirs : f = LockFile(path[t])
      BY DEF LockFile
    <3>2. \A p \in Processes, g \in GitDirs :
            HoldsFile(p, g)' <=> HoldsFile(p, g) \/ (p = ProcessOf[t] /\ g = f)
      BY <2>1, <3>1 DEF ScopeInsert, HoldsFile, LockFile
    <3>3. Owner(f) = Nobody /\ Owner(f)' = ProcessOf[t]
      BY <2>1, <3>1, <3>2 DEF ScopeInsert, OwnerIsHolder, FileLocked, HoldsFile
    <3>4. \A g \in GitDirs : Worker(g)' = Worker(g) /\ (g # f => Owner(g)' = Owner(g))
      BY <2>1, <3>2, ViewStep DEF ScopeInsert, WorksOn, Running, LockFile
    <3>5. Abstract!Claim(ProcessOf[t], f)
      BY <3>1, <3>3, <3>4 DEF Abstract!Claim
    <3> QED
      BY <3>1, <3>5 DEF Abstract!Next
  <2>2. CASE \/ ScopeTakeMutex(t) \/ ScopeMutexBusy(t) \/ ScopeReturn(t)
             \/ ScopeBusy(t) \/ ScopeTimeout(t) \/ ScopeRetry(t)
    BY <1>1, <2>2 DEF ScopeTakeMutex, ScopeMutexBusy, ScopeReturn, ScopeBusy,
                      ScopeTimeout, ScopeRetry, Running
  <2> QED
    BY <1>5, <2>1, <2>2 DEF ScopeStep
<1>6. ASSUME NEW t \in Threads, ReleaseStep(t)
      PROVE  Abstract!Next \/ UNCHANGED Abstract!vars
  \* and its removal frees the file, with nobody at work.
  <2>1. CASE ReleaseRemove(t)
    <3>1. PICK f \in GitDirs : f = LockFile(path[t])
      BY DEF LockFile
    <3>2. path[t] \in heldScopes[ProcessOf[t]]
      BY <2>1 DEF ReleaseRemove, ScopeHasOneOwner, OwnsScope, InScope
    <3>3. \A p \in Processes, g \in GitDirs :
            HoldsFile(p, g)' <=> HoldsFile(p, g) /\ g # f
      BY <2>1, <3>1, <3>2 DEF ReleaseRemove, HoldsFile, LockFile, OneDescriptorPerFile
    <3>4. Owner(f) = ProcessOf[t] /\ Owner(f)' = Nobody
      BY <3>1, <3>2, <3>3 DEF OwnerIsHolder, HoldsFile, LockFile
    \* Who worked here would be in this scope, and so inside the mutex.
    <3>5. \A u \in Threads : ~WorksOn(u, f)
      <4> SUFFICES ASSUME NEW u \in Threads, WorksOn(u, f)
                   PROVE  FALSE
        OBVIOUS
      <4>1. u \in opFile \/ path[u] \in heldScopes[ProcessOf[u]]
        BY DEF WorksOn, RunningIsCovered, InScope
      <4>2. ProcessOf[u] = ProcessOf[t] /\ path[u] = path[t]
        BY <3>1, <3>2, <4>1 DEF WorksOn, OneDescriptorPerFile, LockFile
      <4> QED
        BY <2>1, <4>2 DEF ReleaseRemove, WorksOn, Running, MutexIsOwned, InMutex
    <3>6. Worker(f) = Nobody
      BY <3>1, <3>5 DEF WorkerWorks
    <3>7. \A g \in GitDirs : Worker(g)' = Worker(g) /\ (g # f => Owner(g)' = Owner(g))
      BY <2>1, <3>3, ViewStep DEF ReleaseRemove, WorksOn, Running, LockFile
    <3>8. Abstract!Free(f) \/ UNCHANGED Abstract!vars
      BY <3>1, <3>4, <3>6, <3>7 DEF Abstract!Free, Abstract!vars
    <3> QED
      BY <3>1, <3>8 DEF Abstract!Next
  <2>2. CASE \/ ReleaseStart(t) \/ ReleaseTakeMutex(t) \/ ReleaseDropMutex(t)
             \/ ReleaseAgain(t) \/ StaleReleaseReturn(t)
    BY <1>1, <2>2 DEF ReleaseStart, ReleaseTakeMutex, ReleaseDropMutex, ReleaseAgain,
                      StaleReleaseReturn, Running
  <2> QED
    BY <1>6, <2>1, <2>2 DEF ReleaseStep
<1>7. ASSUME NEW t \in Threads, OpIoError(t) \/ ScopeIoError(t) \/ DeadlinePasses(t)
      PROVE  UNCHANGED Abstract!vars
  BY <1>1, <1>7 DEF OpIoError, ScopeIoError, DeadlinePasses, Running
\* A process that dies gives up all it held.
<1>8. ASSUME NEW p \in Processes, Crash(p)
      PROVE  Abstract!Next
  <2>1. \A f \in GitDirs : \A q \in Processes :
          HoldsFile(q, f)' <=> HoldsFile(q, f) /\ q # p
    BY <1>8 DEF Crash, HoldsFile, LockFile
  <2>2. \A f \in GitDirs : \A t \in Threads :
          WorksOn(t, f)' <=> WorksOn(t, f) /\ ProcessOf[t] # p
    BY <1>8 DEF Crash, WorksOn, Running, LockFile
  <2>3. \A f \in GitDirs : \A t \in Threads : WorksOn(t, f) => HoldsFile(ProcessOf[t], f)
    BY DEF WorksOn, RunningIsCovered, InScope, HoldsFile
  <2>4. \A f \in GitDirs : Owner(f)' = IF Owner(f) = p THEN Nobody ELSE Owner(f)
    <3> SUFFICES ASSUME NEW f \in GitDirs
                 PROVE  Owner(f)' = IF Owner(f) = p THEN Nobody ELSE Owner(f)
      OBVIOUS
    <3>1. CASE HoldsFile(p, f)
      BY <2>1, <3>1 DEF OwnerIsHolder
    <3>2. CASE ~HoldsFile(p, f)
      BY <2>1, <3>2, ViewStep DEF OwnerIsHolder
    <3> QED
      BY <3>1, <3>2
  <2>5. \A f \in GitDirs : Worker(f)' = IF Owner(f) = p THEN Nobody ELSE Worker(f)
    <3> SUFFICES ASSUME NEW f \in GitDirs
                 PROVE  Worker(f)' = IF Owner(f) = p THEN Nobody ELSE Worker(f)
      OBVIOUS
    <3>1. CASE \E t \in Threads : WorksOn(t, f)
      BY <2>2, <2>3, <3>1 DEF OwnerIsHolder, WorkerWorks
    <3>2. CASE \A t \in Threads : ~WorksOn(t, f)
      BY <2>2, <3>2 DEF WorkerWorks
    <3> QED
      BY <3>1, <3>2
  <2>6. Abstract!Die(p)
    BY <2>4, <2>5 DEF Abstract!Die
  <2> QED
    BY <2>6 DEF Abstract!Next
<1>9. CASE UNCHANGED vars
  BY <1>1, <1>9 DEF vars, Running
<1> QED
  BY <1>2, <1>3, <1>4, <1>5, <1>6, <1>7, <1>8, <1>9 DEF Next

\* The two-layer lock implements the abstract one.
THEOREM Refinement == Spec => ImplementsExclusiveAccess
<1>1. Init => Abstract!Init
  BY DEF Init, Abstract!Init, Owner, FileLocked, Worker, WorksOn, Running
<1>2. IInv => Mapped
  BY OwnerDefined, WorkerDefined DEF Mapped
<1> QED
  BY <1>1, <1>2, RefinesStep, LockInvariant, PTL
  DEF Spec, ImplementsExclusiveAccess, Abstract!Spec
=============================================================================
