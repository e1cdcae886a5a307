------------------------------ MODULE RepoLock ------------------------------
(***************************************************************************)
(* The two-layer repository lock of src/utils.rs: lock_repo, the guard it  *)
(* returns (RepoLock), and the explicit scope (acquire_scope,              *)
(* RepositoryScope) with the napi handle that owns it.                     *)
(*                                                                         *)
(* Layer one is a mutex per canonical path and per process (REPO_LOCKS).   *)
(* Layer two is an advisory lock on a file in the git directory, held by   *)
(* an open descriptor: either the descriptor inside a running operation's  *)
(* RepoLock (opFile) or the one inside a HELD_SCOPES entry (heldScopes).   *)
(* An operation that finds its own process's scope skips layer two.        *)
(*                                                                         *)
(* One action is one step between points where another thread or another   *)
(* process can interleave: a mutex taken or dropped, the HELD_SCOPES map   *)
(* consulted, the file tried.                                              *)
(***************************************************************************)
EXTENDS Naturals

CONSTANTS
  Processes,   \* the programs that use the library
  Threads,     \* the threads of all of them (blocking-pool threads)
  ProcessOf,   \* [Threads -> Processes]
  Paths,       \* canonical paths of checkouts: the registry keys
  GitDirs,     \* the directories a lock file can be in
  GitDir,      \* [Paths -> GitDirs]: where <path>/.git leads
  Nobody       \* the owner of a free process mutex

ASSUME ConstantsAssumption ==
  /\ ProcessOf \in [Threads -> Processes]
  /\ GitDir \in [Paths -> GitDirs]
  /\ Nobody \notin Threads

VARIABLES
  pc,            \* [Threads -> Points]: where each thread is
  path,          \* [Threads -> Paths]: the path of its current call
  expired,       \* [Threads -> BOOLEAN]: its deadline has passed
  released,      \* [Threads -> BOOLEAN]: RepositoryScope.released, of the
                 \* scope object a releasing thread owns
  processMutex,  \* [Processes -> [Paths -> thread or Nobody]]: REPO_LOCKS
  heldScopes,    \* [Processes -> SUBSET Paths]: HELD_SCOPES, each entry
                 \* owning a locked descriptor
  opFile,        \* threads whose RepoLock owns a locked descriptor
  handles        \* [Processes -> SUBSET Paths]: RepositoryLock handles whose
                 \* scope has not been taken by a release

vars == <<pc, path, expired, released, processMutex, heldScopes, opFile, handles>>

Idle == "idle"

\* lock_repo and the operation under its guard
OpPoints == {"op_wait", "op_check", "op_poll", "op_run", "op_unlock"}

\* acquire_scope
ScopePoints == {"scope_try", "scope_check", "scope_return", "scope_timer"}

\* RepositoryScope::release, called explicitly and then again by drop
ReleasePoints == {"release", "release_wait", "release_drop", "release_unlock"}

\* a RepositoryLock.release() that found the scope already taken
StaleRelease == "release_none"

Points == {Idle, StaleRelease} \union OpPoints \union ScopePoints \union ReleasePoints

\* Points at which a thread owns the process mutex of its path.
InMutex ==
  {"op_check", "op_poll", "op_run", "op_unlock",
   "scope_check", "scope_return", "release_drop", "release_unlock"}

-----------------------------------------------------------------------------
(***************************************************************************)
(* Lock identity and the kernel's view of the lock file.                   *)
(***************************************************************************)

\* The lock file of a path, named by the directory it is in.
LockFile(c) == GitDir[c]

\* Some open descriptor, in any process, holds the lock on file f.
FileLocked(f) ==
  \/ \E t \in opFile : LockFile(path[t]) = f
  \/ \E p \in Processes : \E c \in heldScopes[p] : LockFile(c) = f

MutexOf(t) == processMutex[ProcessOf[t]][path[t]]

TakeMutex(t) ==
  /\ MutexOf(t) = Nobody
  /\ processMutex' = [processMutex EXCEPT ![ProcessOf[t]][path[t]] = t]

DropMutex(t) == processMutex' = [processMutex EXCEPT ![ProcessOf[t]][path[t]] = Nobody]

Goto(t, from, to) ==
  /\ pc[t] = from
  /\ pc' = [pc EXCEPT ![t] = to]

\* Mutant of Return: the deadline of one call is left for the next.
ReturnKeepsDeadline(t) ==
  /\ pc' = [pc EXCEPT ![t] = Idle]
  /\ UNCHANGED expired

\* A call returns: its locals, the deadline among them, are gone.
Return(t) ==
  /\ pc' = [pc EXCEPT ![t] = Idle]
  /\ expired' = [expired EXCEPT ![t] = FALSE]

InScope(t) == path[t] \in heldScopes[ProcessOf[t]]

-----------------------------------------------------------------------------
Init ==
  /\ pc = [t \in Threads |-> Idle]
  /\ path \in [Threads -> Paths]
  /\ expired = [t \in Threads |-> FALSE]
  /\ released = [t \in Threads |-> FALSE]
  /\ processMutex = [p \in Processes |-> [c \in Paths |-> Nobody]]
  /\ heldScopes = [p \in Processes |-> {}]
  /\ opFile = {}
  /\ handles = [p \in Processes |-> {}]

(***************************************************************************)
(* lock_repo, then the operation, then the drop of RepoLock.               *)
(***************************************************************************)

OpCall(t, c) ==
  /\ Goto(t, Idle, "op_wait")
  /\ path' = [path EXCEPT ![t] = c]
  /\ UNCHANGED <<expired, released, processMutex, heldScopes, opFile, handles>>

\* Mutant of OpTakeMutex: inside a scope an operation takes neither lock.
OpTakeNeitherInScope(t) ==
  /\ \/ InScope(t) /\ Goto(t, "op_wait", "op_run") /\ UNCHANGED processMutex
     \/ ~InScope(t) /\ Goto(t, "op_wait", "op_check") /\ TakeMutex(t)
  /\ UNCHANGED <<path, expired, released, heldScopes, opFile, handles>>

\* process_mutex.lock(): blocks, with no deadline.
OpTakeMutex(t) ==
  /\ Goto(t, "op_wait", "op_check")
  /\ TakeMutex(t)
  /\ UNCHANGED <<path, expired, released, heldScopes, opFile, handles>>

\* HELD_SCOPES has the key: the advisory lock is already this process's.
OpEnterScope(t) ==
  /\ Goto(t, "op_check", "op_run")
  /\ InScope(t)
  /\ UNCHANGED <<path, expired, released, processMutex, heldScopes, opFile, handles>>

\* It has not: open the file; the deadline starts here.
OpOpenFile(t) ==
  /\ Goto(t, "op_check", "op_poll")
  /\ ~InScope(t)
  /\ UNCHANGED <<path, expired, released, processMutex, heldScopes, opFile, handles>>

\* file.try_lock() returns Ok.
OpLockFile(t) ==
  /\ Goto(t, "op_poll", "op_run")
  /\ ~FileLocked(LockFile(path[t]))
  /\ opFile' = opFile \union {t}
  /\ expired' = [expired EXCEPT ![t] = FALSE]
  /\ UNCHANGED <<path, released, processMutex, heldScopes, handles>>

\* Mutant of OpTimeout: the operation goes ahead without the file.
OpTimeoutRunsAnyway(t) ==
  /\ Goto(t, "op_poll", "op_run")
  /\ FileLocked(LockFile(path[t]))
  /\ expired[t]
  /\ expired' = [expired EXCEPT ![t] = FALSE]
  /\ UNCHANGED <<path, released, processMutex, heldScopes, opFile, handles>>

\* try_lock would block and the deadline has passed: RepositoryLocked.
OpTimeout(t) ==
  /\ pc[t] = "op_poll"
  /\ FileLocked(LockFile(path[t]))
  /\ expired[t]
  /\ Return(t)
  /\ DropMutex(t)
  /\ UNCHANGED <<path, released, heldScopes, opFile, handles>>

\* Opening or locking the file fails: IoError, and the guard is dropped.
OpIoError(t) ==
  /\ \/ pc[t] = "op_check" /\ ~InScope(t)
     \/ pc[t] = "op_poll"
  /\ Return(t)
  /\ DropMutex(t)
  /\ UNCHANGED <<path, released, heldScopes, opFile, handles>>

\* The operation ends and its RepoLock is dropped, `_file` first ...
OpDropFile(t) ==
  /\ Goto(t, "op_run", "op_unlock")
  /\ opFile' = opFile \ {t}
  /\ UNCHANGED <<path, expired, released, processMutex, heldScopes, handles>>

\* ... and `_process` second.
OpDropMutex(t) ==
  /\ pc[t] = "op_unlock"
  /\ Return(t)
  /\ DropMutex(t)
  /\ UNCHANGED <<path, released, heldScopes, opFile, handles>>

-----------------------------------------------------------------------------
(***************************************************************************)
(* acquire_scope.                                                          *)
(***************************************************************************)

ScopeCall(t, c) ==
  /\ Goto(t, Idle, "scope_try")
  /\ path' = [path EXCEPT ![t] = c]
  /\ UNCHANGED <<expired, released, processMutex, heldScopes, opFile, handles>>

\* Mutant of ScopeTakeMutex: the map and the file are tried without the mutex.
ScopeSkipMutex(t) ==
  /\ Goto(t, "scope_try", "scope_check")
  /\ UNCHANGED <<path, expired, released, processMutex, heldScopes, opFile, handles>>

\* try_process_mutex succeeds.
ScopeTakeMutex(t) ==
  /\ Goto(t, "scope_try", "scope_check")
  /\ TakeMutex(t)
  /\ UNCHANGED <<path, expired, released, heldScopes, opFile, handles>>

\* Mutant of ScopeMutexBusy: lock() in the place of try_lock().
ScopeBlocksOnMutex(t) ==
  /\ Goto(t, "scope_try", "scope_check")
  /\ TakeMutex(t)
  /\ UNCHANGED <<path, expired, released, heldScopes, opFile, handles>>

\* try_process_mutex would block.
ScopeMutexBusy(t) ==
  /\ Goto(t, "scope_try", "scope_timer")
  /\ MutexOf(t) # Nobody
  /\ UNCHANGED <<path, expired, released, processMutex, heldScopes, opFile, handles>>

\* No entry for the key and try_lock returns Ok: the descriptor becomes the
\* entry. HELD_SCOPES stays locked from the check to the insertion.
ScopeInsert(t) ==
  /\ Goto(t, "scope_check", "scope_return")
  /\ ~InScope(t)
  /\ ~FileLocked(LockFile(path[t]))
  /\ heldScopes' = [heldScopes EXCEPT ![ProcessOf[t]] = @ \union {path[t]}]
  /\ UNCHANGED <<path, expired, released, processMutex, opFile, handles>>

\* Mutant of ScopeReturn: the scope keeps the process mutex as long as it lives.
ScopeKeepsMutex(t) ==
  /\ pc[t] = "scope_return"
  /\ Return(t)
  /\ handles' = [handles EXCEPT ![ProcessOf[t]] = @ \union {path[t]}]
  /\ UNCHANGED <<path, released, processMutex, heldScopes, opFile>>

\* The mutex guard drops and the caller gets its handle.
ScopeReturn(t) ==
  /\ pc[t] = "scope_return"
  /\ Return(t)
  /\ DropMutex(t)
  /\ handles' = [handles EXCEPT ![ProcessOf[t]] = @ \union {path[t]}]
  /\ UNCHANGED <<path, released, heldScopes, opFile>>

\* An entry is there, or try_lock would block: the guard drops at the end of
\* the block.
ScopeBusy(t) ==
  /\ Goto(t, "scope_check", "scope_timer")
  /\ InScope(t) \/ FileLocked(LockFile(path[t]))
  /\ DropMutex(t)
  /\ UNCHANGED <<path, expired, released, heldScopes, opFile, handles>>

\* Opening or locking the file fails.
ScopeIoError(t) ==
  /\ pc[t] = "scope_check"
  /\ ~InScope(t)
  /\ Return(t)
  /\ DropMutex(t)
  /\ UNCHANGED <<path, released, heldScopes, opFile, handles>>

\* elapsed >= timeout: RepositoryLocked.
ScopeTimeout(t) ==
  /\ pc[t] = "scope_timer"
  /\ expired[t]
  /\ Return(t)
  /\ UNCHANGED <<path, released, processMutex, heldScopes, opFile, handles>>

\* Otherwise sleep for LOCK_POLL and go round again.
ScopeRetry(t) ==
  /\ Goto(t, "scope_timer", "scope_try")
  /\ ~expired[t]
  /\ UNCHANGED <<path, expired, released, processMutex, heldScopes, opFile, handles>>

-----------------------------------------------------------------------------
(***************************************************************************)
(* RepositoryLock.release and RepositoryScope::release.                    *)
(***************************************************************************)

\* scope.take() returns Some: the scope object moves to a pool thread.
HandleRelease(t, c) ==
  /\ Goto(t, Idle, "release")
  /\ c \in handles[ProcessOf[t]]
  /\ handles' = [handles EXCEPT ![ProcessOf[t]] = @ \ {c}]
  /\ path' = [path EXCEPT ![t] = c]
  /\ released' = [released EXCEPT ![t] = FALSE]
  /\ UNCHANGED <<expired, processMutex, heldScopes, opFile>>

\* scope.take() returns None while the scope it held is being released by
\* another thread: the second of two calls of release().
HandleReleaseAgain(t, c) ==
  /\ Goto(t, Idle, StaleRelease)
  /\ c \notin handles[ProcessOf[t]]
  /\ \E u \in Threads \ {t} :
       ProcessOf[u] = ProcessOf[t] /\ path[u] = c /\ pc[u] \in ReleasePoints
  /\ path' = [path EXCEPT ![t] = c]
  /\ UNCHANGED <<expired, released, processMutex, heldScopes, opFile, handles>>

\* The closure has nothing to release, so the call resolves.
StaleReleaseReturn(t) ==
  /\ pc[t] = StaleRelease
  /\ Return(t)
  /\ UNCHANGED <<path, released, processMutex, heldScopes, opFile, handles>>

\* Mutant of ReleaseStart: the flag is never set.
ReleaseUnmarked(t) ==
  /\ Goto(t, "release", "release_wait")
  /\ ~released[t]
  /\ UNCHANGED <<path, expired, released, processMutex, heldScopes, opFile, handles>>

\* The first release of this scope object: mark it, then block on the mutex.
ReleaseStart(t) ==
  /\ Goto(t, "release", "release_wait")
  /\ ~released[t]
  /\ released' = [released EXCEPT ![t] = TRUE]
  /\ UNCHANGED <<path, expired, processMutex, heldScopes, opFile, handles>>

\* Mutant of ReleaseTakeMutex: release does not wait for the mutex.
ReleaseUnguarded(t) ==
  /\ Goto(t, "release_wait", "release_drop")
  /\ UNCHANGED <<path, expired, released, processMutex, heldScopes, opFile, handles>>

ReleaseTakeMutex(t) ==
  /\ Goto(t, "release_wait", "release_drop")
  /\ TakeMutex(t)
  /\ UNCHANGED <<path, expired, released, heldScopes, opFile, handles>>

\* Removing the entry closes its descriptor, which frees the file.
ReleaseRemove(t) ==
  /\ Goto(t, "release_drop", "release_unlock")
  /\ heldScopes' = [heldScopes EXCEPT ![ProcessOf[t]] = @ \ {path[t]}]
  /\ UNCHANGED <<path, expired, released, processMutex, opFile, handles>>

\* The guard drops and release() returns; Drop for RepositoryScope is next,
\* which calls release() on the same object once more.
ReleaseDropMutex(t) ==
  /\ Goto(t, "release_unlock", "release")
  /\ DropMutex(t)
  /\ UNCHANGED <<path, expired, released, heldScopes, opFile, handles>>

\* That call returns early, and the object is gone.
ReleaseAgain(t) ==
  /\ pc[t] = "release"
  /\ released[t]
  /\ Return(t)
  /\ released' = [released EXCEPT ![t] = FALSE]
  /\ UNCHANGED <<path, processMutex, heldScopes, opFile, handles>>

-----------------------------------------------------------------------------
(***************************************************************************)
(* The environment: time, and the death of a process.                      *)
(***************************************************************************)

\* started.elapsed() reaches the timeout of a call that is polling.
DeadlinePasses(t) ==
  /\ pc[t] \in {"op_poll", "scope_try", "scope_check", "scope_timer"}
  /\ ~expired[t]
  /\ expired' = [expired EXCEPT ![t] = TRUE]
  /\ UNCHANGED <<pc, path, released, processMutex, heldScopes, opFile, handles>>

\* The process dies. Its statics are gone and the kernel closes every
\* descriptor it had. A process started later finds the same initial state.
Crash(p) ==
  LET dead == {t \in Threads : ProcessOf[t] = p} IN
  /\ pc' = [t \in Threads |-> IF t \in dead THEN Idle ELSE pc[t]]
  /\ expired' = [t \in Threads |-> expired[t] /\ t \notin dead]
  /\ released' = [t \in Threads |-> released[t] /\ t \notin dead]
  /\ processMutex' = [processMutex EXCEPT ![p] = [c \in Paths |-> Nobody]]
  /\ heldScopes' = [heldScopes EXCEPT ![p] = {}]
  /\ opFile' = opFile \ dead
  /\ handles' = [handles EXCEPT ![p] = {}]
  /\ UNCHANGED path

-----------------------------------------------------------------------------
\* The calls a host may make, in any order and at any time.
Call(t) ==
  \E c \in Paths :
    OpCall(t, c) \/ ScopeCall(t, c) \/ HandleRelease(t, c) \/ HandleReleaseAgain(t, c)

\* The steps lock_repo takes until it returns, an I/O error apart.
OpStep(t) ==
  \/ OpTakeMutex(t) \/ OpEnterScope(t) \/ OpOpenFile(t) \/ OpLockFile(t)
  \/ OpTimeout(t)

OpEnd(t) == OpDropFile(t) \/ OpDropMutex(t)

ScopeStep(t) ==
  \/ ScopeTakeMutex(t) \/ ScopeMutexBusy(t) \/ ScopeInsert(t) \/ ScopeReturn(t)
  \/ ScopeBusy(t) \/ ScopeTimeout(t) \/ ScopeRetry(t)

ReleaseStep(t) ==
  \/ ReleaseStart(t) \/ ReleaseTakeMutex(t) \/ ReleaseRemove(t)
  \/ ReleaseDropMutex(t) \/ ReleaseAgain(t) \/ StaleReleaseReturn(t)

Next ==
  \/ \E t \in Threads :
       \/ Call(t) \/ OpStep(t) \/ OpEnd(t) \/ ScopeStep(t) \/ ReleaseStep(t)
       \/ OpIoError(t) \/ ScopeIoError(t) \/ DeadlinePasses(t)
  \/ \E p \in Processes : Crash(p)

Spec == Init /\ [][Next]_vars

(***************************************************************************)
(* Fairness. A thread that can run does run (WF), a clock that can pass a  *)
(* deadline does. Nothing is assumed of the mutex: std::sync::Mutex does   *)
(* not promise a waiter its turn. Nothing makes a host call or a process   *)
(* die. That an operation under the guard ends is an assumption of its     *)
(* own, because some of them (fetch, push) wait for a network.             *)
(***************************************************************************)
ThreadsRun ==
  \A t \in Threads :
    /\ WF_vars(OpStep(t))
    /\ WF_vars(OpDropMutex(t))
    /\ WF_vars(ScopeStep(t))
    /\ WF_vars(ReleaseStep(t))
    /\ WF_vars(DeadlinePasses(t))

OperationsEnd == \A t \in Threads : WF_vars(OpDropFile(t))

\* An operation may hang under the guard: the wedged or stopped holder. What
\* holds only if operations end says so.
FairSpec == Spec /\ ThreadsRun

-----------------------------------------------------------------------------
(***************************************************************************)
(* Safety.                                                                 *)
(***************************************************************************)

\* The state's types, and that no deadline or release flag outlives its call.
TypeOK ==
  /\ pc \in [Threads -> Points]
  /\ path \in [Threads -> Paths]
  /\ expired \in [Threads -> BOOLEAN]
  /\ released \in [Threads -> BOOLEAN]
  /\ processMutex \in [Processes -> [Paths -> Threads \union {Nobody}]]
  /\ heldScopes \in [Processes -> SUBSET Paths]
  /\ opFile \in SUBSET Threads
  /\ handles \in [Processes -> SUBSET Paths]
  /\ \A t \in Threads : pc[t] = Idle => ~expired[t] /\ ~released[t]

Running(t) == pc[t] = "op_run"

\* Two operations never run at once against one lock file, whatever mixture
\* of processes, threads, scopes, path spellings and crashes led there. This
\* is what lock_repo exists for.
MutualExclusion ==
  \A t, u \in Threads :
    Running(t) /\ Running(u) /\ LockFile(path[t]) = LockFile(path[u]) => t = u

\* An operation that runs is covered by an advisory lock of its own process:
\* its own descriptor, or that of the scope it found. In particular a release
\* never pulls the scope from under an operation that skipped the file.
RunningIsCovered ==
  \A t \in Threads : Running(t) => t \in opFile \/ InScope(t)

\* While a host has a handle, no other process runs an operation on that
\* repository: the write-validate-commit window is closed.
ScopeExcludesOtherProcesses ==
  \A p \in Processes : \A c \in handles[p] : \A t \in Threads :
    Running(t) /\ LockFile(path[t]) = LockFile(c) => ProcessOf[t] = p

\* No operation polls the lock file of a path that has an entry in its own
\* process's HELD_SCOPES: it would wait out the timeout against its own lock.
\* By another spelling of the path it does: HELD_SCOPES is keyed by path.
NoSelfWait ==
  \A t \in Threads : pc[t] = "op_poll" => ~InScope(t)

\* A handle that has not been released really holds the lock; no late or
\* repeated release of an earlier scope on the same path ever ends it.
HandleIsHeld ==
  \A p \in Processes : handles[p] \subseteq heldScopes[p]

-----------------------------------------------------------------------------
(***************************************************************************)
(* The inductive invariant behind the safety properties.                   *)
(***************************************************************************)

\* A thread at a point inside the process mutex is its registered owner, so
\* two threads of a process are never inside for the same path.
MutexIsOwned == \A t \in Threads : pc[t] \in InMutex => MutexOf(t) = t

\* At most one descriptor, of any kind and in any process, is locked per file.
OneDescriptorPerFile ==
  /\ \A t, u \in opFile : LockFile(path[t]) = LockFile(path[u]) => t = u
  /\ \A p, q \in Processes : \A c \in heldScopes[p], d \in heldScopes[q] :
       LockFile(c) = LockFile(d) => p = q /\ c = d
  /\ \A t \in opFile : \A p \in Processes : \A c \in heldScopes[p] :
       LockFile(path[t]) # LockFile(c)

\* A RepoLock with a descriptor lives exactly as long as its operation.
DescriptorsAreUsed == \A t \in opFile : Running(t)

\* Thread t owns a RepositoryScope that has yet to remove its entry: it is
\* about to hand it to the caller, or to release it.
OwnsScope(t) ==
  \/ pc[t] \in {"scope_return", "release_wait", "release_drop"}
  \/ pc[t] = "release" /\ ~released[t]

\* A scope has one owner: one thread or one handle.
ScopeHasOneOwner ==
  /\ \A t \in Threads : OwnsScope(t) => InScope(t) /\ path[t] \notin handles[ProcessOf[t]]
  /\ \A t, u \in Threads :
       OwnsScope(t) /\ OwnsScope(u) /\ ProcessOf[t] = ProcessOf[u] /\ path[t] = path[u]
         => t = u

\* The flag is set from the start of a scope's first release to its drop.
ReleasedIsMarked ==
  \A t \in Threads :
    /\ pc[t] \in {"release_wait", "release_drop", "release_unlock"} => released[t]
    /\ released[t] => pc[t] \in ReleasePoints

IInv ==
  /\ TypeOK
  /\ MutexIsOwned
  /\ OneDescriptorPerFile
  /\ DescriptorsAreUsed
  /\ ScopeHasOneOwner
  /\ ReleasedIsMarked
  /\ RunningIsCovered
  /\ NoSelfWait
  /\ HandleIsHeld

(***************************************************************************)
(* Liveness.                                                               *)
(***************************************************************************)

\* acquire_scope returns, even where an operation in the same process hangs:
\* it never blocks on the mutex and gives up at its deadline.
ScopeCallReturns ==
  \A t \in Threads : pc[t] \in ScopePoints ~> pc[t] \notin ScopePoints

\* If operations end and hosts stop issuing new calls, every release that was begun completes and
\* takes its scope with it, and every operation returns.
CallsSettle ==
  OperationsEnd /\ <>[][\A t \in Threads : pc[t] = Idle => pc'[t] = Idle]_vars
    => <>[](\A t \in Threads : pc[t] = Idle)

=============================================================================
