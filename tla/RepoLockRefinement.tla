------------------------- MODULE RepoLockRefinement -------------------------
(***************************************************************************)
(* RepoLock implements ExclusiveAccess. The owner of a lock file is the    *)
(* process one of whose descriptors holds it; the worker is the thread     *)
(* that runs an operation under it.                                        *)
(***************************************************************************)
EXTENDS RepoLock

\* Descriptors of process p hold the lock on f.
HoldsFile(p, f) ==
  \/ \E t \in opFile : ProcessOf[t] = p /\ LockFile(path[t]) = f
  \/ \E c \in heldScopes[p] : LockFile(c) = f

Owner(f) ==
  IF FileLocked(f) THEN CHOOSE p \in Processes : HoldsFile(p, f) ELSE Nobody

WorksOn(t, f) == Running(t) /\ LockFile(path[t]) = f

Worker(f) ==
  IF \E t \in Threads : WorksOn(t, f) THEN CHOOSE t \in Threads : WorksOn(t, f) ELSE Nobody

Abstract == INSTANCE ExclusiveAccess WITH
  Files <- GitDirs,
  owner <- [f \in GitDirs |-> Owner(f)],
  worker <- [f \in GitDirs |-> Worker(f)]

\* Every step of the two-layer lock is a step of the abstract one or changes
\* nothing it shows. This rules out, among others, that a scope ends under an
\* operation that runs inside it, or passes from one process to another
\* without having been free.
ImplementsExclusiveAccess == Abstract!Spec
=============================================================================
