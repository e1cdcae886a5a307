----------------------------- MODULE MCRepoLock -----------------------------
(***************************************************************************)
(* Small instances of RepoLock.                                            *)
(***************************************************************************)
EXTENDS RepoLockRefinement, TLC

CONSTANTS p1, p2, a1, a2, b1, main, linked, git, gitWorktree

\* Two threads of one process against one of another, on one checkout.
TwoProcesses == a1 :> p1 @@ a2 :> p1 @@ b1 :> p2

\* Two paths whose .git leads to one git directory, e.g. by a symbolic link.
AliasedCheckouts == main :> git @@ linked :> git

\* A thread in each process.
TwoProcessesOneThread == a1 :> p1 @@ b1 :> p2

\* `git worktree add`: the .git file of the linked checkout names
\* <main>/.git/worktrees/<name>, a directory of the same repository.
LinkedWorktree == main :> git @@ linked :> gitWorktree
RepositoryOf == git :> main @@ gitWorktree :> main

\* utils.rs:237 "Following it keeps every checkout of one repository on one
\* lock": two operations never run at once on one repository.
OneOperationPerRepository ==
  \A t, u \in Threads :
    /\ Running(t) /\ Running(u)
    /\ RepositoryOf[LockFile(path[t])] = RepositoryOf[LockFile(path[u])]
    => t = u
=============================================================================
