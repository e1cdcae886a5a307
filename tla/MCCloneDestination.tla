------------------------- MODULE MCCloneDestination -------------------------
(***************************************************************************)
(* Small instances of CloneDestination.                                    *)
(***************************************************************************)
EXTENDS CloneDestination, TLC

CONSTANTS p1, p2, t1, t2, t3, git, page

\* Two threads of one process against one of another.
ThreeClones == t1 :> p1 @@ t2 :> p1 @@ t3 :> p2

\* A thread in each of two processes.
TwoProcesses == t1 :> p1 @@ t2 :> p2
=============================================================================
