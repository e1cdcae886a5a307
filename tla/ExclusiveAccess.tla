-------------------------- MODULE ExclusiveAccess --------------------------
(***************************************************************************)
(* What the repository lock promises, with nothing of how: each lock file  *)
(* is owned by at most one process at a time, at most one thread works     *)
(* under it, that thread belongs to the owner, and the owner gives the     *)
(* file up only when no work is left under it - or dies.                   *)
(***************************************************************************)
CONSTANTS Processes, Threads, ProcessOf, Files, Nobody

VARIABLES
  owner,    \* [Files -> Processes or Nobody]
  worker    \* [Files -> Threads or Nobody]

vars == <<owner, worker>>

Init ==
  /\ owner = [f \in Files |-> Nobody]
  /\ worker = [f \in Files |-> Nobody]

\* A process takes a free file for a sequence of operations.
Claim(p, f) ==
  /\ owner[f] = Nobody
  /\ owner' = [owner EXCEPT ![f] = p]
  /\ UNCHANGED worker

\* A thread of the owner starts to work.
Begin(t, f) ==
  /\ owner[f] = ProcessOf[t]
  /\ worker[f] = Nobody
  /\ worker' = [worker EXCEPT ![f] = t]
  /\ UNCHANGED owner

End(t, f) ==
  /\ worker[f] = t
  /\ worker' = [worker EXCEPT ![f] = Nobody]
  /\ UNCHANGED owner

\* The owner gives the file up when nobody works under it.
Free(f) ==
  /\ owner[f] # Nobody
  /\ worker[f] = Nobody
  /\ owner' = [owner EXCEPT ![f] = Nobody]
  /\ UNCHANGED worker

\* One operation on its own: the file is taken for it, and given up with it.
ClaimAndBegin(t, f) ==
  /\ owner[f] = Nobody
  /\ owner' = [owner EXCEPT ![f] = ProcessOf[t]]
  /\ worker' = [worker EXCEPT ![f] = t]

EndAndFree(t, f) ==
  /\ worker[f] = t
  /\ owner' = [owner EXCEPT ![f] = Nobody]
  /\ worker' = [worker EXCEPT ![f] = Nobody]

\* A process dies: everything it owned is free, with no other step needed.
Die(p) ==
  /\ owner' = [f \in Files |-> IF owner[f] = p THEN Nobody ELSE owner[f]]
  /\ worker' = [f \in Files |-> IF owner[f] = p THEN Nobody ELSE worker[f]]

Next ==
  \/ \E f \in Files :
       \/ Free(f)
       \/ \E p \in Processes : Claim(p, f)
       \/ \E t \in Threads :
            Begin(t, f) \/ End(t, f) \/ ClaimAndBegin(t, f) \/ EndAndFree(t, f)
  \/ \E p \in Processes : Die(p)

Spec == Init /\ [][Next]_vars
=============================================================================
