----------------------- MODULE CloneDestinationProofs -----------------------
(***************************************************************************)
(* Theorems about CloneDestination: what the process mutex of              *)
(* lock_destination does give a clone, for every set of processes and      *)
(* threads. Exclusion between processes is not among them: it does not     *)
(* hold (WinnerKeepsItsTree).                                              *)
(***************************************************************************)
EXTENDS CloneDestination, TLAPS

USE CloneAssumption DEF States, Outcomes, Points, cleanUp

\* Libgit2's clone is at work, or restore_destination.
Cloning(t) ==
  \/ CloneRefused(t) \/ CloneChecked(t) \/ CloneInit(t) \/ CloneChecksOut(t)
  \/ CloneSucceeds(t) \/ CloneFails(t)
Restoring(t) ==
  \/ RestoreLists(t) \/ RestoreCannotList(t) \/ RemoveEntry(t) \/ RemoveEntryFails(t)
  \/ RemoveDirectory(t) \/ RemoveDirectoryFails(t) \/ KeepDirectory(t) \/ CloneFailure(t)

\* The steps preserve the types.
LEMMA TypeStep == TypeOK /\ [Next]_vars => TypeOK'
<1> SUFFICES ASSUME TypeOK, [Next]_vars
             PROVE  TypeOK'
  OBVIOUS
<1> USE DEF TypeOK, Goto, Return
<1>1. ASSUME NEW t \in Threads, Call(t)
      PROVE  TypeOK'
  BY <1>1 DEF Call
<1>2. ASSUME NEW t \in Threads, LockDestination(t)
      PROVE  TypeOK'
  BY <1>2 DEF LockDestination
<1>3. ASSUME NEW t \in Threads, ProbeExists(t) \/ ProbeReadEmpty(t)
      PROVE  TypeOK'
  BY <1>3 DEF ProbeExists, ProbeReadEmpty
<1>4. ASSUME NEW t \in Threads, ProbeReadRefuses(t)
      PROVE  TypeOK'
  BY <1>4 DEF ProbeReadRefuses
<1>5. ASSUME NEW t \in Threads, ProbeCreate(t) \/ ProbeCreateRefused(t)
      PROVE  TypeOK'
  BY <1>5 DEF ProbeCreate, ProbeCreateRefused
<1>6. ASSUME NEW t \in Threads, CloneRefused(t) \/ CloneChecked(t)
      PROVE  TypeOK'
  BY <1>6 DEF CloneRefused, CloneChecked
<1>7. ASSUME NEW t \in Threads, CloneInit(t) \/ CloneChecksOut(t) \/ CloneFails(t)
      PROVE  TypeOK'
  <2>1. /\ exists' \in BOOLEAN /\ entries' \in SUBSET ((Threads \union {Others}) \X Names)
        /\ entries' # {} => exists'
    <3>1. CASE CloneInit(t)
      BY <3>1 DEF CloneInit
    <3>2. CASE CloneChecksOut(t)
      BY <3>2 DEF CloneChecksOut, Tree
    <3>3. CASE CloneFails(t)
      BY <3>3 DEF CloneFails
    <3> QED
      BY <1>7, <3>1, <3>2, <3>3
  <2>2. /\ pc' \in [Threads -> Points]
        /\ UNCHANGED <<processMutex, found, cleanUp, outcome, retriable>>
    BY <1>7 DEF CloneInit, CloneChecksOut, CloneFails
  <2> QED
    BY <2>1, <2>2
<1>8. ASSUME NEW t \in Threads, CloneSucceeds(t)
      PROVE  TypeOK'
  BY <1>8 DEF CloneSucceeds
<1>9. ASSUME NEW t \in Threads, RestoreLists(t) \/ RestoreCannotList(t)
      PROVE  TypeOK'
  <2>1. CASE RestoreLists(t)
    <3>1. PICK read \in SUBSET Names :
                 /\ listed' = [listed EXCEPT ![t] = read]
                 /\ missed' = [missed EXCEPT ![t] = Present \ read]
      BY <2>1 DEF RestoreLists, Present
    <3>2. /\ listed' \in [Threads -> SUBSET Names] /\ missed' \in [Threads -> SUBSET Names]
      BY <3>1 DEF Present
    <3>3. /\ pc' \in [Threads -> Points]
          /\ UNCHANGED <<exists, entries, processMutex, found, cleared, outcome, retriable>>
      BY <2>1 DEF RestoreLists
    <3> QED
      BY <3>2, <3>3
  <2>2. CASE RestoreCannotList(t)
    BY <2>2 DEF RestoreCannotList
  <2> QED
    BY <1>9, <2>1, <2>2
<1>10. ASSUME NEW t \in Threads, RemoveEntry(t)
       PROVE  TypeOK'
  BY <1>10 DEF RemoveEntry
<1>11. ASSUME NEW t \in Threads, RemoveEntryFails(t)
       PROVE  TypeOK'
  BY <1>11 DEF RemoveEntryFails
<1>12. ASSUME NEW t \in Threads,
              RemoveDirectory(t) \/ RemoveDirectoryFails(t) \/ KeepDirectory(t)
       PROVE  TypeOK'
  BY <1>12 DEF RemoveDirectory, RemoveDirectoryFails, KeepDirectory
<1>13. ASSUME NEW t \in Threads, CloneFailure(t)
       PROVE  TypeOK'
  <2>1. PICK retry \in BOOLEAN : Return(t, "failed", retry)
    BY <1>13 DEF CloneFailure
  <2> QED
    BY <1>13, <2>1 DEF CloneFailure
<1>14. ASSUME NEW p \in Processes, Crash(p)
       PROVE  TypeOK'
  BY <1>14 DEF Crash
<1>15. CASE UNCHANGED vars
  BY <1>15 DEF vars
<1> QED
  BY <1>1, <1>2, <1>3, <1>4, <1>5, <1>6, <1>7, <1>8, <1>9, <1>10, <1>11, <1>12,
     <1>13, <1>14, <1>15 DEF Next

\* A thread enters the mutex when it is free and leaves it when it returns.
LEMMA MutexStep == TypeOK /\ MutexIsOwned /\ [Next]_vars => MutexIsOwned'
<1> SUFFICES ASSUME TypeOK, MutexIsOwned, [Next]_vars
             PROVE  MutexIsOwned'
  OBVIOUS
<1> USE DEF TypeOK, MutexIsOwned, Goto, Return
<1>1. ASSUME NEW t \in Threads, Call(t) \/ LockDestination(t)
      PROVE  MutexIsOwned'
  BY <1>1 DEF Call, LockDestination
<1>2. ASSUME NEW t \in Threads,
             \/ ProbeExists(t) \/ ProbeReadEmpty(t) \/ ProbeReadRefuses(t)
             \/ ProbeCreate(t) \/ ProbeCreateRefused(t)
      PROVE  MutexIsOwned'
  BY <1>2 DEF ProbeExists, ProbeReadEmpty, ProbeReadRefuses, ProbeCreate,
              ProbeCreateRefused
<1>3. ASSUME NEW t \in Threads, Cloning(t)
      PROVE  MutexIsOwned'
  BY <1>3 DEF Cloning, CloneRefused, CloneChecked, CloneInit, CloneChecksOut,
              CloneSucceeds, CloneFails
<1>4. ASSUME NEW t \in Threads, Restoring(t)
      PROVE  MutexIsOwned'
  BY <1>4 DEF Restoring, RestoreLists, RestoreCannotList, RemoveEntry,
              RemoveEntryFails, RemoveDirectory, RemoveDirectoryFails,
              KeepDirectory, CloneFailure
<1>5. ASSUME NEW p \in Processes, Crash(p)
      PROVE  MutexIsOwned'
  BY <1>5 DEF Crash
<1>6. CASE UNCHANGED vars
  BY <1>6 DEF vars
<1> QED
  BY <1>1, <1>2, <1>3, <1>4, <1>5, <1>6 DEF Next, Cloning, Restoring

\* Files come into the destination through a clone's own steps alone, and a
\* thread that takes them has the mutex: nobody else of its process has a probe
\* in progress.
LEMMA ProbedStep ==
  TypeOK /\ MutexIsOwned /\ ProbedStaysOurs /\ [Next]_vars => ProbedStaysOurs'
<1> SUFFICES ASSUME TypeOK, MutexIsOwned, ProbedStaysOurs, [Next]_vars
             PROVE  ProbedStaysOurs'
  OBVIOUS
<1> USE DEF TypeOK, ProbedStaysOurs, Probed, IsForeign, Goto, Return
\* No file arrives and no probe ends.
<1>1. ASSUME entries' \subseteq entries,
             \A t \in Threads : Probed(t)' => Probed(t)
      PROVE  ProbedStaysOurs'
  BY <1>1
<1>2. ASSUME NEW t \in Threads,
             \/ Call(t) \/ LockDestination(t) \/ ProbeExists(t)
             \/ ProbeReadRefuses(t) \/ ProbeCreateRefused(t)
      PROVE  ProbedStaysOurs'
  BY <1>1, <1>2 DEF Call, LockDestination, ProbeExists, ProbeReadRefuses,
                    ProbeCreateRefused
\* A probe ends on a destination that is empty, or was not there.
<1>3. ASSUME NEW t \in Threads, ProbeReadEmpty(t) \/ ProbeCreate(t)
      PROVE  ProbedStaysOurs'
  BY <1>3 DEF ProbeReadEmpty, ProbeCreate
<1>4. ASSUME NEW t \in Threads,
             CloneRefused(t) \/ CloneChecked(t) \/ CloneSucceeds(t) \/ CloneFails(t)
      PROVE  ProbedStaysOurs'
  BY <1>1, <1>4 DEF CloneRefused, CloneChecked, CloneSucceeds, CloneFails
<1>5. ASSUME NEW t \in Threads, CloneInit(t) \/ CloneChecksOut(t)
      PROVE  ProbedStaysOurs'
  <2>1. \A u \in Threads \ {t} : Probed(u) => ProcessOf[u] # ProcessOf[t]
    BY <1>5 DEF CloneInit, CloneChecksOut, MutexIsOwned
  <2>2. \A u \in Threads : Probed(u)' = Probed(u)
    BY <1>5 DEF CloneInit, CloneChecksOut
  <2>3. \A e \in entries' : e \in entries \/ e[1] = t
    BY <1>5 DEF CloneInit, CloneChecksOut, Tree
  <2> QED
    BY <2>1, <2>2, <2>3
<1>6. ASSUME NEW t \in Threads, Restoring(t)
      PROVE  ProbedStaysOurs'
  BY <1>1, <1>6 DEF Restoring, RestoreLists, RestoreCannotList, RemoveEntry,
                    RemoveEntryFails, RemoveDirectory, RemoveDirectoryFails,
                    KeepDirectory, CloneFailure
<1>7. ASSUME NEW p \in Processes, Crash(p)
      PROVE  ProbedStaysOurs'
  BY <1>1, <1>7 DEF Crash
<1>8. CASE UNCHANGED vars
  BY <1>1, <1>8 DEF vars
<1> QED
  BY <1>2, <1>3, <1>4, <1>5, <1>6, <1>7, <1>8 DEF Next, Restoring

\* The clean-up's answer stays yes only while each removal succeeds, and what
\* comes into the destination meanwhile comes from other processes.
LEMMA ClearedStep ==
  ASSUME TypeOK, MutexIsOwned, ProbedStaysOurs, ClearedSoFar, [Next]_vars
  PROVE  ClearedSoFar'
<1> DEFINE Clear(u) ==
      pc[u] \in {"remove", "restored"} /\ cleared[u] =>
        /\ pc[u] = "restored" => listed[u] = {}
        /\ \A e \in entries : IsForeign(u, e) \/ e[2] \in listed[u] \union missed[u]
<1>1. ClearedSoFar' = \A u \in Threads : Clear(u)'
  BY DEF ClearedSoFar
\* A thread whose clean-up the step is not part of.
<1>2. ASSUME NEW u \in Threads,
             pc'[u] = pc[u], listed'[u] = listed[u], missed'[u] = missed[u],
             cleared'[u] = cleared[u],
             pc[u] \in {"remove", "restored"} =>
               \A e \in entries' : e \in entries \/ IsForeign(u, e)
      PROVE  Clear(u)'
  BY <1>2 DEF ClearedSoFar, IsForeign
\* A thread that has no clean-up, or one that has failed.
<1>3. ASSUME NEW u \in Threads, pc'[u] \notin {"remove", "restored"} \/ ~cleared'[u]
      PROVE  Clear(u)'
  BY <1>3
<1> HIDE DEF Clear
<1> USE DEF TypeOK, Goto, Return
<1>4. ASSUME NEW t \in Threads,
             \/ Call(t) \/ LockDestination(t)
             \/ ProbeExists(t) \/ ProbeReadEmpty(t) \/ ProbeReadRefuses(t)
             \/ ProbeCreate(t) \/ ProbeCreateRefused(t)
      PROVE  ClearedSoFar'
  <2>1. pc'[t] \notin {"remove", "restored"}
    BY <1>4 DEF Call, LockDestination, ProbeExists, ProbeReadEmpty, ProbeReadRefuses,
                ProbeCreate, ProbeCreateRefused
  <2>2. /\ entries' = entries
        /\ \A u \in Threads \ {t} : /\ pc'[u] = pc[u] /\ listed'[u] = listed[u]
                                   /\ missed'[u] = missed[u] /\ cleared'[u] = cleared[u]
    BY <1>4 DEF Call, LockDestination, ProbeExists, ProbeReadEmpty, ProbeReadRefuses,
                ProbeCreate, ProbeCreateRefused
  <2> QED
    BY <1>1, <1>2, <1>3, <2>1, <2>2
<1>5. ASSUME NEW t \in Threads, Cloning(t)
      PROVE  ClearedSoFar'
  <2>1. pc'[t] \notin {"remove", "restored"}
    BY <1>5 DEF Cloning, CloneRefused, CloneChecked, CloneInit, CloneChecksOut,
                CloneSucceeds, CloneFails
  <2>2. \A u \in Threads \ {t} : /\ pc'[u] = pc[u] /\ listed'[u] = listed[u]
                                /\ missed'[u] = missed[u] /\ cleared'[u] = cleared[u]
    BY <1>5 DEF Cloning, CloneRefused, CloneChecked, CloneInit, CloneChecksOut,
                CloneSucceeds, CloneFails
  <2>3. \A e \in entries' : e \in entries \/ e[1] = t
    BY <1>5 DEF Cloning, CloneRefused, CloneChecked, CloneInit, CloneChecksOut,
                CloneSucceeds, CloneFails, Tree
  <2>4. \A u \in Threads \ {t} :
          pc[u] \in {"remove", "restored"} => ProcessOf[u] # ProcessOf[t]
    BY <1>5 DEF MutexIsOwned, Cloning, CloneRefused, CloneChecked, CloneInit,
                CloneChecksOut, CloneSucceeds, CloneFails
  <2>5. ASSUME NEW u \in Threads \ {t}
        PROVE  Clear(u)'
    BY <1>2, <2>2, <2>3, <2>4 DEF IsForeign
  <2> QED
    BY <1>1, <1>3, <2>1, <2>5
<1>6. ASSUME NEW t \in Threads, Restoring(t)
      PROVE  ClearedSoFar'
  <2>1. /\ entries' \subseteq entries
        /\ \A u \in Threads \ {t} : /\ pc'[u] = pc[u] /\ listed'[u] = listed[u]
                                   /\ missed'[u] = missed[u] /\ cleared'[u] = cleared[u]
    BY <1>6 DEF Restoring, RestoreLists, RestoreCannotList, RemoveEntry,
                RemoveEntryFails, RemoveDirectory, RemoveDirectoryFails,
                KeepDirectory, CloneFailure
  <2>2. ASSUME RestoreLists(t)
        PROVE  Clear(t)'
    <3>1. \A e \in entries : e[2] \in listed'[t] \union missed'[t]
      BY <2>2 DEF RestoreLists, Present
    <3> QED
      BY <2>2, <3>1 DEF RestoreLists, Clear
  <2>3. ASSUME RemoveEntry(t)
        PROVE  Clear(t)'
    <3>1. PICK n \in listed[t] : /\ entries' = entries \ Under(n)
                                 /\ listed' = [listed EXCEPT ![t] = @ \ {n}]
      BY <2>3 DEF RemoveEntry
    <3>2. /\ pc[t] = "remove" /\ pc'[t] = "remove"
          /\ cleared' = cleared /\ missed' = missed
      BY <2>3 DEF RemoveEntry
    <3>3. \A e \in entries' : e \in entries /\ e[2] # n
      BY <3>1 DEF Under
    <3>4. listed'[t] = listed[t] \ {n}
      BY <3>1
    <3> QED
      BY <3>2, <3>3, <3>4 DEF Clear, ClearedSoFar, IsForeign
  <2>4. ASSUME RemoveDirectory(t) \/ KeepDirectory(t)
        PROVE  Clear(t)'
    BY <2>4 DEF RemoveDirectory, KeepDirectory, Clear, ClearedSoFar, IsForeign
  <2>5. ASSUME \/ RestoreCannotList(t) \/ RemoveEntryFails(t)
               \/ RemoveDirectoryFails(t) \/ CloneFailure(t)
        PROVE  Clear(t)'
    BY <1>3, <2>5 DEF RestoreCannotList, RemoveEntryFails, RemoveDirectoryFails, CloneFailure
  <2>6. Clear(t)'
    BY <1>6, <2>2, <2>3, <2>4, <2>5 DEF Restoring
  <2> QED
    BY <1>1, <1>2, <2>1, <2>6
<1>7. ASSUME NEW p \in Processes, Crash(p)
      PROVE  ClearedSoFar'
  <2>1. entries' = entries
    BY <1>7 DEF Crash
  <2>2. \A u \in Threads :
          \/ pc'[u] = "idle"
          \/ /\ pc'[u] = pc[u] /\ listed'[u] = listed[u]
             /\ missed'[u] = missed[u] /\ cleared'[u] = cleared[u]
    BY <1>7 DEF Crash
  <2> QED
    BY <1>1, <1>2, <1>3, <2>1, <2>2
<1>8. CASE UNCHANGED vars
  BY <1>1, <1>2, <1>8 DEF vars
<1> QED
  BY <1>4, <1>5, <1>6, <1>7, <1>8 DEF Next, Cloning, Restoring
\* A call clears the result of the one before.
LEMMA OutcomeStep == TypeOK /\ OutcomeIsOfLast /\ [Next]_vars => OutcomeIsOfLast'
<1> SUFFICES ASSUME TypeOK, OutcomeIsOfLast, [Next]_vars
             PROVE  OutcomeIsOfLast'
  OBVIOUS
<1> USE DEF TypeOK, OutcomeIsOfLast, Goto, Return
<1>1. ASSUME NEW t \in Threads, Call(t) \/ LockDestination(t)
      PROVE  OutcomeIsOfLast'
  BY <1>1 DEF Call, LockDestination
<1>2. ASSUME NEW t \in Threads,
             \/ ProbeExists(t) \/ ProbeReadEmpty(t) \/ ProbeReadRefuses(t)
             \/ ProbeCreate(t) \/ ProbeCreateRefused(t)
      PROVE  OutcomeIsOfLast'
  BY <1>2 DEF ProbeExists, ProbeReadEmpty, ProbeReadRefuses, ProbeCreate,
              ProbeCreateRefused
<1>3. ASSUME NEW t \in Threads, Cloning(t)
      PROVE  OutcomeIsOfLast'
  BY <1>3 DEF Cloning, CloneRefused, CloneChecked, CloneInit, CloneChecksOut,
              CloneSucceeds, CloneFails
<1>4. ASSUME NEW t \in Threads, Restoring(t)
      PROVE  OutcomeIsOfLast'
  BY <1>4 DEF Restoring, RestoreLists, RestoreCannotList, RemoveEntry,
              RemoveEntryFails, RemoveDirectory, RemoveDirectoryFails,
              KeepDirectory, CloneFailure
<1>5. ASSUME NEW p \in Processes, Crash(p)
      PROVE  OutcomeIsOfLast'
  BY <1>5 DEF Crash
<1>6. CASE UNCHANGED vars
  BY <1>6 DEF vars
<1> QED
  BY <1>1, <1>2, <1>3, <1>4, <1>5, <1>6 DEF Next, Cloning, Restoring

\* The inductive invariant of the clone.
THEOREM CloneInvariant == Spec => []IInv
<1>1. Init => IInv
  BY DEF Init, IInv, TypeOK, MutexIsOwned, ProbedStaysOurs, Probed, ClearedSoFar,
         OutcomeIsOfLast
<1>2. IInv /\ [Next]_vars => IInv'
  BY TypeStep, MutexStep, ProbedStep, ClearedStep, OutcomeStep DEF IInv
<1> QED
  BY <1>1, <1>2, PTL DEF Spec

\* The state of a clone keeps its types, whatever crashes and whoever races:
\* a destination with files in it is there.
THEOREM TypeCorrect == Spec => []TypeOK
<1>1. IInv => TypeOK
  BY DEF IInv
<1> QED
  BY <1>1, CloneInvariant, PTL

-----------------------------------------------------------------------------
\* Only a clone that has probed the destination changes what is in it, and
\* that is a step of its thread.
LEMMA EntriesStep ==
  ASSUME IInv, [Next]_vars, entries' # entries
  PROVE  \E u \in Threads : Probed(u) /\ Moves(u)
<1> USE DEF IInv, TypeOK, Goto, Return, Probed, Moves
<1>1. ASSUME NEW t \in Threads,
             \/ Call(t) \/ LockDestination(t)
             \/ ProbeExists(t) \/ ProbeReadEmpty(t) \/ ProbeReadRefuses(t)
             \/ ProbeCreate(t) \/ ProbeCreateRefused(t)
      PROVE  FALSE
  BY <1>1 DEF Call, LockDestination, ProbeExists, ProbeReadEmpty, ProbeReadRefuses,
              ProbeCreate, ProbeCreateRefused
<1>2. ASSUME NEW t \in Threads, Cloning(t)
      PROVE  Probed(t) /\ Moves(t)
  BY <1>2 DEF Cloning, CloneRefused, CloneChecked, CloneInit, CloneChecksOut,
              CloneSucceeds, CloneFails
<1>3. ASSUME NEW t \in Threads, Restoring(t)
      PROVE  Probed(t) /\ Moves(t)
  BY <1>3 DEF Restoring, RestoreLists, RestoreCannotList, RemoveEntry,
              RemoveEntryFails, RemoveDirectory, RemoveDirectoryFails,
              KeepDirectory, CloneFailure
<1>4. ASSUME NEW p \in Processes, Crash(p)
      PROVE  FALSE
  BY <1>4 DEF Crash
<1>5. CASE UNCHANGED vars
  BY <1>5 DEF vars
<1> QED
  BY <1>1, <1>2, <1>3, <1>4, <1>5 DEF Next, Cloning, Restoring

\* The files of a clone that has finished are safe from the other clones of
\* its own process: one that probed later found them and was refused.
THEOREM WinnerIsSafe == Spec => WinnerIsSafeFromItsOwn
<1> DEFINE Safe == \A t \in Threads :
       outcome[t] = "ok" /\ entries = Tree(t) /\ entries' # Tree(t)
         => \E u \in Threads : ProcessOf[u] # ProcessOf[t] /\ Moves(u)
<1>1. IInv /\ [Next]_vars => Safe
  <2> SUFFICES ASSUME IInv, [Next]_vars,
                      NEW t \in Threads, outcome[t] = "ok",
                      entries = Tree(t), entries' # Tree(t)
               PROVE  \E u \in Threads : ProcessOf[u] # ProcessOf[t] /\ Moves(u)
    OBVIOUS
  <2>1. PICK u \in Threads : Probed(u) /\ Moves(u)
    BY EntriesStep
  <2>2. u # t
    BY <2>1 DEF IInv, OutcomeIsOfLast, Probed
  <2>3. <<t, GitDir>> \in entries
    BY DEF Tree
  <2>4. IsForeign(u, <<t, GitDir>>)
    BY <2>1, <2>2, <2>3 DEF IInv, ProbedStaysOurs
  <2> QED
    BY <2>1, <2>4 DEF IsForeign
<1> QED
  BY <1>1, CloneInvariant, PTL DEF Spec, WinnerIsSafeFromItsOwn

\* Files that were there before any clone are never taken away: whoever has
\* probed the destination found none.
THEOREM OthersAreKept == Spec => OthersKeepTheirFiles
<1> DEFINE Kept == \A n \in Names : <<Others, n>> \in entries => <<Others, n>> \in entries'
<1>1. IInv /\ [Next]_vars => Kept
  <2> SUFFICES ASSUME IInv, [Next]_vars, NEW n \in Names,
                      <<Others, n>> \in entries, <<Others, n>> \notin entries'
               PROVE  FALSE
    OBVIOUS
  <2>1. PICK u \in Threads : Probed(u)
    BY EntriesStep
  <2> QED
    BY <2>1 DEF IInv, ProbedStaysOurs, IsForeign
<1> QED
  BY <1>1, CloneInvariant, PTL DEF Spec, OthersKeepTheirFiles

\* clone_failure calls an error retriable only when restore_destination has
\* removed, entry by entry, all it was shown of its own process's files.
THEOREM RetryIsNotInItsOwnWay == Spec => RetryMeetsNothingOfItsOwn
<1> DEFINE Clean == \A t \in Threads : MayRetry(t) =>
       \A e \in entries : IsForeign(t, e) \/ e[2] \in missed[t]
<1>1. IInv /\ [Next]_vars => Clean
  <2> SUFFICES ASSUME IInv, [Next]_vars, NEW t \in Threads, MayRetry(t)
               PROVE  \A e \in entries : IsForeign(t, e) \/ e[2] \in missed[t]
    OBVIOUS
  <2> USE DEF IInv, TypeOK, Goto, Return, MayRetry
  <2>1. ~retriable[t]
    BY DEF OutcomeIsOfLast
  <2>2. ASSUME NEW u \in Threads, u # t \/ ~CloneFailure(u),
               \/ Call(u) \/ LockDestination(u)
               \/ ProbeExists(u) \/ ProbeReadEmpty(u) \/ ProbeReadRefuses(u)
               \/ ProbeCreate(u) \/ ProbeCreateRefused(u)
        PROVE  FALSE
    BY <2>1, <2>2
    DEF Call, LockDestination, ProbeExists, ProbeReadEmpty, ProbeReadRefuses,
        ProbeCreate, ProbeCreateRefused
  <2>3. ASSUME NEW u \in Threads, Cloning(u)
        PROVE  FALSE
    BY <2>1, <2>3 DEF Cloning, CloneRefused, CloneChecked, CloneInit, CloneChecksOut,
                      CloneSucceeds, CloneFails
  <2>4. ASSUME NEW u \in Threads, u # t \/ ~CloneFailure(u), Restoring(u)
        PROVE  FALSE
    BY <2>1, <2>4 DEF Restoring, RestoreLists, RestoreCannotList, RemoveEntry,
                      RemoveEntryFails, RemoveDirectory, RemoveDirectoryFails,
                      KeepDirectory, CloneFailure
  <2>5. ASSUME CloneFailure(t)
        PROVE  \A e \in entries : IsForeign(t, e) \/ e[2] \in missed[t]
    <3>1. cleared[t]
      BY <2>5 DEF CloneFailure
    <3> QED
      BY <3>1 DEF ClearedSoFar
  <2>6. ASSUME NEW p \in Processes, Crash(p)
        PROVE  FALSE
    BY <2>1, <2>6 DEF Crash
  <2>7. CASE UNCHANGED vars
    BY <2>1, <2>7 DEF vars
  <2> QED
    BY <2>2, <2>3, <2>4, <2>5, <2>6, <2>7 DEF Next, Cloning, Restoring
<1> QED
  BY <1>1, CloneInvariant, PTL DEF Spec, RetryMeetsNothingOfItsOwn
=============================================================================
