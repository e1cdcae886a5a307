-------------------------- MODULE CloneDestination --------------------------
(***************************************************************************)
(* clone_impl of src/remote_ops.rs on one destination path: the lock of    *)
(* lock_destination (src/utils.rs), probe_destination, libgit2's clone     *)
(* (external), restore_destination and the error clone_failure makes.      *)
(*                                                                         *)
(* The destination is a directory that may or may not exist, and what is   *)
(* in it: under which name and put there by whom. lock_destination         *)
(* excludes the threads of one process only, so each file-system call of   *)
(* the crate is a step: the reading of a directory, and then the removal   *)
(* of each entry read. libgit2's clone is a step for each of its phases.   *)
(***************************************************************************)
CONSTANTS
  Processes,
  Threads,
  ProcessOf,   \* [Threads -> Processes]
  Names,       \* names of entries of the destination
  GitDir,      \* the one a clone begins with, .git
  Others,      \* the owner of files that were there before any clone
  Nobody       \* the owner of a free process mutex

ASSUME CloneAssumption ==
  /\ ProcessOf \in [Threads -> Processes]
  /\ GitDir \in Names
  /\ Others \notin Threads
  /\ Nobody \notin Threads

VARIABLES
  exists,        \* BOOLEAN: the destination directory is there
  entries,       \* the files in it, as <<owner, name>>: two clones share names
  processMutex,  \* [Processes -> thread or Nobody], for this destination
  pc,            \* [Threads -> Points]
  found,         \* [Threads -> States]: the probe's DestinationState
  listed,        \* [Threads -> SUBSET Names]: what restore_destination read
                 \* of the directory and has yet to remove
  missed,        \* [Threads -> SUBSET Names]: what a failing read left out
  cleared,       \* [Threads -> BOOLEAN]: restore_destination's answer so far
  outcome,       \* [Threads -> Outcomes]: the result of the last call
  retriable      \* [Threads -> BOOLEAN]: is_retryable() of that result

cleanUp == <<listed, missed, cleared>>
vars == <<exists, entries, processMutex, pc, found, cleanUp, outcome, retriable>>

States == {"Created", "ExistingEmpty"}
Outcomes == {"none", "ok", "not_empty", "io_error", "failed"}
Points == {"idle", "lock", "probe", "read", "create", "clone", "init", "transfer",
           "checkout", "restore", "remove", "restored"}

\* What a clone puts into the destination, and the names there are in it.
Tree(t) == {t} \X Names
Present == {n \in Names : \E e \in entries : e[2] = n}
Under(n) == {e \in entries : e[2] = n}

Init ==
  /\ exists \in BOOLEAN
  /\ entries \in SUBSET ({Others} \X Names)
  /\ entries # {} => exists
  /\ processMutex = [p \in Processes |-> Nobody]
  /\ pc = [t \in Threads |-> "idle"]
  /\ found = [t \in Threads |-> "Created"]
  /\ listed = [t \in Threads |-> {}]
  /\ missed = [t \in Threads |-> {}]
  /\ cleared = [t \in Threads |-> TRUE]
  /\ outcome = [t \in Threads |-> "none"]
  /\ retriable = [t \in Threads |-> FALSE]

Goto(t, from, to) == pc[t] = from /\ pc' = [pc EXCEPT ![t] = to]

\* clone_impl returns: its locals go, and the guard of lock_destination drops.
Return(t, result, retry) ==
  /\ pc' = [pc EXCEPT ![t] = "idle"]
  /\ listed' = [listed EXCEPT ![t] = {}]
  /\ missed' = [missed EXCEPT ![t] = {}]
  /\ cleared' = [cleared EXCEPT ![t] = TRUE]
  /\ outcome' = [outcome EXCEPT ![t] = result]
  /\ retriable' = [retriable EXCEPT ![t] = retry]
  /\ processMutex' = [processMutex EXCEPT ![ProcessOf[t]] = Nobody]

Call(t) ==
  /\ Goto(t, "idle", "lock")
  /\ outcome' = [outcome EXCEPT ![t] = "none"]
  /\ retriable' = [retriable EXCEPT ![t] = FALSE]
  /\ UNCHANGED <<exists, entries, processMutex, found, cleanUp>>

\* Mutant of LockDestination: clones of one process are not excluded either.
LockNothing(t) ==
  /\ Goto(t, "lock", "probe")
  /\ UNCHANGED <<exists, entries, processMutex, found, outcome, retriable, cleanUp>>

\* The in-process mutex, and no file lock.
LockDestination(t) ==
  /\ Goto(t, "lock", "probe")
  /\ processMutex[ProcessOf[t]] = Nobody
  /\ processMutex' = [processMutex EXCEPT ![ProcessOf[t]] = t]
  /\ UNCHANGED <<exists, entries, found, outcome, retriable, cleanUp>>

\* dest.exists()
ProbeExists(t) ==
  /\ pc[t] = "probe"
  /\ pc' = [pc EXCEPT ![t] = IF exists THEN "read" ELSE "create"]
  /\ UNCHANGED <<exists, entries, processMutex, found, outcome, retriable, cleanUp>>

\* Mutant of ProbeReadEmpty: a destination that exists is taken as it is.
ProbeTrustsExisting(t) ==
  /\ Goto(t, "read", "clone")
  /\ found' = [found EXCEPT ![t] = "ExistingEmpty"]
  /\ UNCHANGED <<exists, entries, processMutex, outcome, retriable, cleanUp>>

\* read_dir finds no entry.
ProbeReadEmpty(t) ==
  /\ Goto(t, "read", "clone")
  /\ exists /\ entries = {}
  /\ found' = [found EXCEPT ![t] = "ExistingEmpty"]
  /\ UNCHANGED <<exists, entries, processMutex, outcome, retriable, cleanUp>>

\* read_dir finds an entry, or fails because the directory has gone.
ProbeReadRefuses(t) ==
  /\ pc[t] = "read"
  /\ \/ exists /\ entries # {} /\ Return(t, "not_empty", FALSE)
     \/ ~exists /\ Return(t, "io_error", TRUE)
  /\ UNCHANGED <<exists, entries, found>>

\* create_dir succeeds.
ProbeCreate(t) ==
  /\ Goto(t, "create", "clone")
  /\ ~exists
  /\ exists' = TRUE
  /\ found' = [found EXCEPT ![t] = "Created"]
  /\ UNCHANGED <<entries, processMutex, outcome, retriable, cleanUp>>

\* AlreadyExists: another process created the directory since exists().
ProbeCreateRefused(t) ==
  /\ pc[t] = "create"
  /\ exists
  /\ Return(t, "not_empty", FALSE)
  /\ UNCHANGED <<exists, entries, found>>

-----------------------------------------------------------------------------
(***************************************************************************)
(* RepoBuilder::clone. libgit2 refuses a destination that is not empty,    *)
(* initialises the repository, transfers, checks out, and when a later     *)
(* step fails empties the directory again, whoever filled it.              *)
(***************************************************************************)
CloneRefused(t) ==
  /\ Goto(t, "clone", "restore")
  /\ entries # {}
  /\ UNCHANGED <<exists, entries, processMutex, found, cleanUp, outcome, retriable>>

CloneChecked(t) ==
  /\ Goto(t, "clone", "init")
  /\ entries = {}
  /\ UNCHANGED <<exists, entries, processMutex, found, cleanUp, outcome, retriable>>

CloneInit(t) ==
  /\ Goto(t, "init", "transfer")
  /\ exists' = TRUE
  /\ entries' = entries \union {<<t, GitDir>>}
  /\ UNCHANGED <<processMutex, found, cleanUp, outcome, retriable>>

CloneChecksOut(t) ==
  /\ Goto(t, "transfer", "checkout")
  /\ <<t, GitDir>> \in entries
  /\ entries' = entries \union Tree(t)
  /\ UNCHANGED <<exists, processMutex, found, cleanUp, outcome, retriable>>

CloneSucceeds(t) ==
  /\ pc[t] = "checkout"
  /\ Return(t, "ok", FALSE)
  /\ UNCHANGED <<exists, entries, found>>

\* The transfer or the checkout fails; libgit2's own clean-up may not remove
\* everything, and its result is not looked at.
CloneFails(t) ==
  /\ pc[t] \in {"transfer", "checkout"}
  /\ pc' = [pc EXCEPT ![t] = "restore"]
  /\ entries' \in SUBSET entries
  /\ UNCHANGED <<exists, processMutex, found, cleanUp, outcome, retriable>>

-----------------------------------------------------------------------------
(***************************************************************************)
(* restore_destination. A directory the probe found empty is read once and *)
(* each entry read is removed; one the probe created goes to               *)
(* remove_dir_all, which does that too, stops at the first error, and      *)
(* removes the directory last.                                             *)
(***************************************************************************)

\* entries.flatten() drops an error of the reading, and what it had yet to
\* read with it; remove_dir_all returns such an error.
RestoreLists(t) ==
  /\ Goto(t, "restore", "remove")
  /\ exists
  /\ \E read \in SUBSET Present :
       /\ found[t] = "Created" => read = Present
       /\ listed' = [listed EXCEPT ![t] = read]
       /\ missed' = [missed EXCEPT ![t] = Present \ read]
  /\ UNCHANGED <<exists, entries, processMutex, found, cleared, outcome, retriable>>

\* read_dir fails: the directory has gone, or cannot be read.
RestoreCannotList(t) ==
  /\ Goto(t, "restore", "restored")
  /\ cleared' = [cleared EXCEPT ![t] = FALSE]
  /\ UNCHANGED <<exists, entries, processMutex, found, listed, missed, outcome, retriable>>

\* Mutant of RemoveEntry: "cleared = removed.is_ok()" for "cleared &= ...".
RemoveEntryOverwritesAnswer(t) ==
  /\ Goto(t, "remove", "remove")
  /\ \E n \in listed[t] :
       /\ found[t] = "ExistingEmpty" => n \in Present
       /\ entries' = entries \ Under(n)
       /\ listed' = [listed EXCEPT ![t] = @ \ {n}]
  /\ cleared' = [cleared EXCEPT ![t] = TRUE]
  /\ UNCHANGED <<exists, processMutex, found, missed, outcome, retriable>>

\* The next entry is removed, with whatever others have put under its name.
\* remove_file fails on one that has gone, remove_dir_all does not.
RemoveEntry(t) ==
  /\ Goto(t, "remove", "remove")
  /\ \E n \in listed[t] :
       /\ found[t] = "ExistingEmpty" => n \in Present
       /\ entries' = entries \ Under(n)
       /\ listed' = [listed EXCEPT ![t] = @ \ {n}]
  /\ UNCHANGED <<exists, processMutex, found, missed, cleared, outcome, retriable>>

\* It is not, or in part: the loop of restore_destination goes on, that of
\* remove_dir_all ends.
RemoveEntryFails(t) ==
  /\ pc[t] = "remove"
  /\ pc' = [pc EXCEPT ![t] = IF found[t] = "Created" THEN "restored" ELSE "remove"]
  /\ \E n \in listed[t] : \E part \in SUBSET Under(n) :
       /\ entries' = entries \ part
       /\ listed' = [listed EXCEPT ![t] = @ \ {n}]
  /\ cleared' = [cleared EXCEPT ![t] = FALSE]
  /\ UNCHANGED <<exists, processMutex, found, missed, outcome, retriable>>

\* Mutant of RemoveDirectory: the directory goes with what came into it since.
RemoveDirectoryUnseen(t) ==
  /\ Goto(t, "remove", "restored")
  /\ found[t] = "Created" /\ listed[t] = {}
  /\ exists' = FALSE
  /\ UNCHANGED <<entries, processMutex, found, cleanUp, outcome, retriable>>

\* Everything read has been removed: now the directory, if it is empty still.
RemoveDirectory(t) ==
  /\ Goto(t, "remove", "restored")
  /\ found[t] = "Created" /\ listed[t] = {}
  /\ entries = {}
  /\ exists' = FALSE
  /\ UNCHANGED <<entries, processMutex, found, cleanUp, outcome, retriable>>

\* It is not empty, has gone, or may not be removed.
RemoveDirectoryFails(t) ==
  /\ Goto(t, "remove", "restored")
  /\ found[t] = "Created" /\ listed[t] = {}
  /\ cleared' = [cleared EXCEPT ![t] = FALSE]
  /\ UNCHANGED <<exists, entries, processMutex, found, listed, missed, outcome, retriable>>

\* The loop over a directory that was there ends, and leaves it there.
KeepDirectory(t) ==
  /\ Goto(t, "remove", "restored")
  /\ found[t] = "ExistingEmpty" /\ listed[t] = {}
  /\ UNCHANGED <<exists, entries, processMutex, found, cleanUp, outcome, retriable>>

\* clone_failure, and is_retryable of the error it makes: the cause must be
\* retriable and the partial destination removed.
CloneFailure(t) ==
  /\ pc[t] = "restored"
  /\ \E cause \in BOOLEAN : Return(t, "failed", cause /\ cleared[t])
  /\ UNCHANGED <<exists, entries, found>>

\* The process dies: the mutex goes with it, the files stay.
Crash(p) ==
  LET alive(t) == ProcessOf[t] # p IN
  /\ pc' = [t \in Threads |-> IF alive(t) THEN pc[t] ELSE "idle"]
  /\ outcome' = [t \in Threads |-> IF alive(t) THEN outcome[t] ELSE "none"]
  /\ retriable' = [t \in Threads |-> alive(t) /\ retriable[t]]
  /\ processMutex' = [processMutex EXCEPT ![p] = Nobody]
  /\ listed' = [t \in Threads |-> IF alive(t) THEN listed[t] ELSE {}]
  /\ missed' = [t \in Threads |-> IF alive(t) THEN missed[t] ELSE {}]
  /\ cleared' = [t \in Threads |-> alive(t) => cleared[t]]
  /\ UNCHANGED <<exists, entries, found>>

Next ==
  \/ \E t \in Threads :
       \/ Call(t) \/ LockDestination(t)
       \/ ProbeExists(t) \/ ProbeReadEmpty(t) \/ ProbeReadRefuses(t)
       \/ ProbeCreate(t) \/ ProbeCreateRefused(t)
       \/ CloneRefused(t) \/ CloneChecked(t) \/ CloneInit(t)
       \/ CloneChecksOut(t) \/ CloneSucceeds(t) \/ CloneFails(t)
       \/ RestoreLists(t) \/ RestoreCannotList(t)
       \/ RemoveEntry(t) \/ RemoveEntryFails(t)
       \/ RemoveDirectory(t) \/ RemoveDirectoryFails(t) \/ KeepDirectory(t)
       \/ CloneFailure(t)
  \/ \E p \in Processes : Crash(p)

Spec == Init /\ [][Next]_vars

-----------------------------------------------------------------------------
\* The state's types; a destination with files in it is there.
TypeOK ==
  /\ exists \in BOOLEAN
  /\ entries \in SUBSET ((Threads \union {Others}) \X Names)
  /\ processMutex \in [Processes -> Threads \union {Nobody}]
  /\ pc \in [Threads -> Points]
  /\ found \in [Threads -> States]
  /\ listed \in [Threads -> SUBSET Names]
  /\ missed \in [Threads -> SUBSET Names]
  /\ cleared \in [Threads -> BOOLEAN]
  /\ outcome \in [Threads -> Outcomes]
  /\ retriable \in [Threads -> BOOLEAN]
  /\ entries # {} => exists

\* utils.rs:363 "the loser meets DESTINATION_NOT_EMPTY against a tree the
\* winner owns rather than an interleaved one": a clone that succeeded keeps
\* its tree, and shares it with nobody, whatever other clones do.
WinnerKeepsItsTree ==
  \A t \in Threads : outcome[t] = "ok" => entries = Tree(t)

\* A thread goes on.
Moves(u) == pc'[u] # pc[u] \/ listed'[u] # listed[u]

\* What lock_destination does promise: only a clone of another process takes a
\* finished clone's files away or puts others beside them.
WinnerIsSafeFromItsOwn ==
  [][\A t \in Threads :
       outcome[t] = "ok" /\ entries = Tree(t) /\ entries' # Tree(t)
         => \E u \in Threads : ProcessOf[u] # ProcessOf[t] /\ Moves(u)]_vars

\* Files that were in the destination before are never removed by a clone or
\* by the clean-up after one.
OthersKeepTheirFiles ==
  [][\A n \in Names : <<Others, n>> \in entries => <<Others, n>> \in entries']_vars

\* The caller is told that it may retry.
MayRetry(t) == pc[t] = "restored" /\ retriable'[t]

\* The file of another process's clone.
IsForeign(t, e) == e[1] \in Threads /\ ProcessOf[e[1]] # ProcessOf[t]

\* A caller told to retry does not meet DESTINATION_NOT_EMPTY on what that call,
\* or any of its process, left behind: each removal since the directory was
\* read has succeeded. The exceptions are what an error of that reading kept
\* from the list, and what clones of other processes have put there since.
RetryMeetsNothingOfItsOwn ==
  [][\A t \in Threads : MayRetry(t) =>
       \A e \in entries : IsForeign(t, e) \/ e[2] \in missed[t]]_vars

-----------------------------------------------------------------------------
(***************************************************************************)
(* The inductive invariant behind the action properties.                   *)
(***************************************************************************)

\* A thread past lock_destination is the registered owner of the mutex.
MutexIsOwned ==
  \A t \in Threads : pc[t] \notin {"idle", "lock"} => processMutex[ProcessOf[t]] = t

\* The probe has found the destination empty.
Probed(t) ==
  pc[t] \in {"clone", "init", "transfer", "checkout", "restore", "remove", "restored"}

\* Since then nobody of its own process has put files there, and nobody can
\* have who is no clone.
ProbedStaysOurs ==
  \A t \in Threads : Probed(t) =>
    \A e \in entries : e[1] = t \/ IsForeign(t, e)

\* restore_destination still answers yes: what is left of its process's files
\* is under names it has yet to remove, or was not shown.
ClearedSoFar ==
  \A t \in Threads : pc[t] \in {"remove", "restored"} /\ cleared[t] =>
    /\ pc[t] = "restored" => listed[t] = {}
    /\ \A e \in entries : IsForeign(t, e) \/ e[2] \in listed[t] \union missed[t]

\* An outcome is that of a call that has returned.
OutcomeIsOfLast ==
  \A t \in Threads : (outcome[t] # "none" \/ retriable[t]) => pc[t] = "idle"

IInv == TypeOK /\ MutexIsOwned /\ ProbedStaysOurs /\ ClearedSoFar /\ OutcomeIsOfLast
=============================================================================
