---------------------------- MODULE StagingProofs ----------------------------
(***************************************************************************)
(* Theorems about Staging, for every set of files, contents and            *)
(* directories, and every bound: what is committed was on disk, a call     *)
(* that fails leaves no trace, a commit follows HEAD, a restore spares     *)
(* what nobody has committed.                                              *)
(***************************************************************************)
EXTENDS Staging, TLAPS

USE StagingAssumption

\* The tree of a commit is a tree.
LEMMA TreeIsFiles ==
  ASSUME TypeOK, NEW c \in 0..Len(log)
  PROVE  TreeOf(c) \in Files
<1>1. CASE c = 0
  BY <1>1 DEF TreeOf, Empty, Files, File
<1>2. CASE c # 0
  <2>1. log[c] \in CommitObjects
    BY <1>2 DEF TypeOK, DiskOK
  <2> QED
    BY <1>2, <2>1 DEF TreeOf, CommitObjects
<1> QED
  BY <1>1, <1>2

\* A new commit goes to the end of the log, and HEAD to it.
LEMMA LogGrows ==
  ASSUME TypeOK, Len(log) < MaxCommits,
         NEW tree \in Files, NEW parent \in 0..Len(log),
         log' = Append(log, [tree |-> tree, parent |-> parent]), head' = Len(log')
  PROVE  /\ log' \in Seq(CommitObjects)
         /\ Len(log') = Len(log) + 1
         /\ Len(log') <= MaxCommits
         /\ \A c \in 1..Len(log') : log'[c].parent < c
         /\ head' \in 0..Len(log')
         /\ \A c \in 1..Len(log) : log'[c] = log[c]
         /\ log'[head'] = [tree |-> tree, parent |-> parent]
<1> USE DEF TypeOK, DiskOK
<1>1. [tree |-> tree, parent |-> parent] \in CommitObjects
  BY DEF CommitObjects
<1>2. /\ log' \in Seq(CommitObjects)
      /\ Len(log') = Len(log) + 1
      /\ \A c \in 1..Len(log) : log'[c] = log[c]
      /\ log'[Len(log) + 1] = [tree |-> tree, parent |-> parent]
  BY <1>1
<1>3. \A c \in 1..Len(log') : log'[c].parent < c
  BY <1>2
<1> QED
  BY <1>2, <1>3

\* An operation that returns leaves nothing of itself behind, so the disk is
\* all there is to look at.
LEMMA ReturnStep ==
  ASSUME IInv, NEW result \in Outcomes, Return(result), DiskOK'
  PROVE  IInv'
<1>1. TypeOK'
  <2>1. NoCall \in Arguments
    BY DEF NoCall, Arguments, Kinds, File
  <2>2. Empty \in Files /\ Nowhere \in [Paths -> SUBSET File]
    BY DEF Empty, Nowhere, Files, File
  <2>3. tip' \in 0..Len(log')
    BY DEF Return, DiskOK
  <2>4. OperationOK'
    BY <2>1, <2>2, <2>3 DEF OperationOK, Return, Phases
  <2> QED
    BY <2>4 DEF IInv, TypeOK, Return
<1>2. phase' = "idle"
  BY DEF Return
<1> QED
  BY <1>1, <1>2 DEF IInv, PhaseHasItsCall, SeenIsCurrent, StagedWasOnDisk,
                    IndexIsUntouched, NothingWasLost

\* A call that fails at once touches nothing.
LEMMA FailStep ==
  ASSUME IInv, NEW result \in Outcomes, Fail(result)
  PROVE  IInv'
<1>1. DiskOK'
  BY DEF Fail, disk, DiskOK, IInv, TypeOK
<1> QED
  BY <1>1, ReturnStep DEF Fail

\* The calls that are over in one step.
LEMMA ShortCallStep ==
  ASSUME IInv, NEW p \in Paths, NEW q \in Paths,
         \/ StageFile(p) \/ StageDeletion(p) \/ Unstage(p) \/ Discard(p) \/ MoveFails(p)
         \/ StageRename(p, q)
  PROVE  IInv'
<1> USE DEF Outcomes
<1>1. HeadTree \in Files
  BY TreeIsFiles DEF IInv, TypeOK, DiskOK, HeadTree
<1>2. CASE StageFile(p)
  <2>1. CASE wt[p] = Absent
    BY <1>2, <2>1, FailStep DEF StageFile
  <2>2. CASE wt[p] # Absent
    <3>1. DiskOK'
      BY <1>2, <2>2 DEF StageFile, DiskOK, IInv, TypeOK, Files
    <3> QED
      BY <1>2, <2>2, <3>1, ReturnStep DEF StageFile
  <2> QED
    BY <2>1, <2>2
<1>3. CASE StageDeletion(p)
  <2>1. DiskOK'
    BY <1>3 DEF StageDeletion, DiskOK, IInv, TypeOK, Files, File
  <2> QED
    BY <1>3, <2>1, ReturnStep DEF StageDeletion
<1>4. CASE Unstage(p)
  <2>1. CASE index[p] = Absent \/ head = 0
    BY <1>4, <2>1, FailStep DEF Unstage
  <2>2. CASE ~(index[p] = Absent \/ head = 0)
    <3>1. DiskOK'
      BY <1>1, <1>4, <2>2 DEF Unstage, DiskOK, IInv, TypeOK, Files
    <3> QED
      BY <1>4, <2>2, <3>1, ReturnStep DEF Unstage
  <2> QED
    BY <2>1, <2>2
<1>5. CASE Discard(p)
  <2>1. CASE HeadTree[p] = Absent
    BY <1>5, <2>1, FailStep DEF Discard
  <2>2. CASE HeadTree[p] # Absent
    <3>1. DiskOK'
      BY <1>1, <1>5, <2>2 DEF Discard, DiskOK, IInv, TypeOK, Files
    <3> QED
      BY <1>5, <2>2, <3>1, ReturnStep DEF Discard
  <2> QED
    BY <2>1, <2>2
<1>6. CASE MoveFails(p)
  BY <1>6, FailStep DEF MoveFails
<1>7. CASE StageRename(p, q)
  <2>1. CASE wt[q] = Absent
    BY <1>7, <2>1, FailStep DEF StageRename
  <2>2. CASE wt[q] # Absent
    <3>1. DiskOK'
      BY <1>7, <2>2 DEF StageRename, Renamed, DiskOK, IInv, TypeOK, Files, File
    <3> QED
      BY <1>7, <2>2, <3>1, ReturnStep DEF StageRename
  <2> QED
    BY <2>1, <2>2
<1> QED
  BY <1>2, <1>3, <1>4, <1>5, <1>6, <1>7

\* A call that goes on has its arguments and a fresh history.
LEMMA BeginTypes ==
  ASSUME IInv, NEW to \in Phases \ {"idle"}, NEW arguments \in Arguments,
         Begin(to, arguments), UNCHANGED disk, memory' \in Files, adds' \in SUBSET Paths,
         tip' \in 0..Len(log)
  PROVE  TypeOK' /\ SeenIsCurrent' /\ IndexIsUntouched'
<1> USE DEF IInv, TypeOK, Begin, disk
<1>1. DiskOK'
  BY DEF DiskOK
<1>2. OperationOK'
  BY DEF OperationOK, DiskOK, Files
<1>3. SeenIsCurrent' /\ IndexIsUntouched'
  BY DEF SeenIsCurrent, IndexIsUntouched
<1> QED
  BY <1>1, <1>2, <1>3 DEF Outcomes

\* PlanStaging keeps of a path that is not on disk that it was not.
LEMMA PlanStep ==
  ASSUME IInv, NEW paths \in SUBSET Paths, PlanStaging(paths)
  PROVE  IInv'
<1>1. PICK c : c = [NoCall EXCEPT !.kind = "commit_files", !.paths = paths]
  OBVIOUS
<1>2. c \in Arguments /\ c.kind = "commit_files" /\ c.paths = paths
  BY <1>1 DEF NoCall, Arguments, Kinds, File
<1>3. TypeOK' /\ SeenIsCurrent' /\ IndexIsUntouched'
  BY <1>1, <1>2, BeginTypes DEF PlanStaging, IInv, TypeOK, DiskOK, OperationOK, Phases, disk
<1>4. PhaseHasItsCall' /\ NothingWasLost'
  BY <1>1, <1>2 DEF PlanStaging, Begin, PhaseHasItsCall, NothingWasLost
<1>5. StagedWasOnDisk'
  BY <1>1, <1>2 DEF PlanStaging, Begin, StagedWasOnDisk
<1> QED
  BY <1>3, <1>4, <1>5 DEF IInv

\* The index loaded here is the one on disk.
LEMMA CommitBeginStep ==
  ASSUME IInv, CommitStaged \/ AmendRead
  PROVE  IInv'
<1>1. PICK kind \in {"commit_staged", "amend"} :
        kind = IF CommitStaged THEN "commit_staged" ELSE "amend"
  OBVIOUS
<1>2. PICK c : c = [NoCall EXCEPT !.kind = kind]
  OBVIOUS
<1>3. c \in Arguments /\ c.kind = kind /\ c.paths = {}
  BY <1>2 DEF NoCall, Arguments, Kinds, File
<1>4. TypeOK' /\ SeenIsCurrent' /\ IndexIsUntouched'
  BY <1>1, <1>2, <1>3, BeginTypes
  DEF CommitStaged, AmendRead, IInv, TypeOK, DiskOK, OperationOK, Phases, disk
<1>5. PhaseHasItsCall' /\ NothingWasLost' /\ StagedWasOnDisk'
  BY <1>1, <1>2, <1>3 DEF CommitStaged, AmendRead, Begin, PhaseHasItsCall, NothingWasLost,
                    StagedWasOnDisk
<1> QED
  BY <1>4, <1>5 DEF IInv

\* The rename is the first step of move_file_impl, so the source was absent.
LEMMA MoveBeginStep ==
  ASSUME IInv, NEW p \in Paths, NEW q \in Paths, MoveRename(p, q)
  PROVE  IInv'
<1>1. PICK c : c = [NoCall EXCEPT !.kind = "move", !.paths = {p, q}, !.from = p, !.to = q]
  OBVIOUS
<1>2. /\ c \in Arguments
      /\ c.kind = "move" /\ c.paths = {p, q} /\ c.from = p /\ c.to = q
  BY <1>1 DEF NoCall, Arguments, Kinds, File
<1>3. wt' \in Files
  BY DEF MoveRename, IInv, TypeOK, DiskOK, Files, File
<1>4. DiskOK'
  BY <1>3 DEF MoveRename, IInv, TypeOK, DiskOK
<1>5. OperationOK'
  <2>1. phase' = "move" /\ call' = c /\ index \in Files
        /\ seen' \in [Paths -> SUBSET File]
    BY <1>1, <1>3 DEF MoveRename, IInv, TypeOK, DiskOK, Files
  <2> QED
    BY <1>2, <2>1 DEF MoveRename, IInv, TypeOK, OperationOK, Phases
<1>6. TypeOK'
  BY <1>4, <1>5 DEF MoveRename, IInv, TypeOK, Outcomes
<1>7. PhaseHasItsCall' /\ SeenIsCurrent' /\ IndexIsUntouched' /\ NothingWasLost'
  BY <1>1, <1>2 DEF MoveRename, PhaseHasItsCall, SeenIsCurrent, IndexIsUntouched, NothingWasLost
<1>8. StagedWasOnDisk'
  <2>1. wt'[p] = Absent
    BY DEF MoveRename, IInv, TypeOK, DiskOK, Files
  <2> QED
    BY <1>1, <1>2, <2>1 DEF MoveRename, StagedWasOnDisk
<1> QED
  BY <1>6, <1>7, <1>8 DEF IInv

\* move_directory_impl loads the index before it moves anything.
LEMMA WalkBeginStep ==
  ASSUME IInv, NEW d \in Directories, MoveDirectory(d)
  PROVE  IInv'
<1>1. PICK c : c = [NoCall EXCEPT !.kind = "move_directory", !.directory = d, !.left = d]
  OBVIOUS
<1>2. /\ c \in Arguments
      /\ c.kind = "move_directory" /\ c.directory = d /\ c.left = d /\ c.paths = {}
  BY <1>1 DEF NoCall, Arguments, Kinds, File
<1>3. TypeOK' /\ SeenIsCurrent' /\ IndexIsUntouched'
  BY <1>1, <1>2, BeginTypes DEF MoveDirectory, IInv, TypeOK, DiskOK, OperationOK, Phases, disk
<1>4. PhaseHasItsCall' /\ NothingWasLost' /\ StagedWasOnDisk'
  BY <1>1, <1>2 DEF MoveDirectory, Begin, PhaseHasItsCall, NothingWasLost, StagedWasOnDisk
<1> QED
  BY <1>3, <1>4 DEF IInv

\* What the check compares is what seen begins with.
LEMMA RestoreBeginStep ==
  ASSUME IInv, NEW p \in Paths, NEW version \in 1..Len(log), NEW force \in BOOLEAN,
         RestoreCheck(p, version, force)
  PROVE  IInv'
<1>1. PICK c : c = [NoCall EXCEPT !.kind = "restore", !.paths = {p},
                                  !.content = TreeOf(version)[p], !.force = force]
  OBVIOUS
<1>2. TreeOf(version)[p] \in File
  BY TreeIsFiles DEF IInv, TypeOK, Files
<1>3. c \in Arguments /\ c.paths = {p} /\ c.force = force
  BY <1>1, <1>2 DEF NoCall, Arguments, Kinds, File
<1>4. TypeOK' /\ SeenIsCurrent' /\ IndexIsUntouched'
  BY <1>1, <1>3, BeginTypes DEF RestoreCheck, IInv, TypeOK, DiskOK, OperationOK, Phases, disk
<1>5. PhaseHasItsCall' /\ StagedWasOnDisk'
  BY <1>1, <1>3 DEF RestoreCheck, Begin, PhaseHasItsCall, StagedWasOnDisk
<1>6. NothingWasLost'
  <2>1. HeadTree' = HeadTree
    BY DEF RestoreCheck, HeadTree, TreeOf, disk
  <2> QED
    BY <1>1, <1>3, <2>1 DEF RestoreCheck, Begin, NothingWasLost, WouldBeLost
<1> QED
  BY <1>4, <1>5, <1>6 DEF IInv

\* The steps that begin an operation, or are all of it.
LEMMA CallStep == IInv /\ Calls => IInv'
<1> SUFFICES ASSUME IInv, Calls
             PROVE  IInv'
  OBVIOUS
<1>1. ASSUME NEW paths \in SUBSET Paths, PlanFails(paths)
      PROVE  IInv'
  BY <1>1, FailStep DEF PlanFails, Outcomes
<1>2. CASE AmendRefuses
  BY <1>2, FailStep DEF AmendRefuses, Outcomes
<1>3. ASSUME NEW p \in Paths, NEW version \in 1..Len(log), NEW force \in BOOLEAN,
             RestoreRefuses(p, version, force)
      PROVE  IInv'
  BY <1>3, FailStep DEF RestoreRefuses, Outcomes
<1> QED
  BY <1>1, <1>2, <1>3, ShortCallStep, PlanStep, CommitBeginStep, MoveBeginStep,
     WalkBeginStep, RestoreBeginStep
  DEF Calls

-----------------------------------------------------------------------------
\* The steps that end an operation.
LEMMA EndStep ==
  ASSUME IInv,
         \/ ApplyFails \/ WalkFails \/ NothingToCommit \/ CommitFails \/ Crash
         \/ Commit \/ AmendWrite \/ RestoreWrite
  PROVE  IInv'
<1> USE DEF Outcomes
<1>1. CASE ApplyFails \/ WalkFails \/ NothingToCommit \/ CommitFails \/ Crash
  BY <1>1, FailStep DEF ApplyFails, WalkFails, NothingToCommit, CommitFails, Crash
<1>2. CASE Commit
  <2>1. DiskOK'
    BY <1>2, LogGrows DEF Commit, IInv, TypeOK, DiskOK, OperationOK
  <2> QED
    BY <1>2, <2>1, ReturnStep DEF Commit
<1>3. CASE AmendWrite
  <2>1. tip \in 1..Len(log)
    BY <1>3 DEF AmendWrite, IInv, PhaseHasItsCall, TypeOK, DiskOK, OperationOK
  <2>2. log[tip] \in CommitObjects
    BY <2>1 DEF IInv, TypeOK, DiskOK
  <2>3. log[tip].parent \in 0..Len(log)
    BY <2>1, <2>2 DEF CommitObjects, IInv, TypeOK, DiskOK
  <2>4. DiskOK'
    BY <1>3, <2>3, LogGrows DEF AmendWrite, IInv, TypeOK, DiskOK, OperationOK
  <2> QED
    BY <1>3, <2>4, ReturnStep DEF AmendWrite
<1>4. CASE RestoreWrite
  <2>1. call.content \in File
    BY DEF IInv, TypeOK, OperationOK, Arguments
  <2>2. wt' \in Files
    BY <1>4, <2>1 DEF RestoreWrite, IInv, TypeOK, DiskOK, Files
  <2>3. DiskOK'
    BY <1>4, <2>2 DEF RestoreWrite, IInv, TypeOK, DiskOK
  <2> QED
    BY <1>4, <2>3, ReturnStep DEF RestoreWrite
<1> QED
  BY <1>1, <1>2, <1>3, <1>4

\* apply_staging, and the index it writes.
LEMMA ApplyStep ==
  ASSUME IInv, ApplyStaging
  PROVE  IInv'
<1> USE DEF ApplyStaging, Goto
<1>1. call \in Arguments /\ call.paths \subseteq Paths
  BY DEF IInv, TypeOK, OperationOK, Arguments
<1>2. memory' \in Files /\ index' \in Files
  BY DEF IInv, TypeOK, DiskOK, OperationOK, Files, File
<1>3. TypeOK'
  <2>1. DiskOK'
    BY <1>2 DEF IInv, TypeOK, DiskOK
  <2>2. OperationOK'
    BY <1>2 DEF IInv, TypeOK, OperationOK, Phases
  <2> QED
    BY <2>1, <2>2 DEF IInv, TypeOK
<1>4. PhaseHasItsCall' /\ SeenIsCurrent' /\ IndexIsUntouched' /\ NothingWasLost'
  BY DEF IInv, PhaseHasItsCall, SeenIsCurrent, IndexIsUntouched, NothingWasLost
<1>5. \A p \in call.paths : memory'[p] \in seen[p]
  BY <1>1 DEF IInv, SeenIsCurrent, StagedWasOnDisk
<1>6. StagedWasOnDisk'
  BY <1>5 DEF IInv, PhaseHasItsCall, StagedWasOnDisk, TreeToCommit
<1> QED
  BY <1>3, <1>4, <1>6 DEF IInv

\* stage_rename_impl as the second half of a move.
LEMMA MoveStageStep ==
  ASSUME IInv, MoveStage
  PROVE  IInv'
<1>1. CASE wt[call.to] = Absent
  BY <1>1, FailStep DEF MoveStage, Outcomes
<1>2. CASE wt[call.to] # Absent
  <2>1. /\ phase = "move" /\ phase' = "compare"
        /\ index' = Renamed(call.from, call.to)
        /\ UNCHANGED <<log, head, wt, memory, adds, tip>>
        /\ UNCHANGED <<call, seen, before, moved, outcome, outside>>
    BY <1>2 DEF MoveStage, Goto
  <2>2. /\ call.paths \subseteq Paths /\ call.from # call.to
        /\ call.paths = {call.from, call.to} /\ call.kind = "move"
    BY <2>1 DEF IInv, TypeOK, OperationOK, Arguments, PhaseHasItsCall
  <2>3. /\ index' \in Files
        /\ index'[call.from] = Absent /\ index'[call.to] = wt[call.to]
    BY <2>1, <2>2 DEF Renamed, IInv, TypeOK, DiskOK, Files, File
  <2>4. TypeOK'
    <3>1. DiskOK'
      BY <2>1, <2>3 DEF IInv, TypeOK, DiskOK
    <3>2. OperationOK'
      BY <2>1 DEF IInv, TypeOK, OperationOK, Phases
    <3> QED
      BY <2>1, <3>1, <3>2 DEF IInv, TypeOK
  <2>5. PhaseHasItsCall' /\ SeenIsCurrent' /\ IndexIsUntouched' /\ NothingWasLost'
    BY <2>1 DEF IInv, PhaseHasItsCall, SeenIsCurrent, IndexIsUntouched, NothingWasLost
  <2>6. \A p \in call.paths : index'[p] \in seen[p]
    BY <2>1, <2>2, <2>3 DEF IInv, SeenIsCurrent, StagedWasOnDisk
  <2>7. StagedWasOnDisk'
    BY <2>1, <2>2, <2>6 DEF StagedWasOnDisk, TreeToCommit
  <2> QED
    BY <2>4, <2>5, <2>7 DEF IInv
<1> QED
  BY <1>1, <1>2

\* What the walk has still to move is part of the directory.
LEMMA WalkArguments ==
  ASSUME IInv, phase \in {"walk", "add"}
  PROVE  /\ call \in Arguments
         /\ \A m \in call.left : m[1] \in Paths /\ m[2] \in Paths /\ m[1] # m[2]
         /\ \A m \in call.directory : m[1] \in Paths
BY DEF IInv, TypeOK, OperationOK, PhaseHasItsCall

\* A file of the directory that is not there is passed by.
LEMMA WalkPastStep ==
  ASSUME IInv, NEW m \in call.left, WalkPast(m)
  PROVE  IInv'
<1> USE DEF WalkPast
<1>1. /\ call' \in Arguments
      /\ call'.kind = call.kind /\ call'.directory = call.directory
      /\ call'.paths = call.paths /\ call'.left = call.left \ {m}
      /\ call'.from = call.from /\ call'.to = call.to
  BY WalkArguments DEF Arguments
<1>2. TypeOK'
  BY <1>1 DEF IInv, TypeOK, DiskOK, OperationOK, disk
<1>3. PhaseHasItsCall' /\ SeenIsCurrent' /\ IndexIsUntouched' /\ NothingWasLost'
  BY <1>1 DEF IInv, PhaseHasItsCall, SeenIsCurrent, IndexIsUntouched, NothingWasLost, disk
<1>4. StagedWasOnDisk'
  BY <1>1 DEF IInv, StagedWasOnDisk
<1> QED
  BY <1>2, <1>3, <1>4 DEF IInv

\* A file that has moved is seen absent where it was.
LEMMA WalkRenameStep ==
  ASSUME IInv, NEW m \in call.left, WalkRename(m)
  PROVE  IInv'
<1> USE DEF WalkRename
<1>1. m[1] \in Paths /\ m[2] \in Paths /\ m[1] # m[2]
  BY WalkArguments
<1>2. /\ call' \in Arguments
      /\ call'.kind = call.kind /\ call'.directory = call.directory
      /\ call'.paths = call.paths \union {m[1], m[2]} /\ call'.left = call.left \ {m}
      /\ call'.from = m[1] /\ call'.to = m[2]
  BY <1>1, WalkArguments DEF Arguments
<1>3. /\ wt' \in Files /\ seen' \in [Paths -> SUBSET File]
      /\ \A p \in Paths : wt'[p] \in seen'[p] /\ seen[p] \subseteq seen'[p]
      /\ Absent \in seen'[m[1]]
  <2>1. /\ wt \in [Paths -> File] /\ seen \in [Paths -> SUBSET File]
        /\ \A p \in Paths : wt[p] \in seen[p]
    BY DEF IInv, TypeOK, DiskOK, OperationOK, SeenIsCurrent, Files
  <2> QED
    BY <1>1, <2>1 DEF Files, File
<1>4. TypeOK'
  <2>1. DiskOK'
    BY <1>3 DEF IInv, TypeOK, DiskOK
  <2>2. OperationOK'
    BY <1>2, <1>3 DEF IInv, TypeOK, OperationOK, Phases
  <2> QED
    BY <2>1, <2>2 DEF IInv, TypeOK
<1>5. PhaseHasItsCall' /\ SeenIsCurrent' /\ IndexIsUntouched' /\ NothingWasLost'
  BY <1>1, <1>2, <1>3
  DEF IInv, PhaseHasItsCall, SeenIsCurrent, IndexIsUntouched, NothingWasLost
<1>6. StagedWasOnDisk'
  <2>1. call.paths \subseteq Paths
    BY WalkArguments DEF Arguments
  <2> QED
    BY <1>2, <1>3, <2>1 DEF IInv, StagedWasOnDisk
<1> QED
  BY <1>4, <1>5, <1>6 DEF IInv

\* The index in memory follows.
LEMMA WalkAddStep ==
  ASSUME IInv, WalkAdd
  PROVE  IInv'
<1>1. CASE wt[call.to] = Absent
  BY <1>1, FailStep DEF WalkAdd, Outcomes
<1>2. CASE wt[call.to] # Absent
  <2>1. /\ phase = "add" /\ phase' = "walk"
        /\ memory' = [memory EXCEPT ![call.from] = Absent, ![call.to] = wt[call.to]]
        /\ UNCHANGED <<disk, adds, tip>>
        /\ UNCHANGED <<call, seen, before, moved, outcome, outside>>
    BY <1>2 DEF WalkAdd, Goto
  <2>2. /\ call.paths \subseteq Paths /\ call.from # call.to
        /\ call.from \in call.paths /\ call.to \in call.paths
    BY <2>1 DEF IInv, TypeOK, OperationOK, Arguments, PhaseHasItsCall
  <2>3. /\ memory' \in Files
        /\ memory'[call.from] = Absent /\ memory'[call.to] = wt[call.to]
        /\ \A p \in Paths \ {call.from, call.to} : memory'[p] = memory[p]
    BY <2>1, <2>2 DEF IInv, TypeOK, DiskOK, OperationOK, Files, File
  <2>4. TypeOK'
    <3>1. DiskOK'
      BY <2>1 DEF IInv, TypeOK, DiskOK, disk
    <3>2. OperationOK'
      BY <2>1, <2>3 DEF IInv, TypeOK, OperationOK, Phases, disk
    <3> QED
      BY <2>1, <3>1, <3>2 DEF IInv, TypeOK
  <2>5. PhaseHasItsCall' /\ SeenIsCurrent' /\ IndexIsUntouched' /\ NothingWasLost'
    <3>1. PhaseHasItsCall'
      BY <2>1 DEF IInv, PhaseHasItsCall
    <3>2. SeenIsCurrent' /\ IndexIsUntouched' /\ NothingWasLost'
      BY <2>1 DEF IInv, SeenIsCurrent, IndexIsUntouched, NothingWasLost, disk
    <3> QED
      BY <3>1, <3>2
  <2>6. \A p \in call.paths : memory'[p] \in seen[p]
    <3>1. \A p \in Paths : wt[p] \in seen[p]
      BY <2>1 DEF IInv, SeenIsCurrent
    <3>2. /\ Absent \in seen[call.from]
          /\ \A p \in call.paths \ {call.from, call.to} : memory[p] \in seen[p]
      BY <2>1 DEF IInv, StagedWasOnDisk
    <3> QED
      BY <2>2, <2>3, <3>1, <3>2
  <2>7. StagedWasOnDisk'
    BY <2>1, <2>6 DEF StagedWasOnDisk
  <2> QED
    BY <2>4, <2>5, <2>7 DEF IInv
<1> QED
  BY <1>1, <1>2

\* What is removed with the directory is seen absent.
LEMMA RemoveDirectoryStep ==
  ASSUME IInv, RemoveDirectory
  PROVE  IInv'
<1> USE DEF RemoveDirectory
<1>1. /\ wt' \in Files /\ seen' \in [Paths -> SUBSET File]
      /\ \A p \in Paths : wt'[p] \in seen'[p] /\ seen[p] \subseteq seen'[p]
  BY DEF IInv, TypeOK, DiskOK, OperationOK, SeenIsCurrent, Files, File
<1>2. TypeOK'
  <2>1. DiskOK'
    BY <1>1 DEF IInv, TypeOK, DiskOK, OperationOK
  <2>2. OperationOK'
    BY <1>1 DEF IInv, TypeOK, OperationOK, Phases
  <2> QED
    BY <2>1, <2>2 DEF IInv, TypeOK
<1>3. PhaseHasItsCall' /\ SeenIsCurrent' /\ IndexIsUntouched' /\ NothingWasLost'
  BY <1>1 DEF IInv, PhaseHasItsCall, SeenIsCurrent, IndexIsUntouched, NothingWasLost
<1>4. StagedWasOnDisk'
  <2>1. call.paths \subseteq Paths
    BY WalkArguments DEF Arguments
  <2> QED
    BY <1>1, <2>1 DEF IInv, PhaseHasItsCall, StagedWasOnDisk, TreeToCommit
<1> QED
  BY <1>2, <1>3, <1>4 DEF IInv

\* commit_impl settles on a tree, then on a parent.
LEMMA CommitStep ==
  ASSUME IInv, Compare \/ ReadParent
  PROVE  IInv'
<1>1. TypeOK'
  <2>1. DiskOK'
    BY DEF Compare, ReadParent, IInv, TypeOK, DiskOK, disk
  <2>2. OperationOK'
    BY DEF Compare, ReadParent, Goto, TreeToCommit, IInv, TypeOK, DiskOK, OperationOK,
           Phases, disk
  <2> QED
    BY <2>1, <2>2 DEF Compare, ReadParent, Goto, IInv, TypeOK
<1>2. PhaseHasItsCall' /\ SeenIsCurrent' /\ IndexIsUntouched' /\ NothingWasLost'
  BY DEF Compare, ReadParent, Goto, IInv, PhaseHasItsCall, SeenIsCurrent, IndexIsUntouched,
         NothingWasLost, disk
<1>3. StagedWasOnDisk'
  BY DEF Compare, ReadParent, Goto, IInv, StagedWasOnDisk, disk
<1> QED
  BY <1>1, <1>2, <1>3 DEF IInv

-----------------------------------------------------------------------------
\* What an editor writes is seen.
LEMMA EditStep ==
  ASSUME IInv, NEW p \in Paths, NEW content \in File, Edit(p, content)
  PROVE  IInv'
<1> USE DEF Edit, FromOutside
<1>1. /\ wt' \in Files /\ seen' \in [Paths -> SUBSET File]
      /\ \A q \in Paths : seen[q] \subseteq seen'[q]
  BY DEF IInv, TypeOK, DiskOK, OperationOK, Files
<1>2. TypeOK'
  <2>1. DiskOK' /\ OperationOK'
    BY <1>1 DEF IInv, TypeOK, DiskOK, OperationOK
  <2> QED
    BY <2>1 DEF IInv, TypeOK, Outcomes
<1>3. PhaseHasItsCall' /\ IndexIsUntouched'
  BY DEF IInv, PhaseHasItsCall, IndexIsUntouched
<1>4. SeenIsCurrent'
  BY <1>1 DEF IInv, TypeOK, DiskOK, OperationOK, SeenIsCurrent, Files
<1>5. call.paths \subseteq Paths
  BY DEF IInv, TypeOK, OperationOK, Arguments
<1>6. NothingWasLost'
  <2>1. HeadTree' = HeadTree
    BY DEF HeadTree, TreeOf
  <2> QED
    BY <1>1, <1>5, <2>1 DEF IInv, NothingWasLost
<1>7. StagedWasOnDisk'
  BY <1>1, <1>5 DEF IInv, StagedWasOnDisk, TreeToCommit, PhaseHasItsCall
<1> QED
  BY <1>2, <1>3, <1>4, <1>6, <1>7 DEF IInv

\* What git in a terminal stages was on disk.
LEMMA TerminalAddStep ==
  ASSUME IInv, NEW p \in Paths, TerminalAdd(p)
  PROVE  IInv'
<1> USE DEF TerminalAdd, FromOutside
<1>1. /\ index' \in Files /\ before' \in Files
      /\ \A q \in Paths : index'[q] \in {index[q], wt[q]}
  BY DEF IInv, TypeOK, DiskOK, OperationOK, Files
<1>2. TypeOK'
  <2>1. DiskOK' /\ OperationOK'
    BY <1>1 DEF IInv, TypeOK, DiskOK, OperationOK
  <2> QED
    BY <2>1 DEF IInv, TypeOK, Outcomes
<1>3. PhaseHasItsCall' /\ IndexIsUntouched' /\ SeenIsCurrent'
  BY DEF IInv, PhaseHasItsCall, IndexIsUntouched, SeenIsCurrent
<1>4. NothingWasLost'
  BY DEF IInv, NothingWasLost, HeadTree, TreeOf
<1>5. call.paths \subseteq Paths
  BY DEF IInv, TypeOK, OperationOK, Arguments
<1>6. StagedWasOnDisk'
  BY <1>1, <1>5 DEF IInv, StagedWasOnDisk, SeenIsCurrent, TreeToCommit, PhaseHasItsCall
<1> QED
  BY <1>2, <1>3, <1>4, <1>6 DEF IInv

\* A commit from a terminal is remembered while an operation runs.
LEMMA TerminalCommitStep ==
  ASSUME IInv, TerminalCommit
  PROVE  IInv'
<1> USE DEF TerminalCommit, FromOutside
<1>1. DiskOK' /\ Len(log') = Len(log) + 1
  BY LogGrows DEF IInv, TypeOK, DiskOK
<1>2. TypeOK'
  <2>1. OperationOK'
    BY <1>1 DEF IInv, TypeOK, DiskOK, OperationOK
  <2> QED
    BY <1>1, <2>1 DEF IInv, TypeOK, Outcomes
<1>3. PhaseHasItsCall' /\ IndexIsUntouched' /\ SeenIsCurrent' /\ NothingWasLost'
  BY DEF IInv, PhaseHasItsCall, IndexIsUntouched, SeenIsCurrent, NothingWasLost
<1>4. StagedWasOnDisk'
  BY DEF IInv, StagedWasOnDisk, TreeToCommit
<1> QED
  BY <1>2, <1>3, <1>4 DEF IInv

-----------------------------------------------------------------------------
\* Every step keeps the invariant.
LEMMA InvariantStep == IInv /\ [Next]_vars => IInv'
<1> SUFFICES ASSUME IInv, [Next]_vars
             PROVE  IInv'
  OBVIOUS
<1>1. CASE Steps
  BY <1>1, EndStep, ApplyStep, MoveStageStep, WalkPastStep, WalkRenameStep, WalkAddStep,
     RemoveDirectoryStep, CommitStep
  DEF Steps
<1>2. CASE Outside
  BY <1>2, EditStep, TerminalAddStep, TerminalCommitStep DEF Outside
<1>3. CASE UNCHANGED vars
  BY <1>3 DEF vars, IInv, TypeOK, DiskOK, OperationOK, PhaseHasItsCall, SeenIsCurrent,
              StagedWasOnDisk, IndexIsUntouched, NothingWasLost, HeadTree, TreeOf, TreeToCommit
<1> QED
  BY <1>1, <1>2, <1>3, CallStep, EndStep DEF Next

\* At first no operation runs, and the index is HEAD's tree.
LEMMA InvariantInit == Init => IInv
<1> SUFFICES ASSUME Init
             PROVE  IInv
  OBVIOUS
<1>1. PICK tree \in Files :
        /\ log = IF tree = Empty THEN <<>> ELSE <<[tree |-> tree, parent |-> 0]>>
        /\ head = Len(log)
        /\ index = tree
  BY DEF Init
<1>2. [tree |-> tree, parent |-> 0] \in CommitObjects
  BY DEF CommitObjects
<1>3. DiskOK
  <2>1. CASE log = <<>>
    BY <1>1, <2>1 DEF Init, DiskOK
  <2>2. CASE log = <<[tree |-> tree, parent |-> 0]>>
    BY <1>1, <1>2, <2>2 DEF Init, DiskOK
  <2> QED
    BY <1>1, <2>1, <2>2
<1>4. NoCall \in Arguments
  BY DEF NoCall, Arguments, Kinds, File
<1>5. Empty \in Files /\ Nowhere \in [Paths -> SUBSET File]
  BY DEF Empty, Nowhere, Files, File
<1>6. tip \in 0..Len(log)
  BY <1>3 DEF Init, DiskOK
<1>7. OperationOK
  BY <1>4, <1>5, <1>6 DEF Init, OperationOK, Phases
<1> QED
  BY <1>3, <1>7 DEF Init, IInv, TypeOK, PhaseHasItsCall, SeenIsCurrent, StagedWasOnDisk,
                    IndexIsUntouched, NothingWasLost, Outcomes

\* The inductive invariant of staging and committing.
THEOREM StagingInvariant == Spec => []IInv
BY InvariantInit, InvariantStep, PTL DEF Spec

\* The state keeps its types, the log is a history, and nothing of an
\* operation outlives it, whatever an editor and git in a terminal do.
THEOREM TypeCorrect == Spec => []TypeOK
<1>1. IInv => TypeOK
  BY DEF IInv
<1> QED
  BY <1>1, StagingInvariant, PTL

-----------------------------------------------------------------------------
\* Of an operation that is under way, only three steps succeed.
LEMMA OkStep ==
  ASSUME IInv, [Next]_vars, phase \in {"commit", "restore"}, outcome' = "ok"
  PROVE  Commit \/ RestoreWrite
<1> USE DEF IInv, PhaseHasItsCall
<1>1. CASE Calls
  BY <1>1
  DEF Calls, PlanFails, PlanStaging, CommitStaged, AmendRefuses, AmendRead, MoveDirectory,
      StageFile, StageDeletion, Unstage, Discard, MoveFails, StageRename, MoveRename,
      RestoreRefuses, RestoreCheck
<1>2. CASE Steps
  BY <1>2
  DEF Steps, ApplyStaging, ApplyFails, MoveStage, WalkFails, WalkPast, WalkRename, WalkAdd,
      RemoveDirectory, NothingToCommit, Compare, ReadParent, CommitFails, AmendWrite,
      Goto, Fail, Return, Commit, RestoreWrite
<1>3. CASE Crash
  BY <1>3 DEF Crash, Fail, Return
<1>4. CASE Outside
  BY <1>4 DEF Outside, Edit, TerminalAdd, TerminalCommit, FromOutside
<1>5. CASE UNCHANGED vars
  BY <1>5 DEF vars
<1> QED
  BY <1>1, <1>2, <1>3, <1>4, <1>5 DEF Next

\* Repository::commit makes a commit only on top of HEAD as it is then, so a
\* commit made in a terminal meanwhile is not dropped.
THEOREM CommitsOnHead == Spec => CommitsFollowHead
<1> DEFINE OnHead == phase = "commit" /\ outcome' = "ok"
     => log'[head'].parent = head /\ \A c \in 1..Len(log) : log'[c] = log[c]
<1>1. IInv /\ [Next]_vars => OnHead
  <2> SUFFICES ASSUME IInv, [Next]_vars, phase = "commit", outcome' = "ok"
               PROVE  log'[head'].parent = head /\ \A c \in 1..Len(log) : log'[c] = log[c]
    OBVIOUS
  <2>1. Commit
    BY OkStep DEF RestoreWrite
  <2>2. memory \in Files /\ tip \in 0..Len(log)
    BY DEF IInv, TypeOK, OperationOK
  <2>3. /\ log'[head'] = [tree |-> memory, parent |-> tip]
        /\ \A c \in 1..Len(log) : log'[c] = log[c]
    BY <2>1, <2>2, LogGrows DEF Commit, IInv
  <2> QED
    BY <2>1, <2>3 DEF Commit
<1> QED
  BY <1>1, StagingInvariant, PTL DEF Spec, CommitsFollowHead

\* What a commit of listed files or of a move holds of those files was on disk
\* during the call, also when another git commits between two of its steps.
THEOREM CommitsAreFromDisk == Spec => CommitHoldsWhatWasOnDisk
<1> DEFINE FromDisk == \A k \in {"commit_files", "move", "move_directory"} :
       Commits(k) => \A p \in call.paths : log'[head'].tree[p] \in seen[p]
<1>1. IInv /\ [Next]_vars => FromDisk
  <2> SUFFICES ASSUME IInv, [Next]_vars, phase = "commit", Len(log') = Len(log) + 1
               PROVE  \A p \in call.paths : log'[head'].tree[p] \in seen[p]
    BY DEF Commits
  <2> USE DEF IInv
  <2>1. /\ index \in Files /\ memory \in Files
        /\ head \in 0..Len(log) /\ tip \in 0..Len(log)
        /\ Len(log) \in Nat
    BY DEF TypeOK, DiskOK, OperationOK
  \* Only two steps lengthen the log: this one's, of the tree in memory,
  <2>2. CASE Commit
    <3>1. log'[head'].tree = memory
      BY <2>1, <2>2, LogGrows DEF Commit
    <3> QED
      BY <3>1 DEF StagedWasOnDisk
  \* and another git's, of the index on disk.
  <2>3. CASE TerminalCommit
    <3>1. log'[head'].tree = index
      BY <2>1, <2>3, LogGrows DEF TerminalCommit
    <3> QED
      BY <3>1 DEF StagedWasOnDisk
  <2>4. CASE Calls
    BY <2>4
    DEF Calls, PlanFails, PlanStaging, CommitStaged, AmendRefuses, AmendRead, MoveDirectory,
        StageFile, StageDeletion, Unstage, Discard, MoveFails, StageRename, MoveRename,
        RestoreRefuses, RestoreCheck
  <2>5. CASE Steps /\ ~Commit
    BY <2>1, <2>5
    DEF Steps, ApplyStaging, ApplyFails, MoveStage, WalkFails, WalkPast, WalkRename, WalkAdd,
        RemoveDirectory, NothingToCommit, Compare, ReadParent, CommitFails, AmendWrite,
        RestoreWrite, Goto, Fail, disk
  <2>6. CASE Crash \/ (Outside /\ ~TerminalCommit) \/ UNCHANGED vars
    BY <2>1, <2>6 DEF Crash, Fail, Outside, Edit, TerminalAdd, disk, vars
  <2> QED
    BY <2>2, <2>3, <2>4, <2>5, <2>6 DEF Next
<1> QED
  BY <1>1, StagingInvariant, PTL DEF Spec, CommitHoldsWhatWasOnDisk

\* An unforced restore that goes through has seen the file as HEAD has it, or
\* seen that it was not there.
THEOREM RestoresSpare == Spec => RestoreSparesEdits
<1> DEFINE Spares == phase = "restore" /\ ~call.force /\ ~moved /\ outcome' = "ok"
     => \A p \in call.paths : seen[p] \intersect {Absent, HeadTree[p]} # {}
<1>1. IInv => Spares
  BY DEF IInv, NothingWasLost
<1> QED
  BY <1>1, StagingInvariant, PTL DEF Spec, RestoreSparesEdits

\* A call that fails before it commits has left log, HEAD and index as they
\* were, but for what others staged in the meantime.
THEOREM FailuresLeaveNoTrace == Spec => FailedPathsChangeNothing
<1> DEFINE NoTrace ==
     /\ phase \in {"idle", "apply", "walk", "add"} /\ phase' = "idle"
     /\ outcome' \in {"not_found", "git_error", "io_error"}
     => UNCHANGED <<log, head>> /\ index' = (IF phase = "idle" THEN index ELSE before)
<1>1. IInv /\ [Next]_vars => NoTrace
  <2> SUFFICES ASSUME IInv, [Next]_vars,
                      phase \in {"idle", "apply", "walk", "add"}, phase' = "idle",
                      outcome' \in {"not_found", "git_error", "io_error"}
               PROVE  /\ UNCHANGED <<log, head>>
                      /\ index' = IF phase = "idle" THEN index ELSE before
    OBVIOUS
  <2>1. UNCHANGED <<log, head, index>>
    <3> USE DEF Fail, Return, disk
    <3>1. CASE Calls
      BY <3>1
      DEF Calls, PlanFails, PlanStaging, CommitStaged, AmendRefuses, AmendRead, MoveDirectory,
          StageFile, StageDeletion, Unstage, Discard, MoveFails, StageRename, MoveRename,
          RestoreRefuses, RestoreCheck, Begin
    <3>2. CASE Steps
      BY <3>2
      DEF Steps, ApplyStaging, ApplyFails, MoveStage, WalkFails, WalkPast, WalkRename, WalkAdd,
          RemoveDirectory, NothingToCommit, Compare, ReadParent, Commit, CommitFails, AmendWrite,
          RestoreWrite, Goto
    <3>3. CASE Crash
      BY <3>3 DEF Crash
    <3>4. CASE Outside
      BY <3>4 DEF Outside, Edit, TerminalAdd, TerminalCommit, FromOutside
    <3>5. CASE UNCHANGED vars
      BY <3>5 DEF vars
    <3> QED
      BY <3>1, <3>2, <3>3, <3>4, <3>5 DEF Next
  <2> QED
    BY <2>1 DEF IInv, IndexIsUntouched
<1> QED
  BY <1>1, StagingInvariant, PTL DEF Spec, FailedPathsChangeNothing
=============================================================================
