------------------------------- MODULE Staging -------------------------------
(***************************************************************************)
(* Index and commits: the operations of src/file_ops.rs that stage,        *)
(* unstage, commit, amend, move, restore and discard, on one checkout.     *)
(*                                                                         *)
(* The repository lock lets one of them run at a time (RepoLock). An       *)
(* editor and git in a terminal do not take it. An operation is cut into   *)
(* steps where it reads something it relies on later: the index it loads   *)
(* once and writes back, the plan, HEAD compared, HEAD read again as the   *)
(* parent, the file that is checked before it is overwritten.              *)
(***************************************************************************)
EXTENDS Naturals, Sequences

CONSTANTS
  Paths,        \* files of the repository
  Contents,     \* what a file can hold
  Absent,       \* there is no such file
  Directories,  \* SUBSET (SUBSET (Paths \X Paths)): a directory and another place
                \* for it, file by file
  MaxCommits,   \* bound on commits, the first included
  MaxOutside    \* bound on edits and steps of git in a terminal

File == Contents \union {Absent}
Files == [Paths -> File]
Empty == [p \in Paths |-> Absent]

ASSUME StagingAssumption ==
  /\ Absent \notin Contents
  /\ \A d \in Directories :
       /\ d \subseteq Paths \X Paths
       /\ \A m, n \in d : (m[1] = n[1] <=> m[2] = n[2]) /\ m[1] # n[2]
  /\ MaxCommits \in Nat \ {0}
  /\ MaxOutside \in Nat

VARIABLES
  log,       \* the commits, in the order they were made: [tree, parent], where
             \* parent is a place in the log or 0
  head,      \* the place of HEAD's commit, 0 while HEAD is unborn
  index,     \* Files: the index on disk
  wt,        \* Files: the working tree
  phase,     \* the step the running operation is at
  call,      \* its arguments
  memory,    \* Files: the index as it has loaded or changed it
  adds,      \* SUBSET Paths: the StageAction::Add part of its plan
  tip,       \* the parent it has read
  seen,      \* history: what each file has held since the operation began
  before,    \* history: the index when it began, with what others staged since
  moved,     \* history: another git has committed since it began
  outcome,   \* of the operation that has just returned; gone with the next step
  outside    \* steps from outside so far

disk == <<log, head, index, wt>>
locals == <<call, memory, adds, tip, seen, before, moved>>
vars == <<log, head, index, wt, phase, call, memory, adds, tip, seen, before, moved,
          outcome, outside>>

TreeOf(c) == IF c = 0 THEN Empty ELSE log[c].tree
HeadTree == TreeOf(head)

NoCall == [kind |-> "none", paths |-> {}, from |-> Absent, to |-> Absent,
           content |-> Absent, force |-> FALSE, directory |-> {}, left |-> {}]
Nowhere == [p \in Paths |-> {}]

Init ==
  /\ \E tree \in Files :
       /\ log = IF tree = Empty THEN <<>> ELSE <<[tree |-> tree, parent |-> 0]>>
       /\ head = Len(log)
       /\ index = tree
  /\ wt \in Files
  /\ phase = "idle"
  /\ call = NoCall
  /\ memory = Empty
  /\ adds = {}
  /\ tip = 0
  /\ seen = Nowhere
  /\ before = Empty
  /\ moved = FALSE
  /\ outcome = "none"
  /\ outside = 0

-----------------------------------------------------------------------------
\* Mutant of Return: the plan of one operation is left to the next.
ReturnKeepsPlan(result) ==
  /\ phase' = "idle"
  /\ outcome' = result
  /\ call' = NoCall
  /\ memory' = Empty
  /\ tip' = 0
  /\ seen' = Nowhere
  /\ before' = Empty
  /\ moved' = FALSE
  /\ UNCHANGED <<adds, outside>>

Return(result) ==
  /\ phase' = "idle"
  /\ outcome' = result
  /\ call' = NoCall
  /\ memory' = Empty
  /\ adds' = {}
  /\ tip' = 0
  /\ seen' = Nowhere
  /\ before' = Empty
  /\ moved' = FALSE
  /\ UNCHANGED outside

Fail(result) == Return(result) /\ UNCHANGED disk

Begin(to, arguments) ==
  /\ phase' = to
  /\ call' = arguments
  /\ seen' = [p \in Paths |-> {wt[p]}]
  /\ before' = index
  /\ moved' = FALSE
  /\ outcome' = "none"
  /\ UNCHANGED outside

Goto(from, to) ==
  /\ phase = from
  /\ phase' = to
  /\ UNCHANGED <<call, seen, before, moved, outcome, outside>>

(***************************************************************************)
(* commit_files_impl, of which commit_file_impl is the case of one path:   *)
(* plan_staging and apply_staging.                                         *)
(***************************************************************************)
Missing(paths) == {p \in paths : wt[p] = Absent /\ index[p] = Absent}

PlanFails(paths) ==
  /\ phase = "idle"
  /\ Missing(paths) # {}
  /\ Fail("not_found")

\* Mutant of PlanStaging: a path is staged as soon as it is classified.
PlanAndStage(paths) ==
  LET found == paths \ Missing(paths) IN
  /\ phase = "idle"
  /\ index' = [p \in Paths |-> IF p \in found THEN wt[p] ELSE index[p]]
  /\ IF found = paths
     THEN /\ Begin("compare", [NoCall EXCEPT !.kind = "commit_files", !.paths = paths])
          /\ memory' = index'
          /\ UNCHANGED <<adds, tip>>
     ELSE Return("not_found")
  /\ UNCHANGED <<log, head, wt>>

\* The index is loaded here, and never again by this operation.
PlanStaging(paths) ==
  /\ phase = "idle"
  /\ Missing(paths) = {}
  /\ Begin("apply", [NoCall EXCEPT !.kind = "commit_files", !.paths = paths])
  /\ memory' = index
  /\ adds' = {p \in paths : wt[p] # Absent}
  /\ UNCHANGED <<disk, tip>>

\* Mutant of ApplyStaging: what is on disk by now decides between adding and
\* removing, but only the paths planned as added are written.
ApplySkipsRemovals ==
  /\ \A p \in adds : wt[p] # Absent
  /\ memory' = [p \in Paths |-> IF p \in adds THEN wt[p] ELSE memory[p]]
  /\ index' = memory'
  /\ Goto("apply", "compare")
  /\ UNCHANGED <<log, head, wt, adds, tip>>

\* Every action of the plan, then the index is written once.
ApplyStaging ==
  /\ \A p \in adds : wt[p] # Absent
  /\ memory' = [p \in Paths |-> IF p \in adds THEN wt[p]
                                ELSE IF p \in call.paths THEN Absent ELSE memory[p]]
  /\ index' = memory'
  /\ Goto("apply", "compare")
  /\ UNCHANGED <<log, head, wt, adds, tip>>

\* add_path finds no file where the plan saw one: nothing is written.
ApplyFails ==
  /\ phase = "apply"
  /\ \E p \in adds : wt[p] = Absent
  /\ Fail("git_error")

(***************************************************************************)
(* commit_impl, with which every commit ends.                              *)
(***************************************************************************)
CommitStaged ==
  /\ phase = "idle"
  /\ Begin("compare", [NoCall EXCEPT !.kind = "commit_staged"])
  /\ UNCHANGED <<disk, memory, adds, tip>>

\* write_tree: the index of this Repository handle, loaded now unless the
\* operation has loaded it before.
TreeToCommit == IF call.kind \in {"commit_files", "move_directory"} THEN memory ELSE index

NothingToCommit ==
  /\ phase = "compare"
  /\ head # 0 /\ HeadTree = TreeToCommit
  /\ Fail("nothing_to_commit")

Compare ==
  /\ ~(head # 0 /\ HeadTree = TreeToCommit)
  /\ memory' = TreeToCommit
  /\ Goto("compare", "parent")
  /\ UNCHANGED <<disk, adds, tip>>

ReadParent ==
  /\ tip' = head
  /\ Goto("parent", "commit")
  /\ UNCHANGED <<disk, memory, adds>>

\* Mutant of Commit: HEAD is moved whatever it is at by now.
CommitByForce ==
  /\ phase = "commit"
  /\ Len(log) < MaxCommits
  /\ log' = Append(log, [tree |-> memory, parent |-> tip])
  /\ head' = Len(log')
  /\ Return("ok")
  /\ UNCHANGED <<index, wt>>

\* Repository::commit refuses unless HEAD is still at the first parent.
Commit ==
  /\ phase = "commit"
  /\ head = tip
  /\ Len(log) < MaxCommits
  /\ log' = Append(log, [tree |-> memory, parent |-> tip])
  /\ head' = Len(log')
  /\ Return("ok")
  /\ UNCHANGED <<index, wt>>

\* HEAD has moved, or the object or the reference cannot be written.
CommitFails ==
  /\ phase = "commit"
  /\ Fail("git_error")

(***************************************************************************)
(* commit_amend_impl: HEAD and index are read, the reference is forced.    *)
(***************************************************************************)
AmendRefuses ==
  /\ phase = "idle"
  /\ head = 0
  /\ Fail("git_error")

AmendRead ==
  /\ phase = "idle"
  /\ head # 0
  /\ Begin("amend", [NoCall EXCEPT !.kind = "amend"])
  /\ memory' = index
  /\ tip' = head
  /\ UNCHANGED <<disk, adds>>

AmendWrite ==
  /\ phase = "amend"
  /\ Len(log) < MaxCommits
  /\ log' = Append(log, [tree |-> memory, parent |-> log[tip].parent])
  /\ head' = Len(log')
  /\ Return("ok")
  /\ UNCHANGED <<index, wt>>

(***************************************************************************)
(* stage_file_impl, stage_deletion_impl, stage_rename_impl, move_file_impl.*)
(***************************************************************************)
StageFile(p) ==
  /\ phase = "idle"
  /\ IF wt[p] = Absent
     THEN Fail("git_error")
     ELSE /\ index' = [index EXCEPT ![p] = wt[p]]
          /\ Return("ok")
          /\ UNCHANGED <<log, head, wt>>

\* Removing a path that is not in the index is no error.
StageDeletion(p) ==
  /\ phase = "idle"
  /\ index' = [index EXCEPT ![p] = Absent]
  /\ Return("ok")
  /\ UNCHANGED <<log, head, wt>>

Renamed(from, to) == [index EXCEPT ![from] = Absent, ![to] = wt[to]]

StageRename(from, to) ==
  /\ phase = "idle"
  /\ IF wt[to] = Absent
     THEN Fail("not_found")
     ELSE /\ index' = Renamed(from, to)
          /\ Return("ok")
          /\ UNCHANGED <<log, head, wt>>

MoveFails(from) ==
  /\ phase = "idle"
  /\ wt[from] = Absent
  /\ Fail("io_error")

\* fs::rename replaces the destination.
MoveRename(from, to) ==
  /\ phase = "idle"
  /\ from # to
  /\ wt[from] # Absent
  /\ wt' = [wt EXCEPT ![from] = Absent, ![to] = wt[from]]
  /\ phase' = "move"
  /\ call' = [NoCall EXCEPT !.kind = "move", !.paths = {from, to}, !.from = from, !.to = to]
  /\ seen' = [p \in Paths |-> {wt'[p]}]
  /\ before' = index
  /\ moved' = FALSE
  /\ outcome' = "none"
  /\ UNCHANGED <<log, head, index, memory, adds, tip, outside>>

MoveStage ==
  /\ phase = "move"
  /\ IF wt[call.to] = Absent
     THEN Fail("not_found")
     ELSE /\ index' = Renamed(call.from, call.to)
          /\ Goto("move", "compare")
          /\ UNCHANGED <<log, head, wt, memory, adds, tip>>

(***************************************************************************)
(* move_directory_impl: file by file, then the directory is removed, and   *)
(* the index, loaded before all that, is written.                          *)
(***************************************************************************)
MoveDirectory(d) ==
  /\ phase = "idle"
  /\ Begin("walk", [NoCall EXCEPT !.kind = "move_directory", !.directory = d, !.left = d])
  /\ memory' = index
  /\ UNCHANGED <<disk, adds, tip>>

\* There is no such directory, or it has gone; or one cannot be made or removed.
WalkFails == phase = "walk" /\ Fail("io_error")

\* What is not on disk when the walk comes to it is not moved, and stays in the
\* index if it was there.
WalkPast(m) ==
  /\ phase = "walk" /\ m \in call.left
  /\ wt[m[1]] = Absent
  /\ call' = [call EXCEPT !.left = @ \ {m}]
  /\ UNCHANGED <<disk, phase, memory, adds, tip, seen, before, moved, outcome, outside>>

WalkRename(m) ==
  /\ phase = "walk" /\ m \in call.left
  /\ wt[m[1]] # Absent
  /\ wt' = [wt EXCEPT ![m[1]] = Absent, ![m[2]] = wt[m[1]]]
  /\ seen' = [seen EXCEPT ![m[1]] = @ \union {Absent}, ![m[2]] = @ \union {wt[m[1]]}]
  /\ phase' = "add"
  /\ call' = [call EXCEPT !.from = m[1], !.to = m[2], !.left = @ \ {m},
                          !.paths = @ \union {m[1], m[2]}]
  /\ UNCHANGED <<log, head, index, memory, adds, tip, before, moved, outcome, outside>>

WalkAdd ==
  /\ phase = "add"
  /\ IF wt[call.to] = Absent
     THEN Fail("git_error")
     ELSE /\ memory' = [memory EXCEPT ![call.from] = Absent, ![call.to] = wt[call.to]]
          /\ Goto("add", "walk")
          /\ UNCHANGED <<disk, adds, tip>>

\* Files that have come into the directory behind the walk go with it.
RemoveDirectory ==
  LET gone == {m[1] : m \in call.directory} IN
  /\ phase = "walk" /\ call.left = {}
  /\ wt' = [p \in Paths |-> IF p \in gone THEN Absent ELSE wt[p]]
  /\ seen' = [p \in Paths |-> IF p \in gone THEN seen[p] \union {Absent} ELSE seen[p]]
  /\ index' = memory
  /\ phase' = "compare"
  /\ UNCHANGED <<log, head, call, memory, adds, tip, before, moved, outcome, outside>>

(***************************************************************************)
(* unstage_file_impl, restore_file_from_commit_impl, discard_changes_impl. *)
(***************************************************************************)

\* A path that is not in the index is taken for one that is not staged. The
\* entry of one that is, is reset to HEAD's or removed.
Unstage(p) ==
  /\ phase = "idle"
  /\ IF index[p] = Absent
     THEN Fail("unstaged")
     ELSE IF head = 0
     THEN Fail("git_error")
     ELSE /\ index' = [index EXCEPT ![p] = HeadTree[p]]
          /\ Return("unstaged")
          /\ UNCHANGED <<log, head, wt>>

\* Mutant of WouldBeLost: only files that HEAD has are compared.
TrackedWouldBeLost(p, force) == ~force /\ wt[p] # Absent /\ HeadTree[p] \notin {Absent, wt[p]}

WouldBeLost(p, force) == ~force /\ wt[p] \notin {Absent, HeadTree[p]}

RestoreRefuses(p, c, force) ==
  /\ phase = "idle"
  /\ \/ TreeOf(c)[p] = Absent /\ Fail("not_found")
     \/ TreeOf(c)[p] # Absent /\ WouldBeLost(p, force) /\ Fail("would_lose_changes")

RestoreCheck(p, c, force) ==
  /\ phase = "idle"
  /\ TreeOf(c)[p] # Absent
  /\ ~WouldBeLost(p, force)
  /\ Begin("restore", [NoCall EXCEPT !.kind = "restore", !.paths = {p},
                                     !.content = TreeOf(c)[p], !.force = force])
  /\ UNCHANGED <<disk, memory, adds, tip>>

RestoreWrite ==
  /\ phase = "restore"
  /\ wt' = [p \in Paths |-> IF p \in call.paths THEN call.content ELSE wt[p]]
  /\ Return("ok")
  /\ UNCHANGED <<log, head, index>>

\* A forced checkout of one path of HEAD's tree.
Discard(p) ==
  /\ phase = "idle"
  /\ IF HeadTree[p] = Absent
     THEN Fail(IF head = 0 THEN "git_error" ELSE "not_found")
     ELSE /\ index' = [index EXCEPT ![p] = HeadTree[p]]
          /\ wt' = [wt EXCEPT ![p] = HeadTree[p]]
          /\ Return("ok")
          /\ UNCHANGED <<log, head>>

\* The process dies between two steps.
Crash == phase # "idle" /\ Fail("none")

-----------------------------------------------------------------------------
(***************************************************************************)
(* Outside the library: an editor, and git in a terminal.                  *)
(***************************************************************************)
FromOutside ==
  /\ outside < MaxOutside
  /\ outside' = outside + 1
  /\ outcome' = "none"

Edit(p, content) ==
  /\ FromOutside
  /\ wt[p] # content
  /\ wt' = [wt EXCEPT ![p] = content]
  /\ seen' = IF phase = "idle" THEN seen ELSE [seen EXCEPT ![p] = @ \union {content}]
  /\ UNCHANGED <<log, head, index, phase, call, memory, adds, tip, before, moved>>

TerminalAdd(p) ==
  /\ FromOutside
  /\ index[p] # wt[p]
  /\ index' = [index EXCEPT ![p] = wt[p]]
  /\ before' = IF phase = "idle" THEN before ELSE [before EXCEPT ![p] = wt[p]]
  /\ UNCHANGED <<log, head, wt, phase, call, memory, adds, tip, seen, moved>>

TerminalCommit ==
  /\ FromOutside
  /\ Len(log) < MaxCommits
  /\ index # HeadTree
  /\ log' = Append(log, [tree |-> index, parent |-> head])
  /\ head' = Len(log')
  /\ moved' = (phase # "idle")
  /\ UNCHANGED <<index, wt, phase, call, memory, adds, tip, seen, before>>

-----------------------------------------------------------------------------
Calls ==
  \/ \E paths \in SUBSET Paths \ {{}} : PlanFails(paths) \/ PlanStaging(paths)
  \/ CommitStaged \/ AmendRefuses \/ AmendRead
  \/ \E d \in Directories : MoveDirectory(d)
  \/ \E p \in Paths :
       \/ StageFile(p) \/ StageDeletion(p) \/ Unstage(p) \/ Discard(p) \/ MoveFails(p)
       \/ \E q \in Paths \ {p} : StageRename(p, q) \/ MoveRename(p, q)
       \/ \E c \in 1..Len(log), force \in BOOLEAN :
            RestoreRefuses(p, c, force) \/ RestoreCheck(p, c, force)

Steps ==
  \/ ApplyStaging \/ ApplyFails \/ MoveStage
  \/ WalkFails \/ \E m \in call.left : WalkPast(m) \/ WalkRename(m)
  \/ WalkAdd \/ RemoveDirectory
  \/ NothingToCommit \/ Compare \/ ReadParent \/ Commit \/ CommitFails
  \/ AmendWrite \/ RestoreWrite

Outside ==
  \/ \E p \in Paths : TerminalAdd(p) \/ \E content \in File : Edit(p, content)
  \/ TerminalCommit

Next == Calls \/ Steps \/ Crash \/ Outside

Spec == Init /\ [][Next]_vars

-----------------------------------------------------------------------------
Phases == {"idle", "apply", "compare", "parent", "commit", "amend", "move", "walk", "add",
           "restore"}
CommitObjects == [tree : Files, parent : Nat]
Kinds == {"none", "commit_files", "commit_staged", "amend", "move", "move_directory", "restore"}
Arguments ==
  [kind : Kinds, paths : SUBSET Paths, from : Paths \union {Absent}, to : Paths \union {Absent},
   content : File, force : BOOLEAN, directory : SUBSET (Paths \X Paths),
   left : SUBSET (Paths \X Paths)]
Outcomes == {"none", "ok", "unstaged", "not_found", "nothing_to_commit", "would_lose_changes",
             "io_error", "git_error"}

DiskOK ==
  /\ log \in Seq(CommitObjects)
  /\ Len(log) <= MaxCommits
  /\ \A c \in 1..Len(log) : log[c].parent < c
  /\ head \in 0..Len(log)
  /\ index \in Files /\ wt \in Files

OperationOK ==
  /\ phase \in Phases
  /\ call \in Arguments
  /\ memory \in Files /\ before \in Files
  /\ adds \in SUBSET Paths
  /\ tip \in 0..Len(log)
  /\ seen \in [Paths -> SUBSET File] /\ moved \in BOOLEAN
  /\ phase = "idle" => call = NoCall /\ adds = {} /\ tip = 0

\* The state's types; the log is a history, each commit's parent before it,
\* and nothing of an operation outlives it.
TypeOK ==
  /\ DiskOK /\ OperationOK
  /\ outcome \in Outcomes
  /\ outside \in 0..MaxOutside

\* The commit an operation of kind k has just made, if this step made one.
Commits(k) == phase = "commit" /\ call.kind = k /\ Len(log') = Len(log) + 1

\* README.md "The state on disk is what gets staged": of each listed path, and
\* of each file moved, a commit holds content, or an absence, that was on disk
\* at some time during the call; it never holds what was staged or committed
\* earlier.
CommitHoldsWhatWasOnDisk ==
  [][\A k \in {"commit_files", "move", "move_directory"} :
       Commits(k) => \A p \in call.paths : log'[head'].tree[p] \in seen[p]]_vars

\* README.md "a failure on any path in the list leaves the index and HEAD
\* exactly as they were", also when a file disappears half-way, and also of a
\* directory, whose files are moved all the same.
FailedPathsChangeNothing ==
  [][/\ phase \in {"idle", "apply", "walk", "add"} /\ phase' = "idle"
     /\ outcome' \in {"not_found", "git_error", "io_error"}
     => UNCHANGED <<log, head>> /\ index' = (IF phase = "idle" THEN index ELSE before)]_vars

\* A commit is made on top of HEAD as it is at that moment: a commit made in a
\* terminal while the operation ran is never dropped from the branch.
CommitsFollowHead ==
  [][phase = "commit" /\ outcome' = "ok"
     => log'[head'].parent = head /\ \A c \in 1..Len(log) : log'[c] = log[c]]_vars

\* An unforced restore overwrites a file only if, at some time during the call,
\* it held what HEAD has or was not there: work that nobody committed is lost
\* only to an edit made after the check. (HEAD must not have moved meanwhile.)
RestoreSparesEdits ==
  [][phase = "restore" /\ ~call.force /\ ~moved /\ outcome' = "ok"
     => \A p \in call.paths : seen[p] \intersect {Absent, HeadTree[p]} # {}]_vars

-----------------------------------------------------------------------------
\* The comment on unstage_file_impl, "If file exists in HEAD: resets index
\* entry to HEAD version", of an unstage that returns success.
UnstageMatchesHead ==
  [][\A p \in Paths : Unstage(p) /\ outcome' = "unstaged" => index'[p] = HeadTree[p]]_vars

-----------------------------------------------------------------------------
(***************************************************************************)
(* The inductive invariant behind the action properties: what each step    *)
(* has established and the next relies on.                                 *)
(***************************************************************************)

\* Which operation is at which step, and with which arguments.
PhaseHasItsCall ==
  /\ phase # "idle" => outcome = "none"
  /\ phase = "apply" => call.kind = "commit_files"
  /\ phase = "move" => call.kind = "move"
  /\ phase \in {"walk", "add"} =>
       /\ call.kind = "move_directory"
       /\ call.directory \in Directories
       /\ call.left \subseteq call.directory
  /\ phase \in {"move", "add"} =>
       /\ {call.from, call.to} \subseteq call.paths
       /\ call.from # call.to
  /\ phase = "move" => call.paths = {call.from, call.to}
  /\ phase = "amend" => tip # 0

\* seen misses nothing.
SeenIsCurrent == phase # "idle" => \A p \in Paths : wt[p] \in seen[p]

\* Of each path of the call, what is to be committed was on disk, and so was
\* what is left in the index.
StagedWasOnDisk ==
  /\ phase = "apply" => \A p \in call.paths \ adds : Absent \in seen[p]
  /\ phase \in {"move", "add"} => Absent \in seen[call.from]
  /\ phase = "walk" => \A p \in call.paths : memory[p] \in seen[p]
  /\ phase = "add" => \A p \in call.paths \ {call.from, call.to} : memory[p] \in seen[p]
  /\ phase = "compare" => \A p \in call.paths : TreeToCommit[p] \in seen[p]
  /\ phase \in {"parent", "commit"} => \A p \in call.paths : memory[p] \in seen[p]
  /\ phase \in {"compare", "parent", "commit"} => \A p \in call.paths : index[p] \in seen[p]

\* An operation that works on the index it has loaded has not written it yet.
IndexIsUntouched == phase \in {"apply", "walk", "add"} => index = before

\* The check of an unforced restore has found nothing to lose.
NothingWasLost ==
  phase = "restore" /\ ~call.force /\ ~moved
    => \A p \in call.paths : seen[p] \intersect {Absent, HeadTree[p]} # {}

IInv ==
  TypeOK /\ PhaseHasItsCall /\ SeenIsCurrent /\ StagedWasOnDisk /\ IndexIsUntouched
    /\ NothingWasLost
=============================================================================
