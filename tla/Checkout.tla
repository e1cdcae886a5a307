------------------------------ MODULE Checkout ------------------------------
(***************************************************************************)
(* Moving HEAD, branches and the working tree: create, checkout, delete    *)
(* and fast-forward of src/branch_ops.rs, on one checkout of a repository. *)
(*                                                                         *)
(* The repository lock (RepoLock) lets one call run at a time in this      *)
(* checkout. It excludes neither an editor, nor git in a terminal, nor the *)
(* library in another worktree, so each read and each write of the         *)
(* repository that a call makes is a step of its own. libgit2's            *)
(* checkout_tree is external: it refuses as a whole or writes everything,  *)
(* unless it is cut short.                                                 *)
(***************************************************************************)
EXTENDS Naturals

CONSTANTS
  Commits,       \* the commits there are
  Branches,      \* names of local branches
  Paths,         \* files of the repository
  Contents,      \* what a file can hold
  Absent,        \* there is no such file, or no such branch
  Tree,          \* [Commits -> [Paths -> Contents or Absent]]
  Ancestors,     \* [Commits -> SUBSET Commits]: a commit and all before it
  InitialRefs,   \* the branches a behaviour may start with
  InitialHeads,  \* what HEAD may be at the start: branches and commits
  Strategies,    \* SUBSET BOOLEAN: may liminal.checkoutStrategy be "force"?
  MaxCalls,      \* bound on calls that get past their first checks
  MaxOutside     \* bound on edits and other steps from outside

File == Contents \union {Absent}

ASSUME CheckoutAssumption ==
  /\ Commits \intersect Branches = {}
  /\ Absent \notin Contents \union Commits \union Branches
  /\ Tree \in [Commits -> [Paths -> File]]
  /\ Ancestors \in [Commits -> SUBSET Commits]
  /\ \A c \in Commits : c \in Ancestors[c]
  /\ \A c \in Commits : \A d \in Ancestors[c] : Ancestors[d] \subseteq Ancestors[c]
  /\ InitialRefs \subseteq [Branches -> Commits \union {Absent}]
  /\ InitialHeads \subseteq Branches \union Commits
  /\ Strategies \subseteq BOOLEAN
  /\ MaxCalls \in Nat
  /\ MaxOutside \in Nat

VARIABLES
  head,        \* the branch HEAD names, or the commit a detached HEAD is at
  refs,        \* [Branches -> commit, or Absent]
  index,       \* [Paths -> File]
  wt,          \* [Paths -> File]: the working tree
  elsewhere,   \* SUBSET Branches: those the other worktrees have checked out
  phase,       \* the step the running call is at
  call,        \* its arguments, and what it has read so far
  untouched,   \* history: the repository had the call done nothing, the files
               \* edited since it began, whether no other git was at work, and
               \* whether HEAD went forward at most if one was
  result,      \* the outcome of the call that has just returned, and the
               \* files it names; gone with the next step
  calls,       \* calls begun so far
  outside      \* steps taken from outside so far

repository == <<head, refs, index, wt>>
vars == <<head, refs, index, wt, elsewhere, phase, call, untouched, result, calls, outside>>

Attached == head \in Branches
HeadCommit == IF Attached THEN refs[head] ELSE head
HeadTree == Tree[HeadCommit]

Phases == {"idle", "find", "tree", "head", "settle", "delete"}
Kinds == {"none", "checkout", "create", "forward", "delete"}
Refusals == {"not_found", "held", "would_lose_changes", "would_overwrite_untracked",
             "not_fast_forward", "detached", "current", "not_merged", "exists"}
Outcomes == {"none", "ok", "io_error", "git_error"} \union Refusals

NoCall == [kind |-> "none", branch |-> Absent, force |-> FALSE, target |-> Absent, old |-> Absent]
NoResult == [outcome |-> "none", files |-> {}]
Nothing == [head |-> Absent, refs |-> [b \in Branches |-> Absent],
            index |-> [p \in Paths |-> Absent], wt |-> [p \in Paths |-> Absent],
            edited |-> {}, alone |-> TRUE, stayed |-> TRUE]

Init ==
  /\ refs \in InitialRefs
  /\ head \in {h \in InitialHeads : h \in Branches => refs[h] # Absent}
  /\ index = HeadTree
  /\ wt = HeadTree
  /\ elsewhere \in SUBSET {b \in Branches \ {head} : refs[b] # Absent}
  /\ phase = "idle"
  /\ call = NoCall
  /\ untouched = Nothing
  /\ result = NoResult
  /\ calls = 0
  /\ outside = 0

-----------------------------------------------------------------------------
(***************************************************************************)
(* libgit2's checkout of a tree onto the working tree and the index. The   *)
(* baseline is the tree of HEAD's commit.                                  *)
(***************************************************************************)

\* A file is in the way when the target changes it and it holds neither what
\* HEAD has there nor what the target has.
Conflicting(target) ==
  {p \in Paths : HeadTree[p] # target[p] /\ wt[p] \notin {HeadTree[p], target[p]}}

\* Where an untracked file already holds what the target adds, libgit2 may or
\* may not refuse: nothing in this library depends on which.
Doubtful(target) ==
  {p \in Paths : HeadTree[p] = Absent /\ target[p] # Absent /\ wt[p] = target[p]}

\* The files a checkout writes or removes.
Written(target, force) ==
  IF force
  THEN {p \in Paths : target[p] # Absent \/ HeadTree[p] # Absent \/ (index[p] # Absent /\ wt[p] # Absent)}
  ELSE {p \in Paths : target[p] # HeadTree[p]}

WriteTree(target, written) == wt' = [p \in Paths |-> IF p \in written THEN target[p] ELSE wt[p]]
WriteIndex(target, written) == index' = [p \in Paths |-> IF p \in written THEN target[p] ELSE index[p]]

-----------------------------------------------------------------------------
\* Mutant of Return: a call's arguments stay behind.
ReturnKeepsCall(outcome, files) ==
  /\ phase' = "idle"
  /\ untouched' = Nothing
  /\ result' = [outcome |-> outcome, files |-> files]
  /\ UNCHANGED call

Return(outcome, files) ==
  /\ phase' = "idle"
  /\ call' = NoCall
  /\ untouched' = Nothing
  /\ result' = [outcome |-> outcome, files |-> files]

Refuse(outcome) == Return(outcome, {}) /\ UNCHANGED <<repository, elsewhere, calls, outside>>

\* A call begins: its arguments, and the repository as it finds it.
Begin(to, arguments) ==
  /\ phase = "idle"
  /\ calls < MaxCalls
  /\ calls' = calls + 1
  /\ phase' = to
  /\ call' = arguments
  /\ untouched' = [head |-> head, refs |-> refs, index |-> index, wt |-> wt,
                   edited |-> {}, alone |-> TRUE, stayed |-> TRUE]
  /\ result' = NoResult

(***************************************************************************)
(* create_branch_impl.                                                     *)
(***************************************************************************)
CreateExists(b) ==
  /\ phase = "idle"
  /\ refs[b] # Absent
  /\ Refuse("exists")

\* from_commit is any commit or, by default, HEAD's.
CreateBranch(b, c, checkout) ==
  /\ refs[b] = Absent
  /\ refs' = [refs EXCEPT ![b] = c]
  /\ IF checkout
     THEN Begin("find", [NoCall EXCEPT !.kind = "create", !.branch = b])
     ELSE phase = "idle" /\ Return("ok", {}) /\ UNCHANGED calls
  /\ UNCHANGED <<head, index, wt, elsewhere, outside>>

(***************************************************************************)
(* checkout_branch_impl and checkout_branch_internal_impl.                 *)
(***************************************************************************)
CheckoutCall(b, force) ==
  /\ Begin("find", [NoCall EXCEPT !.kind = "checkout", !.branch = b, !.force = force])
  /\ UNCHANGED <<repository, elsewhere, outside>>

\* worktree_holding_branch: the branch this worktree has is no conflict.
HeldElsewhere(b) == head # b /\ b \in elsewhere

FindRefuses ==
  /\ phase = "find" /\ call.kind \in {"checkout", "create"}
  /\ \/ refs[call.branch] = Absent /\ Refuse("not_found")
     \/ refs[call.branch] # Absent /\ HeldElsewhere(call.branch) /\ Refuse("held")

\* Mutant of FindBranch: the branch is taken although another worktree has it.
FindUnclaimed ==
  /\ phase = "find" /\ call.kind \in {"checkout", "create"}
  /\ refs[call.branch] # Absent
  /\ phase' = "tree"
  /\ call' = [call EXCEPT !.target = refs[call.branch]]
  /\ UNCHANGED <<repository, elsewhere, untouched, result, calls, outside>>

FindBranch ==
  /\ phase = "find" /\ call.kind \in {"checkout", "create"}
  /\ refs[call.branch] # Absent
  /\ ~HeldElsewhere(call.branch)
  /\ phase' = "tree"
  /\ call' = [call EXCEPT !.target = refs[call.branch]]
  /\ UNCHANGED <<repository, elsewhere, untouched, result, calls, outside>>

\* checkout_tree succeeds.
CheckoutTree ==
  LET target == Tree[call.target]
      written == Written(target, call.force)
  IN
  /\ phase = "tree"
  /\ call.force \/ Conflicting(target) = {}
  /\ WriteTree(target, written)
  /\ WriteIndex(target, written)
  /\ phase' = "head"
  /\ UNCHANGED <<head, refs, elsewhere, call, untouched, result, calls, outside>>

\* It is cut short, by an error or by the death of the process: some files
\* are written, the index is not.
TreeInterrupted ==
  LET target == Tree[call.target] IN
  /\ phase = "tree"
  /\ call.force \/ Conflicting(target) = {}
  /\ \E done \in SUBSET Written(target, call.force) : WriteTree(target, done)
  /\ \E outcome \in {"io_error", "none"} : Return(outcome, {})
  /\ UNCHANGED <<head, refs, index, elsewhere, calls, outside>>

\* collect_actual_conflicts: tracked files with staged or unstaged changes
\* that the target has differently from HEAD.
ActualConflicts(target) ==
  {p \in Paths :
     /\ \/ HeadTree[p] # Absent /\ index[p] # HeadTree[p]
        \/ index[p] # Absent /\ wt[p] # index[p]
     /\ target[p] \notin {Absent, HeadTree[p]}}

\* collect_untracked_collisions: untracked files where the target has one.
UntrackedCollisions(target) ==
  {p \in Paths : index[p] = Absent /\ wt[p] # Absent /\ target[p] # Absent}

\* checkout_refusal.
Refusal(target) ==
  CASE ActualConflicts(target) # {} ->
         Return("would_lose_changes", ActualConflicts(target))
    [] ActualConflicts(target) = {} /\ UntrackedCollisions(target) # {} ->
         Return("would_overwrite_untracked", UntrackedCollisions(target))
    [] OTHER -> Return("git_error", {})

\* A safe checkout_tree refuses.
TreeRefuses ==
  LET target == Tree[call.target] IN
  /\ phase = "tree"
  /\ ~call.force
  /\ Conflicting(target) \union Doubtful(target) # {}
  /\ Refusal(target)
  /\ UNCHANGED <<repository, elsewhere, calls, outside>>

\* Mutant of SetHead: a forced checkout returns without moving HEAD.
SetHeadIfSafe ==
  /\ phase = "head" /\ call.kind \in {"checkout", "create"}
  /\ ~HeldElsewhere(call.branch) \/ ~Attached
  /\ IF call.force
     THEN Return("ok", {}) /\ UNCHANGED head
     ELSE /\ phase' = "settle"
          /\ head' = call.branch
          /\ UNCHANGED <<call, untouched, result>>
  /\ UNCHANGED <<refs, index, wt, elsewhere, calls, outside>>

\* set_head, which libgit2 refuses for a branch of another worktree, but only
\* from an attached HEAD. A forced checkout is done.
SetHead ==
  /\ phase = "head" /\ call.kind \in {"checkout", "create"}
  /\ ~HeldElsewhere(call.branch) \/ ~Attached
  /\ head' = call.branch
  /\ IF call.force
     THEN Return("ok", {})
     ELSE phase' = "settle" /\ UNCHANGED <<call, untouched, result>>
  /\ UNCHANGED <<refs, index, wt, elsewhere, calls, outside>>

SetHeadRefused ==
  /\ phase = "head" /\ call.kind \in {"checkout", "create"}
  /\ HeldElsewhere(call.branch) /\ Attached
  /\ Refuse("git_error")

\* Mutant of Settle: checkout_head is forced whatever the strategy.
SettleByForce ==
  /\ phase = "settle"
  /\ WriteTree(HeadTree, Written(HeadTree, TRUE))
  /\ WriteIndex(HeadTree, Written(HeadTree, TRUE))
  /\ Return("ok", {})
  /\ UNCHANGED <<head, refs, elsewhere, calls, outside>>

\* checkout_head. HEAD's tree is baseline and target at once, so a safe one
\* finds nothing to write; a forced one restores every file.
Settle ==
  /\ phase = "settle"
  /\ WriteTree(HeadTree, Written(HeadTree, call.force))
  /\ WriteIndex(HeadTree, Written(HeadTree, call.force))
  /\ Return("ok", {})
  /\ UNCHANGED <<head, refs, elsewhere, calls, outside>>

(***************************************************************************)
(* fast_forward_impl. Their reference may be any; what counts is where it  *)
(* points.                                                                 *)
(***************************************************************************)
ForwardDetached ==
  /\ phase = "idle"
  /\ ~Attached
  /\ Refuse("detached")

\* HEAD's reference is read once here, commit included ...
ForwardCall(c, force) ==
  /\ Attached
  /\ Begin("find", [kind |-> "forward", branch |-> head, force |-> force,
                    target |-> c, old |-> HeadCommit])
  /\ UNCHANGED <<repository, elsewhere, outside>>

StrictForward(c) == HeadCommit \in Ancestors[c] \ {c}

\* ... and once more by merge_analysis.
ForwardAnalyse ==
  /\ phase = "find" /\ call.kind = "forward"
  /\ StrictForward(call.target)
  /\ phase' = "tree"
  /\ UNCHANGED <<repository, elsewhere, call, untouched, result, calls, outside>>

ForwardRefuses ==
  /\ phase = "find" /\ call.kind = "forward"
  /\ ~StrictForward(call.target)
  /\ Refuse("not_fast_forward")

\* Mutant of SetTarget: the branch is moved whatever it points at by now.
SetTargetByForce ==
  /\ phase = "head" /\ call.kind = "forward"
  /\ refs' = [refs EXCEPT ![call.branch] = call.target]
  /\ phase' = "settle"
  /\ UNCHANGED <<head, index, wt, elsewhere, call, untouched, result, calls, outside>>

\* Reference::set_target moves the branch if it is still where it was read.
SetTarget ==
  /\ phase = "head" /\ call.kind = "forward"
  /\ refs[call.branch] = call.old
  /\ refs' = [refs EXCEPT ![call.branch] = call.target]
  /\ phase' = "settle"
  /\ UNCHANGED <<head, index, wt, elsewhere, call, untouched, result, calls, outside>>

SetTargetRefused ==
  /\ phase = "head" /\ call.kind = "forward"
  /\ refs[call.branch] # call.old
  /\ Refuse("git_error")

(***************************************************************************)
(* delete_branch_impl.                                                     *)
(***************************************************************************)

DeleteRefuses(b) ==
  /\ phase = "idle"
  /\ \/ head = b /\ Refuse("current")
     \/ refs[b] = Absent /\ Refuse("not_found")

\* HEAD's name is read, and the branch with its commit ...
DeleteCall(b, force) ==
  /\ refs[b] # Absent
  /\ head # b
  /\ Begin("find", [NoCall EXCEPT !.kind = "delete", !.branch = b, !.force = force, !.old = refs[b]])
  /\ UNCHANGED <<repository, elsewhere, outside>>

\* Mutant of Merged: graph_descendant_of with its arguments swapped.
MergedSwapped(c) == HeadCommit \in Ancestors[c] \ {c}

\* is_branch_merged_impl. A commit is no descendant of itself to libgit2.
Merged(c) == c \in Ancestors[HeadCommit] \ {HeadCommit}

\* ... and then HEAD's commit, for the merge check.
DeleteChecks ==
  /\ phase = "find" /\ call.kind = "delete"
  /\ call.force \/ Merged(call.old)
  /\ phase' = "delete"
  /\ UNCHANGED <<repository, elsewhere, call, untouched, result, calls, outside>>

DeleteUnmerged ==
  /\ phase = "find" /\ call.kind = "delete"
  /\ ~call.force /\ ~Merged(call.old)
  /\ Refuse("not_merged")

\* Branch::delete, which libgit2 refuses for a branch any worktree has, and
\* for one that has moved since it was read.
DeleteBranch ==
  /\ phase = "delete"
  /\ call.branch \notin elsewhere \union {head} /\ refs[call.branch] = call.old
  /\ refs' = [refs EXCEPT ![call.branch] = Absent]
  /\ Return("ok", {})
  /\ UNCHANGED <<head, index, wt, elsewhere, calls, outside>>

DeleteFails ==
  /\ phase = "delete"
  /\ call.branch \in elsewhere \union {head} \/ refs[call.branch] # call.old
  /\ Refuse("git_error")

\* The process dies between two steps.
Crash ==
  /\ phase # "idle"
  /\ Refuse("none")

-----------------------------------------------------------------------------
(***************************************************************************)
(* Outside the library: an editor, `git add`, git in a terminal of this    *)
(* worktree, and anything in another one. History follows the editor and   *)
(* the index; of the rest it notes that it happened, and whether HEAD went *)
(* to a commit that does not have its last one behind it.                  *)
(***************************************************************************)
FromOutside == outside < MaxOutside /\ outside' = outside + 1 /\ result' = NoResult

OtherGit(stays) ==
  /\ FromOutside
  /\ untouched' = IF phase = "idle" THEN untouched
                  ELSE [untouched EXCEPT !.alone = FALSE, !.stayed = @ /\ stays]

Edit(p, content) ==
  /\ FromOutside
  /\ wt[p] # content
  /\ wt' = [wt EXCEPT ![p] = content]
  /\ untouched' = IF phase = "idle" THEN untouched
                  ELSE [untouched EXCEPT !.wt[p] = content, !.edited = @ \union {p}]
  /\ UNCHANGED <<head, refs, index, elsewhere, phase, call, calls>>

Stage(p) ==
  /\ FromOutside
  /\ index[p] # wt[p]
  /\ index' = [index EXCEPT ![p] = wt[p]]
  /\ untouched' = IF phase = "idle" THEN untouched
                  ELSE [untouched EXCEPT !.index[p] = wt[p], !.edited = @ \union {p}]
  /\ UNCHANGED <<head, refs, wt, elsewhere, phase, call, calls>>

\* git writes a tree over this worktree, as checkout_tree does.
GitWrites(target, force) ==
  /\ force \/ Conflicting(target) = {}
  /\ WriteTree(target, Written(target, force))
  /\ WriteIndex(target, Written(target, force))

\* A fast-forward of HEAD's branch by git itself.
TerminalPulls(c) ==
  /\ OtherGit(TRUE)
  /\ Attached /\ StrictForward(c)
  /\ GitWrites(Tree[c], FALSE)
  /\ refs' = [refs EXCEPT ![head] = c]
  /\ UNCHANGED <<head, elsewhere, phase, call, calls>>

\* git checkout of a branch no other worktree has, or of a commit.
TerminalSwitches(to) ==
  /\ OtherGit(FALSE)
  /\ to # head
  /\ to \in Branches => refs[to] # Absent /\ to \notin elsewhere
  /\ GitWrites(Tree[IF to \in Branches THEN refs[to] ELSE to], FALSE)
  /\ head' = to
  /\ UNCHANGED <<refs, elsewhere, phase, call, calls>>

\* git reset of HEAD's branch, or of a detached HEAD, to any commit: --soft, or
\* --hard with its tree.
TerminalResets(c) ==
  /\ OtherGit(FALSE)
  /\ c # HeadCommit
  /\ UNCHANGED <<index, wt>> \/ GitWrites(Tree[c], TRUE)
  /\ IF Attached
     THEN refs' = [refs EXCEPT ![head] = c] /\ UNCHANGED head
     ELSE head' = c /\ UNCHANGED refs
  /\ UNCHANGED <<elsewhere, phase, call, calls>>

\* Another worktree checks a branch out that this one has not ...
OtherTakes(b) ==
  /\ OtherGit(TRUE)
  /\ refs[b] # Absent /\ head # b /\ b \notin elsewhere
  /\ elsewhere' = elsewhere \union {b}
  /\ UNCHANGED <<repository, phase, call, calls>>

\* ... commits to it ...
OtherCommits(b, c) ==
  /\ OtherGit(TRUE)
  /\ b \in elsewhere /\ refs[b] \in Ancestors[c] \ {c}
  /\ refs' = [refs EXCEPT ![b] = c]
  /\ UNCHANGED <<head, index, wt, elsewhere, phase, call, calls>>

\* ... resets it ...
OtherResets(b, c) ==
  /\ OtherGit(b # head)
  /\ b \in elsewhere /\ refs[b] \notin Ancestors[c]
  /\ refs' = [refs EXCEPT ![b] = c]
  /\ UNCHANGED <<head, index, wt, elsewhere, phase, call, calls>>

\* ... and leaves it for another.
OtherLeaves(b) ==
  /\ OtherGit(TRUE)
  /\ b \in elsewhere
  /\ elsewhere' = elsewhere \ {b}
  /\ UNCHANGED <<repository, phase, call, calls>>

-----------------------------------------------------------------------------
\* Calls the host makes when it has the lock.
Calls ==
  \/ \E b \in Branches :
       \/ CreateExists(b)
       \/ \E c \in Commits, checkout \in BOOLEAN : CreateBranch(b, c, checkout)
       \/ \E force \in Strategies : CheckoutCall(b, force)
       \/ DeleteRefuses(b)
       \/ \E force \in BOOLEAN : DeleteCall(b, force)
  \/ ForwardDetached
  \/ \E c \in Commits, force \in Strategies : ForwardCall(c, force)

Steps ==
  \/ FindRefuses \/ FindBranch
  \/ CheckoutTree \/ TreeInterrupted \/ TreeRefuses
  \/ SetHead \/ SetHeadRefused \/ Settle
  \/ ForwardAnalyse \/ ForwardRefuses \/ SetTarget \/ SetTargetRefused
  \/ DeleteChecks \/ DeleteUnmerged \/ DeleteBranch \/ DeleteFails

Outside ==
  \/ \E p \in Paths : Stage(p) \/ \E content \in File : Edit(p, content)
  \/ \E c \in Commits : TerminalPulls(c) \/ TerminalResets(c)
  \/ \E to \in Branches \union Commits : TerminalSwitches(to)
  \/ \E b \in Branches :
       \/ OtherTakes(b) \/ OtherLeaves(b)
       \/ \E c \in Commits : OtherCommits(b, c) \/ OtherResets(b, c)

Next == Calls \/ Steps \/ Crash \/ Outside

Spec == Init /\ [][Next]_vars

-----------------------------------------------------------------------------
Arguments ==
  [kind : Kinds, branch : Branches \union {Absent}, force : BOOLEAN,
   target : Commits \union {Absent}, old : Commits \union {Absent}]
Refs == [Branches -> Commits \union {Absent}]
Files == [Paths -> File]
Histories ==
  [head : Branches \union Commits \union {Absent}, refs : Refs, index : Files, wt : Files,
   edited : SUBSET Paths, alone : BOOLEAN, stayed : BOOLEAN]
Results == [outcome : Outcomes, files : SUBSET Paths]

RepositoryOK ==
  /\ head \in Branches \union Commits
  /\ refs \in Refs
  /\ Attached => refs[head] # Absent
  /\ index \in Files /\ wt \in Files
  /\ elsewhere \in SUBSET Branches

CallOK ==
  /\ phase \in Phases
  /\ call \in Arguments
  /\ untouched \in Histories
  /\ phase = "idle" <=> call = NoCall
  /\ phase = "idle" <=> untouched = Nothing

\* The state's types; a HEAD that names a branch names one that is there, and
\* nothing a call has read outlives it.
TypeOK ==
  /\ RepositoryOK /\ CallOK
  /\ result \in Results
  /\ calls \in 0..MaxCalls
  /\ outside \in 0..MaxOutside

Returns == phase # "idle" /\ phase' = "idle"

\* README.md:481 "It refuses before touching anything, so the working tree,
\* the index and HEAD stay as they were": when a checkout, a fast-forward or a
\* delete fails for any reason but an I/O error, HEAD, branches, index and
\* files are what they would be had it not been called, if no other git worked
\* in the meantime.
RefusalTouchesNothing ==
  [][/\ Returns /\ untouched.alone /\ call.kind \in {"checkout", "forward", "delete"}
     /\ result'.outcome \in Refusals \union {"git_error"}
     => repository' = <<untouched.head, untouched.refs, untouched.index, untouched.wt>>]_vars

\* No step of a safe call writes a file that holds anything but what HEAD has
\* there at that moment: whenever an editor saves, and wherever the process
\* dies, uncommitted work is not lost.
UncommittedWorkSurvives ==
  [][phase # "idle" /\ ~call.force /\ outside' = outside
     => \A p \in Paths : wt'[p] # wt[p] => wt[p] = HeadTree[p]]_vars

\* The commit that a call found HEAD at.
OldCommit == IF untouched.head \in Branches THEN untouched.refs[untouched.head] ELSE untouched.head

\* A checkout or a fast-forward that succeeded ends with HEAD and branch where
\* they were asked to be, and the only files that differ from HEAD's are the
\* writer's own changes, carried over (unless forced): none is left over from
\* the commit that was left.
OnlyOwnChangesAreCarried ==
  [][/\ Returns /\ untouched.alone /\ result'.outcome = "ok"
     /\ call.kind \in {"checkout", "create", "forward"}
     => /\ head' = call.branch
        /\ refs'[call.branch] = call.target
        /\ \A p \in Paths \ untouched.edited :
             wt'[p] # Tree[call.target][p]
               => wt'[p] = untouched.wt[p] /\ wt'[p] # Tree[OldCommit][p]]_vars

\* README.md:479: no checkout takes a branch that another worktree has, attached
\* HEAD or detached, forced or not, if the other did not take it meanwhile.
OnlyFreeBranchesAreTaken ==
  [][untouched.alone /\ outside' = outside /\ head' # head => head' \notin elsewhere]_vars

\* A step of a fast-forward drops no commit off a branch.
BranchesAdvance ==
  \A b \in Branches : refs'[b] # refs[b] => refs[b] \in Ancestors[refs'[b]]

\* A fast-forward only ever moves a branch to a descendant of the commit it is
\* at, also when a terminal commits to it, another worktree has it, or anybody
\* does anything else than to switch or reset this worktree's HEAD.
ForwardOnlyAdvances ==
  [][call.kind = "forward" /\ untouched.stayed /\ outside' = outside => BranchesAdvance]_vars

Reachable(tips) == UNION {Ancestors[c] : c \in tips}
Tips == {HeadCommit} \union {refs[b] : b \in {x \in Branches : refs[x] # Absent}}

\* An unforced delete leaves every commit reachable, if between its reads and
\* the deletion HEAD was neither switched nor reset: commits to HEAD, to the
\* branch, and whatever other worktrees do, make no difference. And when HEAD
\* was moved away, no commit is lost that came to the branch since it was read.
UnforcedDeleteLosesNothing ==
  [][call.kind = "delete" /\ ~call.force /\ Returns =>
       LET dropped == Reachable(Tips) \ Reachable(Tips') IN
       /\ untouched.stayed => dropped = {}
       /\ dropped \subseteq Ancestors[untouched.refs[call.branch]]]_vars

-----------------------------------------------------------------------------
(***************************************************************************)
(* The inductive invariant behind the action properties: what a call has   *)
(* read, and how far it still holds at its later steps.                    *)
(***************************************************************************)

\* Which call is at which step, and with which arguments.
PhaseHasItsCall ==
  /\ phase # "idle" =>
       /\ call.kind # "none" /\ call.branch \in Branches
       /\ untouched.head \in Branches \union Commits
  /\ phase = "delete" => call.kind = "delete"
  /\ call.kind = "delete" =>
       phase \in {"find", "delete"} /\ call.old = untouched.refs[call.branch]
  /\ phase \in {"tree", "head", "settle"} => call.target \in Commits
  /\ call.kind \in {"forward", "delete"} => call.old \in Commits
  /\ call.kind = "forward" => call.target \in Commits
  /\ call.kind \in {"checkout", "create"} /\ phase \in {"tree", "head"}
       => refs[call.branch] # Absent

\* While HEAD stays, it may have moved since it was read, but only forward: what
\* was checked of the commit it was at has not ceased to hold.
OldIsBehind ==
  untouched.stayed =>
    /\ call.kind = "forward" => head = call.branch
    /\ call.kind = "forward" /\ phase = "find" => call.old \in Ancestors[HeadCommit]
    /\ call.kind = "forward" /\ phase \in {"tree", "head"} => call.old \in Ancestors[call.target]
    /\ phase = "delete" /\ ~call.force => call.old \in Ancestors[HeadCommit]

\* Before its first write a call has changed nothing, but for a branch made.
NothingWritten ==
  untouched.alone /\ phase \in {"find", "tree", "delete"} =>
    /\ head = untouched.head /\ index = untouched.index /\ wt = untouched.wt
    /\ call.kind # "create" => refs = untouched.refs
    /\ HeadCommit = OldCommit

\* What a call has found out of the branch stays so while no other git works.
FoundIsCurrent ==
  untouched.alone =>
    /\ untouched.stayed
    /\ call.kind \in {"checkout", "create"} /\ phase \in {"tree", "head"}
         => refs[call.branch] = call.target /\ ~HeldElsewhere(call.branch)
    /\ call.kind = "forward" /\ phase \in {"find", "tree", "head"}
         => refs[call.branch] = call.old
    /\ phase = "settle" => head = call.branch /\ refs[call.branch] = call.target

\* After the tree is written, what is not the target's is the writer's own.
RestIsOwn ==
  untouched.alone /\ phase \in {"head", "settle"} =>
    \A p \in Paths \ untouched.edited :
      wt[p] # Tree[call.target][p] => wt[p] = untouched.wt[p] /\ wt[p] # Tree[OldCommit][p]

IInv ==
  TypeOK /\ PhaseHasItsCall /\ OldIsBehind /\ NothingWritten /\ FoundIsCurrent /\ RestIsOwn
=============================================================================
