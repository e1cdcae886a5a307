-------------------------------- MODULE Merge --------------------------------
(***************************************************************************)
(* merge, commit_merge and cherry_pick of src/merge_ops.rs: a commit is    *)
(* computed in memory, the working tree and the index are written, and the *)
(* branch is moved last.                                                   *)
(*                                                                         *)
(* The repository, its working tree, the call that runs, libgit2's         *)
(* checkout, its refusals and everybody outside are those of Checkout; a   *)
(* merge that is a fast-forward becomes the call of that module. Commits   *)
(* are named by what they hold, as Git names them: Commits has every       *)
(* commit a call or a terminal may make, and nothing is done that would    *)
(* make another.                                                           *)
(***************************************************************************)
EXTENDS Naturals, Sequences

CONSTANTS
  Commits, Branches, Paths, Contents, Absent, Tree, Ancestors,
  InitialRefs, Strategies, MaxCalls, MaxOutside,
  Parents,       \* [Commits -> Seq(Commits)]
  Known,         \* SUBSET Commits: those the writer and other worktrees work with
  InitialHeads,  \* what HEAD may be at the start: branches and commits
  Resolutions    \* lists of [path, content] a writer may resolve conflicts by

VARIABLES
  head, refs, index, wt, elsewhere, phase, call, untouched, result, calls, outside,
  merge          \* what a merge has been given and has computed

C == INSTANCE Checkout

\* A file of a resolution, and what is to be in it.
ResolvedFile == [path : Paths, content : C!File]

ASSUME MergeAssumption ==
  /\ Commits \intersect Branches = {}
  /\ Absent \notin Contents \union Commits \union Branches
  /\ Tree \in [Commits -> [Paths -> C!File]]
  /\ Ancestors \in [Commits -> SUBSET Commits]
  /\ InitialRefs \subseteq [Branches -> Commits \union {Absent}]
  /\ InitialHeads \subseteq Commits \union {b \in Branches : \A r \in InitialRefs : r[b] # Absent}
  /\ Strategies \subseteq BOOLEAN
  /\ MaxCalls \in Nat /\ MaxOutside \in Nat
  /\ Parents \in [Commits -> Seq(Commits)]
  /\ Known \subseteq Commits
  /\ Resolutions \subseteq Seq(ResolvedFile)

repository == <<head, refs, index, wt>>
vars == <<head, refs, index, wt, elsewhere, phase, call, untouched, result, calls, outside, merge>>

\* head_ref, the result, the parents its commit gets, and the commit_merge's
\* expected_head_hash and resolved_files.
NoMerge == [noFastForward |-> FALSE, onto |-> Absent, tree |-> Absent, parents |-> <<>>,
            expected |-> Absent, resolved |-> <<>>]

MergeKinds == {"merge", "commit_merge", "cherry_pick"}

\* In a file or none there is staged what is no longer on disk.
Init ==
  /\ refs \in InitialRefs
  /\ head \in InitialHeads
  /\ elsewhere \in SUBSET {b \in Branches \ {head} : refs[b] # Absent}
  /\ index \in {C!HeadTree} \union {[C!HeadTree EXCEPT ![p] = c] : p \in Paths, c \in Contents}
  /\ wt = C!HeadTree
  /\ phase = "idle" /\ call = C!NoCall /\ untouched = C!Nothing
  /\ result = C!NoResult /\ calls = 0 /\ outside = 0
  /\ merge = NoMerge

-----------------------------------------------------------------------------
(***************************************************************************)
(* libgit2's three-way merge of trees.                                     *)
(***************************************************************************)
EmptyTree == [p \in Paths |-> Absent]

Common(ours, theirs) == Ancestors[ours] \intersect Ancestors[theirs]
Best(commits) == {c \in commits : \A d \in commits \ {c} : c \notin Ancestors[d]}

\* Where there are several, libgit2 merges them first; the histories here have
\* one at most.
BaseTree(ours, theirs) ==
  IF Common(ours, theirs) = {} THEN EmptyTree
  ELSE Tree[CHOOSE c \in Best(Common(ours, theirs)) : TRUE]

\* Both sides changed it, and not alike.
Conflicts(base, ours, theirs) ==
  {p \in Paths : ours[p] # theirs[p] /\ ours[p] # base[p] /\ theirs[p] # base[p]}

ThreeWay(base, ours, theirs) ==
  [p \in Paths |-> IF ours[p] = base[p] THEN theirs[p] ELSE ours[p]]

-----------------------------------------------------------------------------
\* Mutant of Return: what a merge has computed stays behind.
ReturnKeepsMerge(outcome, files) == C!Return(outcome, files) /\ UNCHANGED merge

Return(outcome, files) == C!Return(outcome, files) /\ merge' = NoMerge
Fail(outcome, files) == Return(outcome, files) /\ UNCHANGED <<repository, elsewhere, calls, outside>>

Begin(to, arguments, given) ==
  /\ C!Begin(to, arguments)
  /\ merge' = given
  /\ UNCHANGED <<repository, elsewhere, outside>>

\* A step that reads the repository and decides.
Decide(to, ours, found) ==
  /\ phase' = to
  /\ call' = [call EXCEPT !.old = ours]
  /\ merge' = found
  /\ UNCHANGED <<repository, elsewhere, untouched, result, calls, outside>>

(***************************************************************************)
(* merge_impl.                                                             *)
(***************************************************************************)
BranchMissing(b) == phase = "idle" /\ refs[b] = Absent /\ Fail("not_found", {})

MergeCall(b, noFastForward) ==
  /\ refs[b] # Absent
  /\ Begin("analyse", [C!NoCall EXCEPT !.kind = "merge", !.branch = b, !.target = refs[b]],
           [NoMerge EXCEPT !.noFastForward = noFastForward])

\* merge_analysis_impl resolves the branch once more; HEAD is where it is now.
UpToDate ==
  /\ phase = "analyse"
  /\ refs[call.branch] \in Ancestors[C!HeadCommit]
  /\ Fail("up_to_date", {})

AnalysedAsForward == C!StrictForward(refs[call.branch])

DelegateForward ==
  /\ phase = "analyse"
  /\ AnalysedAsForward /\ ~merge.noFastForward
  /\ Decide("delegate", Absent, merge)

AnalyseMerge ==
  /\ phase = "analyse"
  /\ refs[call.branch] \notin Ancestors[C!HeadCommit]
  /\ AnalysedAsForward => merge.noFastForward
  /\ Decide("merge", Absent, merge)

\* fast_forward_impl, with its own look at HEAD, branch and strategy.
ForwardDetached == phase = "delegate" /\ ~C!Attached /\ Fail("detached", {})

Forward(force) ==
  /\ phase = "delegate"
  /\ C!Attached
  /\ phase' = "find"
  /\ call' = [kind |-> "forward", branch |-> head, force |-> force,
              target |-> refs[call.branch], old |-> C!HeadCommit]
  /\ merge' = NoMerge
  /\ UNCHANGED <<repository, elsewhere, untouched, result, calls, outside>>

\* Mutant of MergeConflicts: Repository::merge leaves its result in the index.
MergeOnDisk ==
  /\ phase = "merge"
  /\ LET ours == C!HeadCommit
         base == BaseTree(ours, call.target)
         files == Conflicts(base, Tree[ours], Tree[call.target])
     IN /\ files # {}
        /\ index' = ThreeWay(base, Tree[ours], Tree[call.target])
        /\ Return("conflicted", files)
  /\ UNCHANGED <<head, refs, wt, elsewhere, calls, outside>>

\* merge_commits of HEAD, read now, and their commit, read first.
MergeConflicts ==
  /\ phase = "merge"
  /\ LET ours == C!HeadCommit
         files == Conflicts(BaseTree(ours, call.target), Tree[ours], Tree[call.target])
     IN files # {} /\ Fail("conflicted", files)

MergeCommits ==
  LET ours == C!HeadCommit
      base == BaseTree(ours, call.target)
  IN
  /\ phase = "merge"
  /\ Conflicts(base, Tree[ours], Tree[call.target]) = {}
  /\ Decide("check", ours,
            [merge EXCEPT !.onto = head, !.parents = <<ours, call.target>>,
                          !.tree = ThreeWay(base, Tree[ours], Tree[call.target])])

(***************************************************************************)
(* commit_merge_impl.                                                      *)
(***************************************************************************)
CommitMergeCall(b, expected, resolved) ==
  /\ refs[b] # Absent
  /\ Begin("compare", [C!NoCall EXCEPT !.kind = "commit_merge", !.branch = b, !.target = refs[b]],
           [NoMerge EXCEPT !.expected = expected, !.resolved = resolved])

ResolvedPaths == {merge.resolved[i].path : i \in DOMAIN merge.resolved}
Duplicated == Len(merge.resolved) # 0 /\ \E i, j \in DOMAIN merge.resolved :
                i # j /\ merge.resolved[i].path = merge.resolved[j].path

\* validate_resolution_set: each conflicted path once, and no other.
ResolutionFits(conflicted) == ~Duplicated /\ ResolvedPaths = conflicted

\* What it reports first: a path resolved twice or not in conflict, then those
\* left out.
ResolutionError(conflicted) ==
  IF Duplicated \/ ~(ResolvedPaths \subseteq conflicted)
  THEN Fail("invalid_argument", {})
  ELSE Fail("unresolved", conflicted \ ResolvedPaths)

TheirConflicts ==
  Conflicts(BaseTree(C!HeadCommit, call.target), C!HeadTree, Tree[call.target])

CommitMergeRefuses ==
  /\ phase = "compare"
  /\ \/ C!HeadCommit # merge.expected /\ Fail("head_moved", {})
     \/ C!HeadCommit = merge.expected /\ TheirConflicts = {} /\ Fail("no_longer_conflicts", {})
     \/ /\ C!HeadCommit = merge.expected /\ TheirConflicts # {}
        /\ ~ResolutionFits(TheirConflicts)
        /\ ResolutionError(TheirConflicts)

\* What merges without conflict comes from the merge, the rest from the writer.
Overlaid(tree) ==
  [p \in Paths |-> IF p \in ResolvedPaths
                   THEN (CHOOSE r \in {merge.resolved[i] : i \in DOMAIN merge.resolved} : r.path = p).content
                   ELSE tree[p]]

\* Mutant of CommitMerge: the HEAD the writer was shown is not compared.
CommitMergeAnywhere ==
  LET ours == C!HeadCommit IN
  /\ phase = "compare"
  /\ TheirConflicts # {}
  /\ ResolutionFits(TheirConflicts)
  /\ Decide("check", ours,
            [merge EXCEPT !.onto = head, !.parents = <<ours, call.target>>,
                          !.tree = Overlaid(ThreeWay(BaseTree(ours, call.target), Tree[ours], Tree[call.target]))])

CommitMerge ==
  LET ours == C!HeadCommit IN
  /\ phase = "compare"
  /\ ours = merge.expected
  /\ TheirConflicts # {}
  /\ ResolutionFits(TheirConflicts)
  /\ Decide("check", ours,
            [merge EXCEPT !.onto = head, !.parents = <<ours, call.target>>,
                          !.tree = Overlaid(ThreeWay(BaseTree(ours, call.target), Tree[ours], Tree[call.target]))])

(***************************************************************************)
(* cherry_pick_impl.                                                       *)
(***************************************************************************)
PickMergeCommit(c) == phase = "idle" /\ Len(Parents[c]) > 1 /\ Fail("invalid_argument", {})

PickCall(c) ==
  /\ Len(Parents[c]) <= 1
  /\ Begin("pick", [C!NoCall EXCEPT !.kind = "cherry_pick", !.target = c], NoMerge)

PickedFrom(c) == IF Parents[c] = <<>> THEN EmptyTree ELSE Tree[Parents[c][1]]
Replay == ThreeWay(PickedFrom(call.target), C!HeadTree, Tree[call.target])
ReplayConflicts == Conflicts(PickedFrom(call.target), C!HeadTree, Tree[call.target])

PickRefuses ==
  /\ phase = "pick"
  /\ \/ ~C!Attached /\ Fail("detached", {})
     \/ C!Attached /\ ReplayConflicts # {} /\ Fail("conflicted", ReplayConflicts)
     \/ C!Attached /\ ReplayConflicts = {} /\ Replay = C!HeadTree /\ Fail("nothing_to_commit", {})

Pick ==
  /\ phase = "pick"
  /\ C!Attached
  /\ ReplayConflicts = {}
  /\ Replay # C!HeadTree
  /\ Decide("check", C!HeadCommit,
            [merge EXCEPT !.onto = head, !.parents = <<C!HeadCommit>>, !.tree = Replay])

(***************************************************************************)
(* finish_merge, with which all three end.                                 *)
(***************************************************************************)

\* Mutant of DirtyDeletions: none is looked for.
NoDirtyDeletions(target) == {}

\* dirty_deletions: modified files, staged or not, that HEAD has and the
\* target has not.
DirtyDeletions(target) ==
  {p \in Paths :
     /\ C!HeadTree[p] # Absent /\ target[p] = Absent /\ index[p] # Absent
     /\ \/ index[p] # C!HeadTree[p]
        \/ wt[p] \notin {Absent, index[p]}}

Dirty(target) == C!ActualConflicts(target) \union DirtyDeletions(target)

FinishRefuses ==
  /\ phase = "check"
  /\ Dirty(merge.tree) # {}
  /\ Fail("would_lose_changes", Dirty(merge.tree))

\* Mutant of MakeCommit: the checkout that follows is a forced one.
MakeCommitAndForce ==
  /\ phase = "check"
  /\ Dirty(merge.tree) = {}
  /\ \E c \in Commits :
       /\ Tree[c] = merge.tree /\ Parents[c] = merge.parents
       /\ call' = [call EXCEPT !.target = c, !.force = TRUE]
  /\ phase' = "tree"
  /\ UNCHANGED <<repository, elsewhere, untouched, result, calls, outside, merge>>

\* The commit is made, on no reference; its tree is checked out next.
MakeCommit ==
  /\ phase = "check"
  /\ Dirty(merge.tree) = {}
  /\ \E c \in Commits :
       /\ Tree[c] = merge.tree /\ Parents[c] = merge.parents
       /\ call' = [call EXCEPT !.target = c]
  /\ phase' = "tree"
  /\ UNCHANGED <<repository, elsewhere, untouched, result, calls, outside, merge>>

\* Mutant of MoveReference: a detached HEAD is left where it is.
MoveBranchOnly ==
  /\ phase = "head" /\ call.kind \in MergeKinds
  /\ IF merge.onto \in Branches
     THEN refs' = [refs EXCEPT ![merge.onto] = call.target]
     ELSE UNCHANGED refs
  /\ Return("ok", {})
  /\ UNCHANGED <<head, index, wt, elsewhere, calls, outside>>

\* The branch HEAD named when it was read, or HEAD itself, is moved by force,
\* wherever it is by now.
MoveReference ==
  /\ phase = "head" /\ call.kind \in MergeKinds
  /\ IF merge.onto \in Branches
     THEN refs' = [refs EXCEPT ![merge.onto] = call.target] /\ UNCHANGED head
     ELSE head' = call.target /\ UNCHANGED refs
  /\ Return("ok", {})
  /\ UNCHANGED <<index, wt, elsewhere, calls, outside>>

\* Another git holds the reference's lock file, or the disk is full.
MoveReferenceFails ==
  /\ phase = "head" /\ call.kind \in MergeKinds
  /\ Fail("reference_error", {})

-----------------------------------------------------------------------------
\* git commit in a terminal, of what is staged.
TerminalCommits ==
  /\ C!OtherGit(TRUE)
  /\ index # C!HeadTree
  /\ \E c \in Commits :
       /\ Tree[c] = index /\ Parents[c] = <<C!HeadCommit>>
       /\ IF C!Attached
          THEN refs' = [refs EXCEPT ![head] = c] /\ UNCHANGED head
          ELSE head' = c /\ UNCHANGED refs
  /\ UNCHANGED <<index, wt, elsewhere, phase, call, calls, merge>>

Calls ==
  \/ \E b \in Branches :
       \/ BranchMissing(b)
       \/ \E noFastForward \in BOOLEAN : MergeCall(b, noFastForward)
       \/ \E c \in Known, r \in Resolutions : CommitMergeCall(b, c, r)
  \/ \E c \in Known : PickMergeCommit(c) \/ PickCall(c)

Steps ==
  \/ UpToDate \/ DelegateForward \/ AnalyseMerge \/ MergeConflicts \/ MergeCommits
  \/ ForwardDetached \/ \E force \in Strategies : Forward(force)
  \/ CommitMergeRefuses \/ CommitMerge
  \/ PickRefuses \/ Pick
  \/ FinishRefuses \/ MakeCommit \/ MoveReference \/ MoveReferenceFails

\* The steps a merge shares with Checkout: those of a fast-forward, the
\* checkout of a tree, the death of the process, and the outside.
Shared ==
  /\ \/ C!CheckoutTree \/ C!TreeInterrupted \/ C!TreeRefuses
     \/ C!ForwardAnalyse \/ C!ForwardRefuses \/ C!SetTarget \/ C!SetTargetRefused \/ C!Settle
     \/ C!Crash
     \/ \E p \in Paths : C!Stage(p) \/ \E content \in C!File : C!Edit(p, content)
     \/ \E c \in Known : C!TerminalResets(c)
     \/ \E to \in Branches \union Known : C!TerminalSwitches(to)
     \/ \E b \in Branches, c \in Known : C!OtherCommits(b, c)
  /\ merge' = IF phase' = "idle" THEN NoMerge ELSE merge

Next == Calls \/ Steps \/ Shared \/ TerminalCommits

Spec == Init /\ [][Next]_vars

-----------------------------------------------------------------------------
Phases == C!Phases \union {"analyse", "delegate", "merge", "compare", "pick", "check"}
Outcomes == C!Outcomes \union
  {"up_to_date", "conflicted", "head_moved", "no_longer_conflicts", "invalid_argument",
   "unresolved", "nothing_to_commit", "reference_error"}

Kinds == {"none", "forward"} \union MergeKinds
Arguments ==
  [kind : Kinds, branch : Branches \union {Absent}, force : BOOLEAN,
   target : Commits \union {Absent}, old : Commits \union {Absent}]
Computations ==
  [noFastForward : BOOLEAN, onto : Branches \union Commits \union {Absent},
   tree : C!Files \union {Absent}, parents : Seq(Commits),
   expected : Known \union {Absent}, resolved : Resolutions \union {<<>>}]
Results == [outcome : Outcomes, files : SUBSET Paths]

\* The commit that is landed is the one that was computed.
LandsWhatWasComputed ==
  phase \in {"tree", "head"} /\ call.kind \in MergeKinds =>
    /\ Tree[call.target] = merge.tree
    /\ Parents[call.target] = merge.parents
    /\ merge.onto # Absent

\* The state's types; what a merge has computed belongs to the call that runs,
\* and the tree that is checked out is that of the commit to be landed.
TypeOK ==
  /\ C!RepositoryOK
  /\ phase \in Phases /\ call \in Arguments /\ merge \in Computations
  /\ untouched \in C!Histories /\ result \in Results
  /\ calls \in 0 .. MaxCalls /\ outside \in 0 .. MaxOutside
  /\ phase = "idle" => call = C!NoCall /\ merge = NoMerge /\ untouched = C!Nothing
  /\ LandsWhatWasComputed

\* merge_ops.rs:8 "or reports what stands in the way and writes nothing": a
\* merge, a resolution or a replay that ends in anything but a commit, by
\* refusal, conflict or because there is nothing to do, has changed neither
\* HEAD nor branches, index or files. (Disk errors aside; no other git at work.)
RefusalTouchesNothing ==
  [][/\ C!Returns /\ untouched.alone /\ call.kind \in MergeKinds
     /\ result'.outcome \notin {"ok", "none", "io_error", "reference_error"}
     => repository' = <<untouched.head, untouched.refs, untouched.index, untouched.wt>>]_vars

\* No step of a merge writes a file that holds anything but what HEAD has there
\* at that moment: a page saved between the check for dirty pages and the
\* checkout is not lost, nor one saved when another git has moved HEAD, nor
\* anything when the process dies or the reference cannot be moved.
UncommittedWorkSurvives ==
  [][call.kind \in MergeKinds /\ outside' = outside
     => \A p \in Paths : wt'[p] # wt[p] => wt[p] = C!HeadTree[p]]_vars

\* A merge that succeeds, if nobody else commits meanwhile, adds one commit to
\* the branch HEAD is on, on top of the commit it was on; and of the files only
\* those the writer changed differ from it.
MergeLandsWhole ==
  [][/\ C!Returns /\ untouched.alone /\ call.kind \in MergeKinds /\ result'.outcome = "ok"
     => LET old == IF untouched.head \in Branches THEN untouched.refs[untouched.head]
                   ELSE untouched.head
            new == IF head' \in Branches THEN refs'[head'] ELSE head'
        IN /\ (head' \in Branches) = (untouched.head \in Branches)
           /\ Parents[new] # <<>> /\ Parents[new][1] = old
           /\ \A p \in Paths \ untouched.edited :
                wt'[p] # Tree[new][p] => wt'[p] = untouched.wt[p] /\ wt'[p] # Tree[old][p]]_vars

\* commit_merge commits a resolution only on the HEAD it was made for, of all
\* the paths in conflict and of no other: no side of a conflict is chosen
\* without the writer, and nothing the writer did not see is overwritten.
ResolutionIsComplete ==
  [][/\ C!Returns /\ call.kind = "commit_merge" /\ result'.outcome = "ok"
     => LET theirs == Parents[call.target][2]
            base == BaseTree(merge.expected, theirs)
            contested == Conflicts(base, Tree[merge.expected], Tree[theirs])
        IN /\ Parents[call.target][1] = merge.expected
           /\ \A p \in contested : \E i \in DOMAIN merge.resolved :
                merge.resolved[i] = [path |-> p, content |-> Tree[call.target][p]]
           /\ \A p \in Paths \ contested :
                Tree[call.target][p] \in {Tree[merge.expected][p], Tree[theirs][p]}]_vars

\* merge_ops.rs:53 "if the writer has unsaved edits to one of them the whole
\* merge is refused with `UnstagedChangesWouldBeLost`": a merge that finds
\* tracked files in the way names all of them, those it would delete included
\* unless they were edited after the check.
EditedPagesAreNamed ==
  [][/\ phase \in {"check", "tree"} /\ C!Returns /\ call.kind \in MergeKinds
     /\ result'.outcome \notin {"none", "io_error"}
     => {p \in C!Conflicting(merge.tree) :
           /\ C!HeadTree[p] # Absent /\ index[p] # Absent
           /\ phase = "check" \/ merge.tree[p] # Absent} \subseteq result'.files]_vars

-----------------------------------------------------------------------------
(***************************************************************************)
(* The inductive invariant behind the action properties: what a merge has  *)
(* read and computed, and how far it still holds at its later steps.       *)
(***************************************************************************)

\* Which call is at which step, and with which arguments.
PhaseHasItsCall ==
  /\ phase # "idle" => call.kind # "none" /\ call.target \in Commits
  /\ phase \in {"analyse", "delegate", "merge"} => call.kind = "merge"
  /\ phase = "compare" => call.kind = "commit_merge"
  /\ phase = "pick" => call.kind = "cherry_pick"
  /\ phase = "check" => call.kind \in MergeKinds /\ merge.tree \in C!Files /\ merge.onto # Absent
  /\ phase \in {"find", "settle"} => call.kind = "forward"
  /\ phase # "delete"
  /\ call.kind \in MergeKinds => ~call.force
  /\ call.kind \in {"merge", "commit_merge"} => refs[call.branch] # Absent /\ call.branch \in Branches
  /\ call.kind = "forward" => call.branch \in Branches

\* Up to the last step a call has moved neither HEAD nor a branch, and before
\* the checkout it has written no file.
NothingWritten ==
  untouched.alone /\ phase # "idle" /\ call.kind \in MergeKinds =>
    /\ head = untouched.head /\ refs = untouched.refs
    /\ phase # "head" => index = untouched.index /\ wt = untouched.wt

\* The commit to be landed follows the one that the call found HEAD at.
ComputedOnHead ==
  untouched.alone /\ phase \in {"check", "tree", "head"} /\ call.kind \in MergeKinds =>
    /\ merge.onto = untouched.head
    /\ merge.parents # <<>> /\ merge.parents[1] = C!OldCommit

\* After the tree is written, what is not the target's is the writer's own.
RestIsOwn ==
  untouched.alone /\ phase = "head" /\ call.kind \in MergeKinds =>
    \A p \in Paths \ untouched.edited :
      wt[p] # Tree[call.target][p] => wt[p] = untouched.wt[p] /\ wt[p] # Tree[C!OldCommit][p]

\* The parents, and of each path the content, are those of the resolution.
ResolvesAsAsked ==
  phase \in {"check", "tree", "head"} /\ call.kind = "commit_merge" =>
    LET theirs == merge.parents[2]
        base == BaseTree(merge.expected, theirs)
        contested == Conflicts(base, Tree[merge.expected], Tree[theirs])
    IN /\ merge.parents[1] = merge.expected
       /\ \A p \in contested : \E i \in DOMAIN merge.resolved :
            merge.resolved[i] = [path |-> p, content |-> merge.tree[p]]
       /\ \A p \in Paths \ contested :
            merge.tree[p] \in {Tree[merge.expected][p], Tree[theirs][p]}

IInv ==
  TypeOK /\ PhaseHasItsCall /\ NothingWritten /\ ComputedOnHead /\ RestIsOwn /\ ResolvesAsAsked
=============================================================================
