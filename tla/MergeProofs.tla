----------------------------- MODULE MergeProofs -----------------------------
(***************************************************************************)
(* Theorems about Merge, for every history, every set of branches, files   *)
(* and resolutions, and every bound: a merge that is refused touches       *)
(* nothing, one that succeeds lands whole on the commit it began at, a     *)
(* resolution is complete, and no edit is lost or left unnamed.            *)
(***************************************************************************)
EXTENDS Merge, TLAPS

USE MergeAssumption

\* HEAD is at a commit.
LEMMA HeadIsACommit ==
  ASSUME C!RepositoryOK
  PROVE  C!HeadCommit \in Commits /\ C!HeadTree \in C!Files
BY DEF C!RepositoryOK, C!Attached, C!HeadCommit, C!HeadTree, C!Refs, C!Files

\* The state between two calls.
LEMMA IdleIsTyped ==
  /\ C!NoCall \in Arguments /\ C!NoCall.kind = "none"
  /\ C!Nothing \in C!Histories /\ NoMerge \in Computations
  /\ C!NoResult \in Results
<1>1. C!NoCall \in Arguments /\ C!NoCall.kind = "none"
  BY DEF C!NoCall, Arguments, Kinds
<1>2. /\ [b \in Branches |-> Absent] \in C!Refs
      /\ [p \in Paths |-> Absent] \in C!Files
  BY DEF C!Refs, C!Files, C!File
<1>3. C!Nothing \in C!Histories
  BY <1>2 DEF C!Nothing, C!Histories
<1>4. <<>> \in Seq(Commits)
  OBVIOUS
<1>5. NoMerge \in Computations
  BY <1>4 DEF NoMerge, Computations
<1>6. C!NoResult \in Results
  BY DEF C!NoResult, Results, Outcomes, C!Outcomes
<1> QED
  BY <1>1, <1>3, <1>5, <1>6

\* A call that returns leaves nothing of itself behind.
LEMMA ReturnStep ==
  ASSUME IInv, NEW outcome \in Outcomes, NEW files \in SUBSET Paths,
         C!Return(outcome, files), merge' = NoMerge,
         C!RepositoryOK', calls' \in 0 .. MaxCalls, outside' \in 0 .. MaxOutside
  PROVE  IInv'
<1>1. phase' = "idle" /\ call' = C!NoCall /\ untouched' = C!Nothing
  BY DEF C!Return
<1>2. result' \in Results
  BY DEF C!Return, Results
<1>3. LandsWhatWasComputed'
  BY <1>1 DEF LandsWhatWasComputed
<1>4. TypeOK'
  BY <1>1, <1>2, <1>3, IdleIsTyped DEF TypeOK, Phases, C!Phases
<1>5. call'.kind = "none"
  BY <1>1, IdleIsTyped
<1> QED
  BY <1>1, <1>4, <1>5 DEF IInv, PhaseHasItsCall, NothingWritten, ComputedOnHead, RestIsOwn,
                          ResolvesAsAsked, MergeKinds

\* A call that fails changes nothing else.
LEMMA FailStep ==
  ASSUME IInv, NEW outcome \in Outcomes, NEW files \in SUBSET Paths, Fail(outcome, files)
  PROVE  IInv'
<1>1. /\ C!RepositoryOK'
      /\ calls' \in 0 .. MaxCalls /\ outside' \in 0 .. MaxOutside
  BY DEF Fail, repository, IInv, TypeOK, C!RepositoryOK, C!Attached
<1> QED
  BY <1>1, ReturnStep DEF Fail, Return

\* A call begins with its arguments, and a history of the repository as it is.
LEMMA BeginStep ==
  ASSUME IInv, NEW to \in {"analyse", "compare", "pick"}, NEW arguments \in Arguments,
         NEW given \in Computations, Begin(to, arguments, given),
         arguments.target \in Commits, ~arguments.force,
         arguments.kind \in {"merge", "commit_merge"}
           => arguments.branch \in Branches /\ refs[arguments.branch] # Absent,
         to = "analyse" => arguments.kind = "merge",
         to = "compare" => arguments.kind = "commit_merge",
         to = "pick" => arguments.kind = "cherry_pick"
  PROVE  IInv'
<1>1. UNCHANGED <<head, refs, index, wt, elsewhere, outside>>
  BY DEF Begin, repository
<1>2. C!RepositoryOK /\ C!RepositoryOK'
  BY <1>1 DEF IInv, TypeOK, C!RepositoryOK, C!Attached
<1>3. /\ phase' = to /\ call' = arguments /\ merge' = given /\ result' = C!NoResult
      /\ untouched' = [head |-> head, refs |-> refs, index |-> index, wt |-> wt,
                       edited |-> {}, alone |-> TRUE, stayed |-> TRUE]
      /\ calls' \in 0 .. MaxCalls
  BY DEF Begin, C!Begin, IInv, TypeOK
<1>4. untouched' \in C!Histories
  BY <1>2, <1>3 DEF C!RepositoryOK, C!Histories
<1>5. LandsWhatWasComputed'
  BY <1>3 DEF LandsWhatWasComputed
<1>6. TypeOK'
  BY <1>1, <1>2, <1>3, <1>4, <1>5, IdleIsTyped DEF IInv, TypeOK, Phases
<1>7. /\ untouched'.head = head /\ untouched'.refs = refs
      /\ untouched'.index = index /\ untouched'.wt = wt
  BY <1>3
<1>8. PhaseHasItsCall'
  BY <1>1, <1>3 DEF PhaseHasItsCall, MergeKinds
<1> QED
  BY <1>1, <1>3, <1>6, <1>7, <1>8 DEF IInv, NothingWritten, ComputedOnHead, RestIsOwn,
                                      ResolvesAsAsked

\* merge, commit_merge and cherry_pick begin, or are refused at once.
LEMMA CallsStep ==
  ASSUME IInv, Calls
  PROVE  IInv'
<1>1. ASSUME NEW b \in Branches, BranchMissing(b)
      PROVE  IInv'
  BY <1>1, FailStep DEF BranchMissing, Outcomes, C!Outcomes, C!Refusals
<1>2. ASSUME NEW b \in Branches, NEW noFastForward \in BOOLEAN, MergeCall(b, noFastForward)
      PROVE  IInv'
  <2>1. PICK a, g : /\ a = [C!NoCall EXCEPT !.kind = "merge", !.branch = b, !.target = refs[b]]
                    /\ g = [NoMerge EXCEPT !.noFastForward = noFastForward]
    OBVIOUS
  <2>2. refs[b] \in Commits
    BY <1>2 DEF MergeCall, IInv, TypeOK, C!RepositoryOK, C!Refs
  <2>3. /\ a \in Arguments /\ a.kind = "merge" /\ a.branch = b /\ a.target = refs[b]
        /\ ~a.force
    BY <2>1, <2>2 DEF C!NoCall, Arguments, Kinds, MergeKinds
  <2>4. g \in Computations
    BY <2>1, IdleIsTyped DEF Computations
  <2>5. Begin("analyse", a, g) /\ refs[b] # Absent
    BY <1>2, <2>1 DEF MergeCall
  <2> QED
    BY <2>2, <2>3, <2>4, <2>5, BeginStep
<1>3. ASSUME NEW b \in Branches, NEW c \in Known, NEW r \in Resolutions, CommitMergeCall(b, c, r)
      PROVE  IInv'
  <2>1. PICK a, g :
          /\ a = [C!NoCall EXCEPT !.kind = "commit_merge", !.branch = b, !.target = refs[b]]
          /\ g = [NoMerge EXCEPT !.expected = c, !.resolved = r]
    OBVIOUS
  <2>2. refs[b] \in Commits
    BY <1>3 DEF CommitMergeCall, IInv, TypeOK, C!RepositoryOK, C!Refs
  <2>3. /\ a \in Arguments /\ a.kind = "commit_merge" /\ a.branch = b /\ a.target = refs[b]
        /\ ~a.force
    BY <2>1, <2>2 DEF C!NoCall, Arguments, Kinds, MergeKinds
  <2>4. g \in Computations
    BY <2>1, IdleIsTyped DEF Computations
  <2>5. Begin("compare", a, g) /\ refs[b] # Absent
    BY <1>3, <2>1 DEF CommitMergeCall
  <2> QED
    BY <2>2, <2>3, <2>4, <2>5, BeginStep
<1>4. ASSUME NEW c \in Known, PickMergeCommit(c)
      PROVE  IInv'
  BY <1>4, FailStep DEF PickMergeCommit, Outcomes
<1>5. ASSUME NEW c \in Known, PickCall(c)
      PROVE  IInv'
  <2>1. PICK a : a = [C!NoCall EXCEPT !.kind = "cherry_pick", !.target = c]
    OBVIOUS
  <2>2. a \in Arguments /\ a.kind = "cherry_pick" /\ a.target = c /\ c \in Commits /\ ~a.force
    BY <2>1 DEF C!NoCall, Arguments, Kinds, MergeKinds
  <2>3. Begin("pick", a, NoMerge)
    BY <1>5, <2>1 DEF PickCall
  <2> QED
    BY <2>2, <2>3, IdleIsTyped, BeginStep
<1> QED
  BY <1>1, <1>2, <1>3, <1>4, <1>5 DEF Calls

\* Whatever the base, what a three-way merge leaves at a path is one side's.
LEMMA ThreeWayIsOneSide ==
  ASSUME NEW base, NEW ours \in C!Files, NEW theirs \in C!Files
  PROVE  /\ ThreeWay(base, ours, theirs) \in C!Files
         /\ \A p \in Paths : ThreeWay(base, ours, theirs)[p] \in {ours[p], theirs[p]}
         /\ Conflicts(base, ours, theirs) \in SUBSET Paths
BY DEF ThreeWay, Conflicts, C!Files

\* The trees of HEAD and of the commit a call is about.
LEMMA TreesAreFiles ==
  ASSUME IInv, phase # "idle"
  PROVE  /\ C!HeadCommit \in Commits /\ C!HeadTree \in C!Files
         /\ C!HeadTree = Tree[C!HeadCommit]
         /\ call.target \in Commits /\ Tree[call.target] \in C!Files
         /\ head # Absent
<1>1. call.target \in Commits
  BY DEF IInv, PhaseHasItsCall
<1>2. head # Absent
  BY DEF IInv, TypeOK, C!RepositoryOK
<1> QED
  BY <1>1, <1>2, HeadIsACommit DEF IInv, TypeOK, C!HeadTree, C!Files

\* A step that decides writes nothing.
LEMMA DecideTypes ==
  ASSUME IInv, phase \notin {"idle", "head"}, NEW to \in {"delegate", "merge", "check"},
         NEW ours \in Commits \union {Absent}, NEW found \in Computations,
         Decide(to, ours, found), call.kind \in MergeKinds,
         to \in {"delegate", "merge"} => call.kind = "merge",
         to = "check" => found.tree \in C!Files /\ found.onto # Absent
  PROVE  /\ TypeOK' /\ PhaseHasItsCall' /\ NothingWritten' /\ RestIsOwn'
         /\ call'.kind = call.kind /\ call'.target = call.target
<1>1. UNCHANGED <<head, refs, index, wt, elsewhere, untouched, result, calls, outside>>
  BY DEF Decide, repository
<1>2. phase' = to /\ merge' = found
  BY DEF Decide
<1>3. call \in Arguments
  BY DEF IInv, TypeOK
<1>4. /\ call' \in Arguments /\ call'.kind = call.kind /\ call'.target = call.target
      /\ call'.branch = call.branch /\ call'.force = call.force
  BY <1>3 DEF Decide, Arguments
<1>5. LandsWhatWasComputed'
  BY <1>2 DEF LandsWhatWasComputed
<1>6. TypeOK'
  BY <1>1, <1>2, <1>4, <1>5 DEF IInv, TypeOK, C!RepositoryOK, C!Attached, Phases
<1>7. PhaseHasItsCall'
  BY <1>1, <1>2, <1>4 DEF IInv, PhaseHasItsCall, MergeKinds
<1>8. NothingWritten'
  BY <1>1, <1>2, <1>4 DEF IInv, NothingWritten
<1> QED
  BY <1>2, <1>4, <1>6, <1>7, <1>8 DEF RestIsOwn

\* The steps of merge up to the choice between a fast-forward and a commit.
LEMMA AnalyseSteps ==
  ASSUME IInv, DelegateForward \/ AnalyseMerge
  PROVE  IInv'
<1>1. PICK to \in {"delegate", "merge"} : Decide(to, Absent, merge)
  BY DEF DelegateForward, AnalyseMerge
<1>2. phase = "analyse" /\ call.kind = "merge" /\ merge \in Computations
  BY DEF DelegateForward, AnalyseMerge, IInv, PhaseHasItsCall, TypeOK
<1>3. /\ TypeOK' /\ PhaseHasItsCall' /\ NothingWritten' /\ RestIsOwn'
      /\ call'.kind = "merge"
  BY <1>1, <1>2, DecideTypes DEF MergeKinds
<1>4. phase' = to
  BY <1>1 DEF Decide
<1> QED
  BY <1>3, <1>4 DEF IInv, ComputedOnHead, ResolvesAsAsked

\* What has been computed lies on the HEAD that it was computed from.
LEMMA ComputedStep ==
  ASSUME IInv, phase \in {"merge", "compare", "pick"}, NEW found \in Computations,
         Decide("check", C!HeadCommit, found),
         found.tree \in C!Files, found.onto = head,
         found.parents # <<>>, found.parents[1] = C!HeadCommit
  PROVE  /\ TypeOK' /\ PhaseHasItsCall' /\ NothingWritten' /\ RestIsOwn' /\ ComputedOnHead'
         /\ call'.kind = call.kind /\ call'.target = call.target
<1>1. /\ call.kind \in MergeKinds /\ C!HeadCommit \in Commits /\ head # Absent
  BY TreesAreFiles DEF IInv, PhaseHasItsCall, MergeKinds
<1>2. /\ TypeOK' /\ PhaseHasItsCall' /\ NothingWritten' /\ RestIsOwn'
      /\ call'.kind = call.kind /\ call'.target = call.target
  BY <1>1, DecideTypes
<1>3. UNCHANGED <<head, refs, untouched>> /\ merge' = found /\ phase' = "check"
  BY DEF Decide, repository
<1>4. untouched.alone => head = untouched.head /\ refs = untouched.refs
  BY <1>1 DEF IInv, NothingWritten
<1>5. untouched.alone => C!HeadCommit = C!OldCommit
  BY <1>4 DEF C!HeadCommit, C!OldCommit, C!Attached
<1>6. C!OldCommit' = C!OldCommit
  BY <1>3 DEF C!OldCommit
<1>7. ComputedOnHead'
  BY <1>3, <1>4, <1>5, <1>6 DEF ComputedOnHead
<1> QED
  BY <1>2, <1>7

\* A merge without conflicts has its commit's tree and parents.
LEMMA MergeCommitsStep ==
  ASSUME IInv, MergeCommits
  PROVE  IInv'
<1>1. PICK ours, tree :
        /\ ours = C!HeadCommit
        /\ tree = ThreeWay(BaseTree(ours, call.target), Tree[ours], Tree[call.target])
  OBVIOUS
<1>2. PICK found : found = [merge EXCEPT !.onto = head, !.parents = <<ours, call.target>>,
                                         !.tree = tree]
  OBVIOUS
<1>3. phase = "merge" /\ Decide("check", ours, found)
  BY <1>1, <1>2 DEF MergeCommits
<1>4. /\ ours \in Commits /\ call.target \in Commits /\ tree \in C!Files
      /\ call.kind = "merge" /\ merge \in Computations /\ head \in Branches \union Commits
  <2>1. /\ ours \in Commits /\ call.target \in Commits
        /\ Tree[ours] \in C!Files /\ Tree[call.target] \in C!Files
    BY <1>1, <1>3, TreesAreFiles
  <2>2. tree \in C!Files
    BY <1>1, <2>1, ThreeWayIsOneSide
  <2> QED
    BY <1>3, <2>1, <2>2 DEF IInv, PhaseHasItsCall, TypeOK, C!RepositoryOK
<1>5. /\ <<ours, call.target>> \in Seq(Commits) /\ <<ours, call.target>> # <<>>
      /\ <<ours, call.target>>[1] = ours
  BY <1>4
<1>6. /\ found \in Computations /\ found.tree = tree /\ found.onto = head
      /\ found.parents = <<ours, call.target>>
  BY <1>2, <1>4, <1>5 DEF Computations
<1>7. /\ TypeOK' /\ PhaseHasItsCall' /\ NothingWritten' /\ RestIsOwn' /\ ComputedOnHead'
      /\ call'.kind = call.kind
  <2>1. /\ found.tree \in C!Files /\ found.onto = head
        /\ found.parents # <<>> /\ found.parents[1] = C!HeadCommit
    BY <1>1, <1>4, <1>5, <1>6
  <2>2. Decide("check", C!HeadCommit, found)
    BY <1>1, <1>3
  <2> QED
    BY <1>3, <1>6, <2>1, <2>2, ComputedStep
<1> QED
  BY <1>4, <1>7 DEF IInv, ResolvesAsAsked

\* So has a replay.
LEMMA PickStep ==
  ASSUME IInv, Pick
  PROVE  IInv'
<1>1. PICK found : found = [merge EXCEPT !.onto = head, !.parents = <<C!HeadCommit>>,
                                         !.tree = Replay]
  OBVIOUS
<1>2. phase = "pick" /\ Decide("check", C!HeadCommit, found)
  BY <1>1 DEF Pick
<1>3. /\ C!HeadCommit \in Commits /\ Replay \in C!Files
      /\ call.kind = "cherry_pick" /\ merge \in Computations /\ head \in Branches \union Commits
  BY <1>2, TreesAreFiles, ThreeWayIsOneSide
     DEF Replay, IInv, PhaseHasItsCall, TypeOK, C!RepositoryOK
<1>4. /\ <<C!HeadCommit>> \in Seq(Commits) /\ <<C!HeadCommit>> # <<>>
      /\ <<C!HeadCommit>>[1] = C!HeadCommit
  BY <1>3
<1>5. /\ found \in Computations /\ found.tree = Replay /\ found.onto = head
      /\ found.parents = <<C!HeadCommit>>
  BY <1>1, <1>3, <1>4 DEF Computations
<1>6. /\ TypeOK' /\ PhaseHasItsCall' /\ NothingWritten' /\ RestIsOwn' /\ ComputedOnHead'
      /\ call'.kind = call.kind
  BY <1>2, <1>3, <1>4, <1>5, ComputedStep
<1> QED
  BY <1>3, <1>6 DEF IInv, ResolvesAsAsked

\* A resolution that fits is one of every path in conflict, and of no other, so
\* each of them gets what the writer gave it.
LEMMA OverlaidIsResolved ==
  ASSUME IInv, NEW tree \in C!Files
  PROVE  /\ Overlaid(tree) \in C!Files
         /\ \A p \in Paths \ ResolvedPaths : Overlaid(tree)[p] = tree[p]
         /\ \A p \in Paths \intersect ResolvedPaths : \E i \in DOMAIN merge.resolved :
              merge.resolved[i] = [path |-> p, content |-> Overlaid(tree)[p]]
<1> DEFINE Entries == {merge.resolved[i] : i \in DOMAIN merge.resolved}
           Given(p) == CHOOSE r \in Entries : r.path = p
<1>1. merge.resolved \in Seq(ResolvedFile)
  <2>1. merge.resolved \in Resolutions \/ merge.resolved = <<>>
    BY DEF IInv, TypeOK, Computations
  <2>2. <<>> \in Seq(ResolvedFile)
    OBVIOUS
  <2> QED
    BY <2>1, <2>2
<1>2. \A i \in DOMAIN merge.resolved : merge.resolved[i] \in ResolvedFile
  BY <1>1
<1>3. ASSUME NEW p \in Paths, p \in ResolvedPaths
      PROVE  Given(p) \in Entries /\ Given(p).path = p
  <2>1. \E r \in Entries : r.path = p
    BY <1>3 DEF ResolvedPaths
  <2> QED
    BY <2>1
<1>4. ASSUME NEW p \in Paths, p \in ResolvedPaths
      PROVE  /\ Given(p).content \in C!File
             /\ \E i \in DOMAIN merge.resolved :
                  merge.resolved[i] = [path |-> p, content |-> Given(p).content]
  <2>1. PICK i \in DOMAIN merge.resolved : Given(p) = merge.resolved[i]
    BY <1>3, <1>4
  <2>2. merge.resolved[i].path = p
    BY <1>3, <1>4, <2>1
  <2>3. merge.resolved[i] \in ResolvedFile
    BY <1>2
  <2> QED
    BY <2>1, <2>2, <2>3 DEF ResolvedFile
<1>5. Overlaid(tree) = [p \in Paths |-> IF p \in ResolvedPaths THEN Given(p).content ELSE tree[p]]
  BY DEF Overlaid
<1> HIDE DEF Given
<1>6. \A p \in Paths : /\ p \in ResolvedPaths => Overlaid(tree)[p] = Given(p).content
                       /\ p \notin ResolvedPaths => Overlaid(tree)[p] = tree[p]
  BY <1>5
<1>7. Overlaid(tree) \in C!Files
  BY <1>4, <1>5 DEF C!Files
<1>8. ASSUME NEW p \in Paths, p \in ResolvedPaths
      PROVE  \E i \in DOMAIN merge.resolved :
               merge.resolved[i] = [path |-> p, content |-> Overlaid(tree)[p]]
  <2>1. Overlaid(tree)[p] = Given(p).content
    BY <1>6, <1>8
  <2> QED
    BY <1>4, <1>8, <2>1
<1> QED
  BY <1>6, <1>7, <1>8

\* commit_merge has compared HEAD with the one the writer was shown, and the
\* paths with those in conflict.
LEMMA CommitMergeStep ==
  ASSUME IInv, CommitMerge
  PROVE  IInv'
<1>1. PICK ours, base, merged :
        /\ ours = C!HeadCommit /\ base = BaseTree(ours, call.target)
        /\ merged = ThreeWay(base, Tree[ours], Tree[call.target])
  OBVIOUS
<1>2. PICK found : found = [merge EXCEPT !.onto = head, !.parents = <<ours, call.target>>,
                                         !.tree = Overlaid(merged)]
  OBVIOUS
<1>3. /\ phase = "compare" /\ Decide("check", ours, found) /\ ours = merge.expected
      /\ ResolutionFits(TheirConflicts)
  BY <1>1, <1>2 DEF CommitMerge
<1>4. /\ ours \in Commits /\ call.target \in Commits
      /\ Tree[ours] \in C!Files /\ Tree[call.target] \in C!Files /\ C!HeadTree = Tree[ours]
      /\ call.kind = "commit_merge" /\ merge \in Computations
      /\ head \in Branches \union Commits
  BY <1>1, <1>3, TreesAreFiles DEF IInv, PhaseHasItsCall, TypeOK, C!RepositoryOK
<1>5. /\ merged \in C!Files
      /\ \A p \in Paths : merged[p] \in {Tree[ours][p], Tree[call.target][p]}
      /\ TheirConflicts = Conflicts(base, Tree[ours], Tree[call.target])
      /\ TheirConflicts \in SUBSET Paths
  BY <1>1, <1>4, ThreeWayIsOneSide DEF TheirConflicts
<1>6. /\ <<ours, call.target>> \in Seq(Commits) /\ <<ours, call.target>> # <<>>
      /\ <<ours, call.target>>[1] = ours /\ <<ours, call.target>>[2] = call.target
  BY <1>4
<1>7. Overlaid(merged) \in C!Files
  BY <1>5, OverlaidIsResolved
<1>8. /\ found \in Computations /\ found.tree = Overlaid(merged) /\ found.onto = head
      /\ found.parents = <<ours, call.target>>
      /\ found.expected = merge.expected /\ found.resolved = merge.resolved
  BY <1>2, <1>4, <1>6, <1>7 DEF Computations
<1>9. /\ TypeOK' /\ PhaseHasItsCall' /\ NothingWritten' /\ RestIsOwn' /\ ComputedOnHead'
      /\ call'.kind = call.kind
  BY <1>1, <1>3, <1>4, <1>6, <1>7, <1>8, ComputedStep
<1>10. ResolvesAsAsked'
  <2>1. merge' = found
    BY <1>3 DEF Decide
  <2>2. ResolvedPaths = Conflicts(base, Tree[ours], Tree[call.target])
    BY <1>3, <1>5 DEF ResolutionFits
  <2>3. /\ merge'.parents[1] = merge'.expected /\ merge'.parents[2] = call.target
        /\ merge'.expected = ours /\ merge'.resolved = merge.resolved
        /\ merge'.tree = Overlaid(merged)
    BY <1>3, <1>6, <1>8, <2>1
  <2>4. /\ ResolvedPaths \in SUBSET Paths
        /\ \A p \in ResolvedPaths : \E i \in DOMAIN merge.resolved :
            merge.resolved[i] = [path |-> p, content |-> Overlaid(merged)[p]]
        /\ \A p \in Paths \ ResolvedPaths :
            Overlaid(merged)[p] \in {Tree[ours][p], Tree[call.target][p]}
    <3>1. /\ \A p \in Paths \ ResolvedPaths : Overlaid(merged)[p] = merged[p]
          /\ \A p \in Paths \intersect ResolvedPaths : \E i \in DOMAIN merge.resolved :
               merge.resolved[i] = [path |-> p, content |-> Overlaid(merged)[p]]
      BY <1>5, OverlaidIsResolved
    <3>2. ResolvedPaths \in SUBSET Paths
      BY <1>5, <2>2
    <3> QED
      BY <1>5, <3>1, <3>2
  <2>5. BaseTree(merge'.expected, merge'.parents[2]) = base
    BY <1>1, <2>3
  <2> QED
    BY <2>2, <2>3, <2>4, <2>5 DEF ResolvesAsAsked
<1> QED
  BY <1>9, <1>10 DEF IInv

\* A refusal names files of the repository.
LEMMA RefusingSteps ==
  ASSUME IInv, \/ UpToDate \/ MergeConflicts \/ ForwardDetached \/ CommitMergeRefuses
               \/ PickRefuses \/ FinishRefuses \/ MoveReferenceFails
  PROVE  IInv'
<1> USE DEF Outcomes, C!Outcomes, C!Refusals
<1>1. CASE UpToDate \/ ForwardDetached \/ MoveReferenceFails
  <2>1. PICK outcome \in Outcomes : Fail(outcome, {})
    BY <1>1 DEF UpToDate, ForwardDetached, MoveReferenceFails
  <2> QED
    BY <2>1, FailStep
<1>2. CASE MergeConflicts
  <2>1. PICK files : /\ Fail("conflicted", files)
                     /\ files = Conflicts(BaseTree(C!HeadCommit, call.target),
                                          Tree[C!HeadCommit], Tree[call.target])
    BY <1>2 DEF MergeConflicts
  <2>2. files \in SUBSET Paths
    BY <2>1 DEF Conflicts
  <2> QED
    BY <2>1, <2>2, FailStep
<1>3. CASE CommitMergeRefuses
  <2>1. TheirConflicts \in SUBSET Paths
    BY DEF TheirConflicts, Conflicts
  <2>2. PICK outcome \in Outcomes, files \in SUBSET Paths : Fail(outcome, files)
    BY <1>3, <2>1 DEF CommitMergeRefuses, ResolutionError
  <2> QED
    BY <2>2, FailStep
<1>4. CASE PickRefuses
  <2>1. ReplayConflicts \in SUBSET Paths
    BY DEF ReplayConflicts, Conflicts
  <2>2. PICK outcome \in Outcomes, files \in SUBSET Paths : Fail(outcome, files)
    BY <1>4, <2>1 DEF PickRefuses
  <2> QED
    BY <2>2, FailStep
<1>5. CASE FinishRefuses
  <2>1. Dirty(merge.tree) \in SUBSET Paths
    BY DEF Dirty, C!ActualConflicts, DirtyDeletions
  <2> QED
    BY <1>5, <2>1, FailStep DEF FinishRefuses
<1> QED
  BY <1>1, <1>2, <1>3, <1>4, <1>5

\* A merge that turned out to be a fast-forward goes on as one.
LEMMA ForwardStep ==
  ASSUME IInv, NEW force \in BOOLEAN, Forward(force)
  PROVE  IInv'
<1>1. /\ phase = "delegate" /\ phase' = "find" /\ head \in Branches /\ merge' = NoMerge
      /\ UNCHANGED <<head, refs, index, wt, elsewhere, untouched, result, calls, outside>>
      /\ call' = [kind |-> "forward", branch |-> head, force |-> force,
                  target |-> refs[call.branch], old |-> C!HeadCommit]
  BY DEF Forward, repository, C!Attached
<1>2. refs[call.branch] \in Commits /\ C!HeadCommit \in Commits
  BY <1>1, TreesAreFiles DEF IInv, PhaseHasItsCall, TypeOK, C!RepositoryOK, C!Refs
<1>3. /\ call' \in Arguments /\ call'.kind = "forward" /\ call'.branch \in Branches
      /\ call'.target \in Commits
  BY <1>1, <1>2 DEF Arguments, Kinds
<1>4. LandsWhatWasComputed'
  BY <1>1 DEF LandsWhatWasComputed
<1>5. TypeOK'
  BY <1>1, <1>3, <1>4, IdleIsTyped
     DEF IInv, TypeOK, C!RepositoryOK, C!Attached, Phases, C!Phases
<1> QED
  BY <1>1, <1>3, <1>5 DEF IInv, PhaseHasItsCall, NothingWritten, ComputedOnHead, RestIsOwn,
                          ResolvesAsAsked, MergeKinds

\* The commit made is the one computed.
LEMMA MakeCommitStep ==
  ASSUME IInv, MakeCommit
  PROVE  IInv'
<1>1. PICK c \in Commits : /\ Tree[c] = merge.tree /\ Parents[c] = merge.parents
                           /\ call' = [call EXCEPT !.target = c]
  BY DEF MakeCommit
<1>2. /\ phase = "check" /\ phase' = "tree"
      /\ UNCHANGED <<head, refs, index, wt, elsewhere, untouched, result, calls, outside, merge>>
  BY DEF MakeCommit, repository
<1>3. call \in Arguments /\ call.kind \in MergeKinds /\ merge.onto # Absent
  BY <1>2 DEF IInv, TypeOK, PhaseHasItsCall
<1>4. /\ call' \in Arguments /\ call'.kind = call.kind /\ call'.branch = call.branch
      /\ call'.force = call.force /\ call'.target = c
  BY <1>1, <1>3 DEF Arguments
<1>5. LandsWhatWasComputed'
  BY <1>1, <1>2, <1>3, <1>4 DEF LandsWhatWasComputed
<1>6. TypeOK'
  BY <1>2, <1>4, <1>5 DEF IInv, TypeOK, C!RepositoryOK, C!Attached, Phases, C!Phases
<1>7. PhaseHasItsCall'
  BY <1>2, <1>3, <1>4 DEF IInv, PhaseHasItsCall, MergeKinds
<1>8. C!OldCommit' = C!OldCommit
  BY <1>2 DEF C!OldCommit
<1>9. NothingWritten' /\ ComputedOnHead' /\ RestIsOwn'
  <2>1. NothingWritten'
    BY <1>2, <1>4 DEF IInv, NothingWritten
  <2>2. ComputedOnHead'
    BY <1>2, <1>4, <1>8 DEF IInv, ComputedOnHead
  <2>3. RestIsOwn'
    BY <1>2 DEF RestIsOwn
  <2> QED
    BY <2>1, <2>2, <2>3
<1>10. ResolvesAsAsked'
  <2>1. ResolvesAsAsked /\ phase = "check" /\ merge' = merge /\ call'.kind = call.kind
    BY <1>2, <1>4 DEF IInv
  <2> QED
    BY <2>1 DEF ResolvesAsAsked
<1> QED
  BY <1>6, <1>7, <1>9, <1>10 DEF IInv

\* The branch is moved to it, or HEAD.
LEMMA MoveReferenceStep ==
  ASSUME IInv, MoveReference
  PROVE  IInv'
<1>1. /\ phase = "head" /\ call.kind \in MergeKinds /\ C!Return("ok", {}) /\ merge' = NoMerge
      /\ UNCHANGED <<index, wt, elsewhere, calls, outside>>
  BY DEF MoveReference, Return
<1>2. call.target \in Commits
  BY <1>1 DEF IInv, PhaseHasItsCall
<1>3. C!RepositoryOK'
  <2>1. CASE merge.onto \in Branches
    <3>1. refs' = [refs EXCEPT ![merge.onto] = call.target] /\ head' = head
      BY <2>1 DEF MoveReference
    <3>2. C!RepositoryOK
      BY DEF IInv, TypeOK
    <3>3. refs' \in C!Refs /\ \A b \in Branches : refs[b] # Absent => refs'[b] # Absent
      BY <1>2, <3>1, <3>2 DEF C!RepositoryOK, C!Refs
    <3> QED
      BY <1>1, <3>1, <3>2, <3>3 DEF C!RepositoryOK, C!Attached
  <2>2. CASE merge.onto \notin Branches
    BY <1>1, <1>2, <2>2 DEF MoveReference, IInv, TypeOK, C!RepositoryOK, C!Attached, C!Refs
  <2> QED
    BY <2>1, <2>2
<1>4. calls' \in 0 .. MaxCalls /\ outside' \in 0 .. MaxOutside
  BY <1>1 DEF IInv, TypeOK
<1> QED
  BY <1>1, <1>3, <1>4, ReturnStep DEF Outcomes, C!Outcomes

-----------------------------------------------------------------------------
\* Writing part of a tree.
LEMMA WriteTypes ==
  ASSUME C!RepositoryOK, NEW tree \in C!Files, NEW written \in SUBSET Paths
  PROVE  /\ C!WriteTree(tree, written) =>
              /\ wt' \in C!Files
              /\ \A p \in Paths : wt'[p] = IF p \in written THEN tree[p] ELSE wt[p]
         /\ C!WriteIndex(tree, written) => index' \in C!Files
BY DEF C!RepositoryOK, C!WriteTree, C!WriteIndex, C!Files

\* checkout_tree leaves of the writer's own changes what is in nobody's way.
LEMMA CheckoutTreeStep ==
  ASSUME IInv, C!CheckoutTree, merge' = merge
  PROVE  IInv'
<1>1. /\ phase = "tree" /\ phase' = "head"
      /\ UNCHANGED <<head, refs, elsewhere, call, untouched, result, calls, outside>>
  BY DEF C!CheckoutTree
<1>2. /\ C!RepositoryOK /\ Tree[call.target] \in C!Files /\ call.target \in Commits
  BY <1>1, TreesAreFiles DEF IInv, TypeOK
<1>3. PICK written \in SUBSET Paths :
        /\ written = C!Written(Tree[call.target], call.force)
        /\ C!WriteTree(Tree[call.target], written) /\ C!WriteIndex(Tree[call.target], written)
  BY DEF C!CheckoutTree, C!Written
<1>4. /\ wt' \in C!Files /\ index' \in C!Files
      /\ \A p \in Paths : wt'[p] = IF p \in written THEN Tree[call.target][p] ELSE wt[p]
  BY <1>2, <1>3, WriteTypes
<1>5. C!RepositoryOK'
  BY <1>1, <1>2, <1>4 DEF C!RepositoryOK, C!Attached
<1>6. LandsWhatWasComputed'
  BY <1>1 DEF IInv, TypeOK, LandsWhatWasComputed
<1>7. TypeOK'
  BY <1>1, <1>5, <1>6 DEF IInv, TypeOK, Phases, C!Phases
<1>8. PhaseHasItsCall' /\ NothingWritten'
  BY <1>1 DEF IInv, PhaseHasItsCall, NothingWritten
<1>9. C!OldCommit' = C!OldCommit
  BY <1>1 DEF C!OldCommit
<1>10. ComputedOnHead' /\ ResolvesAsAsked'
  <2>1. ComputedOnHead'
    BY <1>1, <1>9 DEF IInv, ComputedOnHead
  <2>2. ResolvesAsAsked'
    BY <1>1 DEF IInv, ResolvesAsAsked
  <2> QED
    BY <2>1, <2>2
<1>11. RestIsOwn'
  <2> SUFFICES ASSUME untouched.alone, call.kind \in MergeKinds,
                      NEW p \in Paths, wt'[p] # Tree[call.target][p]
               PROVE  wt'[p] = untouched.wt[p] /\ wt'[p] # Tree[C!OldCommit][p]
    BY <1>1, <1>9 DEF RestIsOwn
  <2>1. p \notin written /\ wt'[p] = wt[p] /\ ~call.force
    BY <1>4 DEF IInv, PhaseHasItsCall
  <2>2. wt[p] # C!HeadTree[p]
    BY <1>3, <2>1 DEF C!Written
  <2>3. wt = untouched.wt /\ head = untouched.head /\ refs = untouched.refs
    BY <1>1 DEF IInv, NothingWritten
  <2>4. C!HeadTree = Tree[C!OldCommit]
    BY <2>3 DEF C!HeadTree, C!HeadCommit, C!OldCommit, C!Attached
  <2> QED
    BY <2>1, <2>2, <2>3, <2>4
<1> QED
  BY <1>7, <1>8, <1>10, <1>11 DEF IInv

\* The steps of Checkout that end a call.
LEMMA SharedReturns ==
  ASSUME IInv, phase # "idle", merge' = NoMerge,
         \/ C!TreeInterrupted \/ C!TreeRefuses \/ C!ForwardRefuses \/ C!SetTargetRefused
         \/ C!Settle \/ C!Crash
  PROVE  IInv'
<1> USE DEF Outcomes, C!Outcomes, C!Refusals
<1>1. C!RepositoryOK /\ calls \in 0 .. MaxCalls /\ outside \in 0 .. MaxOutside
  BY DEF IInv, TypeOK
<1>2. CASE C!TreeInterrupted
  <2>1. PICK written \in SUBSET Paths : C!WriteTree(Tree[call.target], written)
    BY <1>2 DEF C!TreeInterrupted, C!Written
  <2>2. PICK outcome \in Outcomes : C!Return(outcome, {})
    BY <1>2 DEF C!TreeInterrupted
  <2>3. wt' \in C!Files
    BY <1>1, <2>1, WriteTypes, TreesAreFiles
  <2>4. /\ C!RepositoryOK'
        /\ calls' \in 0 .. MaxCalls /\ outside' \in 0 .. MaxOutside
    BY <1>1, <1>2, <2>3 DEF C!TreeInterrupted, C!RepositoryOK, C!Attached
  <2> QED
    BY <2>2, <2>4, ReturnStep
<1>3. CASE C!TreeRefuses
  <2>1. PICK target : target = Tree[call.target]
    OBVIOUS
  <2>2. C!Refusal(target)
    BY <1>3, <2>1 DEF C!TreeRefuses
  <2>3. /\ C!ActualConflicts(target) \in SUBSET Paths
        /\ C!UntrackedCollisions(target) \in SUBSET Paths
    BY DEF C!ActualConflicts, C!UntrackedCollisions
  <2>4. PICK outcome \in Outcomes, files \in SUBSET Paths : C!Return(outcome, files)
    BY <2>2, <2>3 DEF C!Refusal
  <2>5. /\ C!RepositoryOK'
        /\ calls' \in 0 .. MaxCalls /\ outside' \in 0 .. MaxOutside
    BY <1>1, <1>3 DEF C!TreeRefuses, C!repository, C!RepositoryOK, C!Attached
  <2> QED
    BY <2>4, <2>5, ReturnStep
<1>4. CASE C!Settle
  <2>1. PICK written \in SUBSET Paths :
          C!WriteTree(C!HeadTree, written) /\ C!WriteIndex(C!HeadTree, written)
    BY <1>4 DEF C!Settle, C!Written
  <2>2. wt' \in C!Files /\ index' \in C!Files
    BY <1>1, <2>1, WriteTypes, TreesAreFiles
  <2>3. /\ C!RepositoryOK'
        /\ calls' \in 0 .. MaxCalls /\ outside' \in 0 .. MaxOutside
    BY <1>1, <1>4, <2>2 DEF C!Settle, C!RepositoryOK, C!Attached
  <2> QED
    BY <1>4, <2>3, ReturnStep DEF C!Settle
<1>5. CASE C!ForwardRefuses \/ C!SetTargetRefused \/ C!Crash
  <2>1. PICK outcome \in Outcomes : C!Refuse(outcome)
    BY <1>5 DEF C!ForwardRefuses, C!SetTargetRefused, C!Crash
  <2>2. /\ C!RepositoryOK'
        /\ calls' \in 0 .. MaxCalls /\ outside' \in 0 .. MaxOutside
    BY <1>1, <2>1 DEF C!Refuse, C!repository, C!RepositoryOK, C!Attached
  <2> QED
    BY <2>1, <2>2, ReturnStep DEF C!Refuse
<1> QED
  BY <1>2, <1>3, <1>4, <1>5

\* The steps of a fast-forward between its first and its last.
LEMMA SharedForward ==
  ASSUME IInv, C!ForwardAnalyse \/ C!SetTarget, merge' = merge
  PROVE  IInv'
<1>1. /\ call.kind = "forward" /\ phase' \in {"tree", "settle"} /\ phase \in {"find", "head"}
      /\ UNCHANGED <<head, index, wt, elsewhere, call, untouched, result, calls, outside>>
  BY DEF C!ForwardAnalyse, C!SetTarget, C!repository
<1>2. /\ call.target \in Commits /\ call.branch \in Branches /\ C!RepositoryOK
  BY <1>1 DEF IInv, PhaseHasItsCall, TypeOK
<1>3. refs' \in C!Refs /\ \A b \in Branches : refs[b] # Absent => refs'[b] # Absent
  <2>1. refs' = refs \/ refs' = [refs EXCEPT ![call.branch] = call.target]
    BY DEF C!ForwardAnalyse, C!SetTarget, C!repository
  <2> QED
    BY <1>2, <2>1 DEF C!RepositoryOK, C!Refs
<1>4. C!RepositoryOK'
  BY <1>1, <1>2, <1>3 DEF C!RepositoryOK, C!Attached
<1>5. LandsWhatWasComputed'
  BY <1>1 DEF LandsWhatWasComputed, MergeKinds
<1>6. TypeOK'
  BY <1>1, <1>4, <1>5 DEF IInv, TypeOK, Phases, C!Phases
<1>7. PhaseHasItsCall'
  BY <1>1, <1>2 DEF IInv, PhaseHasItsCall, MergeKinds
<1> QED
  BY <1>1, <1>6, <1>7 DEF IInv, NothingWritten, ComputedOnHead, RestIsOwn, ResolvesAsAsked,
                          MergeKinds

\* An edit or a `git add` beside the call: the history follows it.
LEMMA EditorStep ==
  ASSUME IInv, NEW p \in Paths,
         C!Stage(p) \/ \E content \in C!File : C!Edit(p, content),
         merge' = merge
  PROVE  IInv'
<1> DEFINE Follows ==
      /\ untouched' \in C!Histories
      /\ untouched'.head = untouched.head /\ untouched'.refs = untouched.refs
      /\ untouched'.alone = untouched.alone
      /\ phase # "idle" => untouched'.edited = untouched.edited \union {p}
      /\ phase = "idle" => untouched' = untouched
      /\ phase # "idle" /\ untouched.wt = wt => untouched'.wt = wt'
      /\ phase # "idle" /\ untouched.index = index => untouched'.index = index'
      /\ \A q \in Paths \ {p} : untouched'.wt[q] = untouched.wt[q]
    Writes == wt' \in C!Files /\ index' \in C!Files /\ \A q \in Paths \ {p} : wt'[q] = wt[q]
<1>1. /\ wt \in C!Files /\ index \in C!Files /\ untouched \in C!Histories
      /\ calls \in 0 .. MaxCalls /\ outside \in 0 .. MaxOutside
  BY DEF IInv, TypeOK, C!RepositoryOK
<1>2. /\ UNCHANGED <<head, refs, elsewhere, phase, call, calls>>
      /\ outside < MaxOutside /\ outside' = outside + 1 /\ result' = C!NoResult
  BY DEF C!Stage, C!Edit, C!FromOutside
<1>3. Writes /\ Follows
  <2>1. CASE C!Stage(p)
    <3>1. Writes
      BY <1>1, <2>1 DEF C!Stage, C!Files
    <3>2. CASE phase = "idle"
      <4>1. untouched' = untouched
        BY <2>1, <3>2 DEF C!Stage
      <4> QED
        BY <1>1, <3>1, <3>2, <4>1
    <3>3. CASE phase # "idle"
      <4>1. /\ untouched' = [untouched EXCEPT !.index[p] = wt[p], !.edited = @ \union {p}]
            /\ index' = [index EXCEPT ![p] = wt[p]] /\ wt' = wt
        BY <2>1, <3>3 DEF C!Stage
      <4>2. wt[p] \in C!File
        BY <1>1 DEF C!Files
      <4>3. PICK g \in C!Files, e \in SUBSET Paths :
              /\ g = [untouched.index EXCEPT ![p] = wt[p]]
              /\ e = untouched.edited \union {p}
        <5>1. untouched.index \in C!Files /\ untouched.edited \union {p} \in SUBSET Paths
          BY <1>1 DEF C!Histories
        <5>2. [untouched.index EXCEPT ![p] = wt[p]] \in C!Files
          BY <4>2, <5>1 DEF C!Files
        <5> QED
          BY <5>1, <5>2
      <4>4. untouched' = [untouched EXCEPT !.index = g, !.edited = e]
        BY <4>1, <4>3
      <4>5. /\ untouched' \in C!Histories
            /\ untouched'.head = untouched.head /\ untouched'.refs = untouched.refs
            /\ untouched'.alone = untouched.alone
            /\ untouched'.edited = e /\ untouched'.index = g /\ untouched'.wt = untouched.wt
        BY <1>1, <4>4 DEF C!Histories
      <4> QED
        BY <3>1, <3>3, <4>1, <4>3, <4>5
    <3> QED
      BY <3>1, <3>2, <3>3
  <2>2. ASSUME NEW content \in C!File, C!Edit(p, content)
        PROVE  Writes /\ Follows
    <3>1. Writes
      BY <1>1, <2>2 DEF C!Edit, C!Files
    <3>2. CASE phase = "idle"
      <4>1. untouched' = untouched
        BY <2>2, <3>2 DEF C!Edit
      <4> QED
        BY <1>1, <3>1, <3>2, <4>1
    <3>3. CASE phase # "idle"
      <4>1. /\ untouched' = [untouched EXCEPT !.wt[p] = content, !.edited = @ \union {p}]
            /\ wt' = [wt EXCEPT ![p] = content] /\ index' = index
        BY <2>2, <3>3 DEF C!Edit
      <4>2. PICK g \in C!Files, e \in SUBSET Paths :
              /\ g = [untouched.wt EXCEPT ![p] = content]
              /\ e = untouched.edited \union {p}
        <5>1. untouched.wt \in C!Files /\ untouched.edited \union {p} \in SUBSET Paths
          BY <1>1 DEF C!Histories
        <5>2. [untouched.wt EXCEPT ![p] = content] \in C!Files
          BY <2>2, <5>1 DEF C!Files
        <5> QED
          BY <5>1, <5>2
      <4>3. untouched' = [untouched EXCEPT !.wt = g, !.edited = e]
        BY <4>1, <4>2
      <4>4. /\ untouched' \in C!Histories
            /\ untouched'.head = untouched.head /\ untouched'.refs = untouched.refs
            /\ untouched'.alone = untouched.alone
            /\ untouched'.edited = e /\ untouched'.wt = g /\ untouched'.index = untouched.index
        BY <1>1, <4>3 DEF C!Histories
      <4>5. \A q \in Paths \ {p} : untouched'.wt[q] = untouched.wt[q]
        <5>1. untouched.wt \in C!Files
          BY <1>1 DEF C!Histories
        <5> QED
          BY <4>2, <4>4, <5>1 DEF C!Files
      <4> QED
        BY <3>1, <3>3, <4>1, <4>2, <4>4, <4>5
    <3> QED
      BY <3>1, <3>2, <3>3
  <2> QED
    BY <2>1, <2>2
<1>4. C!RepositoryOK'
  BY <1>2, <1>3 DEF IInv, TypeOK, C!RepositoryOK, C!Attached
<1>5. calls' \in 0 .. MaxCalls /\ outside' \in 0 .. MaxOutside
  BY <1>1, <1>2
<1>6. LandsWhatWasComputed'
  BY <1>2 DEF IInv, TypeOK, LandsWhatWasComputed
<1>7. TypeOK'
  BY <1>2, <1>3, <1>4, <1>5, <1>6, IdleIsTyped DEF IInv, TypeOK
<1>8. C!OldCommit' = C!OldCommit
  BY <1>3 DEF C!OldCommit
<1>9. PhaseHasItsCall' /\ NothingWritten'
  BY <1>2, <1>3 DEF IInv, PhaseHasItsCall, NothingWritten
<1>10. ComputedOnHead'
  BY <1>2, <1>3, <1>8 DEF IInv, ComputedOnHead
<1>11. RestIsOwn'
  <2> SUFFICES ASSUME untouched'.alone, phase = "head", call.kind \in MergeKinds,
                      NEW q \in Paths \ untouched'.edited,
                      wt'[q] # Tree[call.target][q]
               PROVE  wt'[q] = untouched'.wt[q] /\ wt'[q] # Tree[C!OldCommit][q]
    BY <1>2, <1>8 DEF RestIsOwn
  <2>1. q # p /\ q \notin untouched.edited /\ untouched.alone
    BY <1>3
  <2>2. wt'[q] = wt[q] /\ untouched'.wt[q] = untouched.wt[q]
    BY <1>3, <2>1
  <2> QED
    BY <2>1, <2>2 DEF IInv, RestIsOwn
<1>12. ResolvesAsAsked'
  BY <1>2 DEF IInv, ResolvesAsAsked
<1> QED
  BY <1>7, <1>9, <1>10, <1>11, <1>12 DEF IInv

\* Another git at work moves branches and HEAD, but removes no branch; the call
\* that runs is not alone any more.
LEMMA OtherGitStep ==
  ASSUME IInv, NEW stays \in BOOLEAN, C!OtherGit(stays), C!RepositoryOK', UNCHANGED <<phase, call, calls, merge>>,
         \A b \in Branches : refs[b] # Absent => refs'[b] # Absent
  PROVE  IInv'
<1>1. /\ untouched \in C!Histories
      /\ calls \in 0 .. MaxCalls /\ outside \in 0 .. MaxOutside
  BY DEF IInv, TypeOK
<1>2. /\ outside < MaxOutside /\ outside' = outside + 1 /\ result' = C!NoResult
      /\ phase = "idle" => untouched' = untouched
  BY DEF C!OtherGit, C!FromOutside
<1>3. untouched' \in C!Histories /\ (phase # "idle" => untouched'.alone = FALSE)
  <2>1. CASE phase # "idle"
    <3>1. (untouched.stayed /\ stays) \in BOOLEAN
      OBVIOUS
    <3>2. untouched' = [untouched EXCEPT !.alone = FALSE, !.stayed = untouched.stayed /\ stays]
      BY <2>1 DEF C!OtherGit
    <3> QED
      BY <1>1, <3>1, <3>2 DEF C!Histories
  <2> QED
    BY <1>1, <1>2, <2>1
<1>4. calls' \in 0 .. MaxCalls /\ outside' \in 0 .. MaxOutside
  BY <1>1, <1>2
<1>5. LandsWhatWasComputed'
  BY DEF IInv, TypeOK, LandsWhatWasComputed
<1>6. phase = "idle" => untouched' = untouched
  BY <1>2
<1>7. TypeOK'
  BY <1>2, <1>3, <1>4, <1>5, <1>6, IdleIsTyped DEF IInv, TypeOK
<1>8. PhaseHasItsCall'
  BY DEF IInv, PhaseHasItsCall
<1>9. ResolvesAsAsked'
  BY DEF IInv, ResolvesAsAsked
<1> QED
  BY <1>3, <1>7, <1>8, <1>9 DEF IInv, NothingWritten, ComputedOnHead, RestIsOwn

\* What a commit in a terminal and one in another worktree do to the branches.
LEMMA CommitsElsewhere ==
  ASSUME IInv, TerminalCommits \/ \E b \in Branches, c \in Known : C!OtherCommits(b, c)
  PROVE  /\ C!OtherGit(TRUE) /\ C!RepositoryOK' /\ UNCHANGED <<phase, call, calls>>
         /\ \A b \in Branches : refs[b] # Absent => refs'[b] # Absent
<1>1. C!RepositoryOK
  BY DEF IInv, TypeOK
<1>2. CASE TerminalCommits
  <2>1. PICK c \in Commits :
          IF C!Attached THEN refs' = [refs EXCEPT ![head] = c] /\ UNCHANGED head
                        ELSE head' = c /\ UNCHANGED refs
    BY <1>2 DEF TerminalCommits
  <2>2. C!OtherGit(TRUE) /\ UNCHANGED <<index, wt, elsewhere, phase, call, calls>>
    BY <1>2 DEF TerminalCommits
  <2>3. refs' \in C!Refs /\ \A b \in Branches : refs[b] # Absent => refs'[b] # Absent
    <3>1. refs \in C!Refs /\ c # Absent
      BY <1>1 DEF C!RepositoryOK
    <3>2. refs' = refs \/ refs' = [refs EXCEPT ![head] = c]
      BY <2>1
    <3> QED
      BY <3>1, <3>2 DEF C!Refs
  <2>4. head' \in Branches \union Commits /\ (head' \in Branches => head' = head)
    BY <1>1, <2>1 DEF C!RepositoryOK, C!Attached
  <2> QED
    BY <1>1, <2>2, <2>3, <2>4 DEF C!RepositoryOK, C!Attached
<1>3. ASSUME NEW b \in Branches, NEW c \in Known, C!OtherCommits(b, c)
      PROVE  /\ C!OtherGit(TRUE) /\ C!RepositoryOK' /\ UNCHANGED <<phase, call, calls>>
             /\ \A x \in Branches : refs[x] # Absent => refs'[x] # Absent
  <2>1. /\ C!OtherGit(TRUE) /\ refs' = [refs EXCEPT ![b] = c]
        /\ UNCHANGED <<head, index, wt, elsewhere, phase, call, calls>>
    BY <1>3 DEF C!OtherCommits
  <2>2. refs' \in C!Refs /\ \A x \in Branches : refs[x] # Absent => refs'[x] # Absent
    BY <1>1, <2>1 DEF C!RepositoryOK, C!Refs
  <2> QED
    BY <1>1, <2>1, <2>2 DEF C!RepositoryOK, C!Attached
<1> QED
  BY <1>2, <1>3

\* What git writes over the worktree has its type.
LEMMA GitWritesTypes ==
  ASSUME C!RepositoryOK, NEW c \in Commits, NEW force \in BOOLEAN, C!GitWrites(Tree[c], force)
  PROVE  wt' \in C!Files /\ index' \in C!Files
<1>1. PICK written \in SUBSET Paths : written = C!Written(Tree[c], force)
  BY DEF C!Written
<1>2. C!WriteTree(Tree[c], written) /\ C!WriteIndex(Tree[c], written)
  BY <1>1 DEF C!GitWrites
<1>3. Tree[c] \in C!Files
  BY DEF C!Files
<1> QED
  BY <1>2, <1>3 DEF C!RepositoryOK, C!WriteTree, C!WriteIndex, C!Files

\* A switch or a reset in a terminal moves HEAD and its branch, and removes none.
LEMMA HeadMovesInTerminal ==
  ASSUME IInv,
         \/ \E c \in Known : C!TerminalResets(c)
         \/ \E to \in Branches \union Known : C!TerminalSwitches(to)
  PROVE  /\ C!OtherGit(FALSE) /\ C!RepositoryOK' /\ UNCHANGED <<phase, call, calls>>
         /\ \A b \in Branches : refs[b] # Absent => refs'[b] # Absent
<1>1. C!RepositoryOK
  BY DEF IInv, TypeOK
<1>2. ASSUME NEW c \in Known, C!TerminalResets(c)
      PROVE  /\ C!OtherGit(FALSE) /\ C!RepositoryOK' /\ UNCHANGED <<phase, call, calls>>
             /\ \A b \in Branches : refs[b] # Absent => refs'[b] # Absent
  <2>1. c \in Commits
    OBVIOUS
  <2>2. wt' \in C!Files /\ index' \in C!Files
    <3>1. CASE C!GitWrites(Tree[c], TRUE)
      BY <1>1, <2>1, <3>1, GitWritesTypes
    <3> QED
      BY <1>1, <1>2, <3>1 DEF C!TerminalResets, C!RepositoryOK
  <2>3. /\ refs' \in C!Refs /\ head' \in Branches \union Commits
        /\ head' \in Branches => head' = head
        /\ \A b \in Branches : refs[b] # Absent => refs'[b] # Absent
    <3>1. refs \in C!Refs /\ head \in Branches \union Commits /\ c # Absent
      BY <1>1, <2>1 DEF C!RepositoryOK
    <3>2. CASE C!Attached
      <4>1. refs' = [refs EXCEPT ![head] = c] /\ head' = head
        BY <1>2, <3>2 DEF C!TerminalResets
      <4> QED
        BY <2>1, <3>1, <4>1 DEF C!Refs
    <3>3. CASE ~C!Attached
      BY <1>2, <2>1, <3>1, <3>3 DEF C!TerminalResets
    <3> QED
      BY <3>2, <3>3
  <2> QED
    BY <1>1, <1>2, <2>2, <2>3 DEF C!TerminalResets, C!RepositoryOK, C!Attached
<1>3. ASSUME NEW to \in Branches \union Known, C!TerminalSwitches(to)
      PROVE  /\ C!OtherGit(FALSE) /\ C!RepositoryOK' /\ UNCHANGED <<phase, call, calls>>
             /\ \A b \in Branches : refs[b] # Absent => refs'[b] # Absent
  <2>1. PICK c \in Commits : C!GitWrites(Tree[c], FALSE)
    BY <1>1, <1>3 DEF C!TerminalSwitches, C!RepositoryOK, C!Refs
  <2>2. wt' \in C!Files /\ index' \in C!Files
    BY <1>1, <2>1, GitWritesTypes
  <2> QED
    BY <1>1, <1>3, <2>2 DEF C!TerminalSwitches, C!RepositoryOK, C!Attached
<1> QED
  BY <1>2, <1>3

\* The steps that a merge shares with Checkout.
LEMMA SharedStep ==
  ASSUME IInv, Shared
  PROVE  IInv'
<1>1. merge' = IF phase' = "idle" THEN NoMerge ELSE merge
  BY DEF Shared
<1>2. CASE C!CheckoutTree
  <2>1. merge' = merge
    BY <1>1, <1>2 DEF C!CheckoutTree
  <2> QED
    BY <1>2, <2>1, CheckoutTreeStep
<1>3. CASE \/ C!TreeInterrupted \/ C!TreeRefuses \/ C!ForwardRefuses \/ C!SetTargetRefused
           \/ C!Settle \/ C!Crash
  <2>1. phase # "idle"
    BY <1>3 DEF C!TreeInterrupted, C!TreeRefuses, C!ForwardRefuses, C!SetTargetRefused,
                C!Settle, C!Crash
  <2>2. phase' = "idle"
    BY <1>3 DEF C!TreeInterrupted, C!TreeRefuses, C!Refusal, C!ForwardRefuses,
                C!SetTargetRefused, C!Settle, C!Crash, C!Refuse, C!Return
  <2> QED
    BY <1>1, <1>3, <2>1, <2>2, SharedReturns
<1>4. CASE C!ForwardAnalyse \/ C!SetTarget
  <2>1. merge' = merge
    BY <1>1, <1>4 DEF C!ForwardAnalyse, C!SetTarget
  <2> QED
    BY <1>4, <2>1, SharedForward
<1>5. phase' = phase => merge' = merge
  BY <1>1 DEF IInv, TypeOK
<1>6. ASSUME NEW p \in Paths, C!Stage(p) \/ \E content \in C!File : C!Edit(p, content)
      PROVE  IInv'
  <2>1. phase' = phase
    BY <1>6 DEF C!Stage, C!Edit
  <2> QED
    BY <1>5, <1>6, <2>1, EditorStep
<1>7. CASE \E b \in Branches, c \in Known : C!OtherCommits(b, c)
  BY <1>5, <1>7, CommitsElsewhere, OtherGitStep
<1>8. CASE \/ \E c \in Known : C!TerminalResets(c)
           \/ \E to \in Branches \union Known : C!TerminalSwitches(to)
  BY <1>5, <1>8, HeadMovesInTerminal, OtherGitStep
<1> QED
  BY <1>2, <1>3, <1>4, <1>6, <1>7, <1>8 DEF Shared

\* At the start no call runs.
LEMMA InvariantInit == Init => IInv
<1> SUFFICES ASSUME Init PROVE IInv
  OBVIOUS
<1> USE DEF Init
<1>1. /\ refs \in C!Refs /\ head \in Branches \union Commits
      /\ C!Attached => refs[head] # Absent
  BY DEF C!Refs, C!Attached
<1>2. C!HeadTree \in C!Files
  <2>1. C!HeadCommit \in Commits
    BY <1>1 DEF C!HeadCommit, C!Attached, C!Refs
  <2> QED
    BY <2>1 DEF C!HeadTree, C!Files
<1>3. index \in C!Files
  <2>1. PICK tree \in C!Files : tree = C!HeadTree
    BY <1>2
  <2>2. \A p \in Paths, c \in Contents : [tree EXCEPT ![p] = c] \in C!Files
    BY <2>1 DEF C!Files, C!File
  <2>3. \/ index = tree
        \/ \E p \in Paths, c \in Contents : index = [tree EXCEPT ![p] = c]
    BY <2>1
  <2> QED
    BY <2>2, <2>3
<1>4. C!RepositoryOK
  BY <1>1, <1>2, <1>3 DEF C!RepositoryOK
<1>5. LandsWhatWasComputed
  BY DEF LandsWhatWasComputed
<1>6. TypeOK
  BY <1>4, <1>5, IdleIsTyped DEF TypeOK, Phases, C!Phases
<1>7. call.kind = "none"
  BY IdleIsTyped
<1> QED
  BY <1>6, <1>7 DEF IInv, PhaseHasItsCall, NothingWritten, ComputedOnHead, RestIsOwn,
                    ResolvesAsAsked, MergeKinds

\* Every step keeps the invariant, one group of actions per lemma above.
LEMMA InvariantStep == IInv /\ [Next]_vars => IInv'
<1> SUFFICES ASSUME IInv, [Next]_vars PROVE IInv'
  OBVIOUS
<1>1. CASE Calls
  BY <1>1, CallsStep
<1>2. CASE Steps
  BY <1>2, AnalyseSteps, MergeCommitsStep, PickStep, CommitMergeStep, RefusingSteps,
     ForwardStep, MakeCommitStep, MoveReferenceStep DEF Steps
<1>3. CASE Shared
  BY <1>3, SharedStep
<1>4. CASE TerminalCommits
  BY <1>4, CommitsElsewhere, OtherGitStep DEF TerminalCommits
<1>5. CASE UNCHANGED vars
  <2>1. TypeOK'
    BY <1>5 DEF vars, IInv, TypeOK, C!RepositoryOK, C!Attached, LandsWhatWasComputed
  <2>2. C!OldCommit' = C!OldCommit
    BY <1>5 DEF vars, C!OldCommit
  <2>3. PhaseHasItsCall' /\ NothingWritten' /\ ResolvesAsAsked'
    <3>1. PhaseHasItsCall'
      BY <1>5 DEF vars, IInv, PhaseHasItsCall
    <3>2. NothingWritten'
      BY <1>5 DEF vars, IInv, NothingWritten
    <3>3. ResolvesAsAsked'
      BY <1>5 DEF vars, IInv, ResolvesAsAsked
    <3> QED
      BY <3>1, <3>2, <3>3
  <2>4. ComputedOnHead' /\ RestIsOwn'
    BY <1>5, <2>2 DEF vars, IInv, ComputedOnHead, RestIsOwn
  <2> QED
    BY <2>1, <2>3, <2>4 DEF IInv
<1> QED
  BY <1>1, <1>2, <1>3, <1>4, <1>5 DEF Next

\* The inductive invariant: what a merge has read and computed, and how far it
\* still holds at its later steps, whatever goes on beside it.
THEOREM MergeInvariant == Spec => []IInv
  BY InvariantInit, InvariantStep, PTL DEF Spec

\* The state is well typed, nothing computed outlives its call, and the tree that
\* is checked out is that of the commit to be landed.
THEOREM TypeCorrect == Spec => []TypeOK
<1>1. IInv => TypeOK
  BY DEF IInv
<1> QED
  BY <1>1, MergeInvariant, PTL

-----------------------------------------------------------------------------
\* The steps that end a merge, a resolution or a replay.
LEMMA ReturningSteps ==
  ASSUME IInv, [Next]_vars, C!Returns, call.kind \in MergeKinds
  PROVE  \/ UpToDate \/ MergeConflicts \/ ForwardDetached \/ CommitMergeRefuses \/ PickRefuses
         \/ FinishRefuses \/ MoveReference \/ MoveReferenceFails
         \/ C!TreeInterrupted \/ C!TreeRefuses \/ C!Crash
<1> USE DEF C!Returns
<1>1. ~Calls
  BY DEF Calls, BranchMissing, MergeCall, CommitMergeCall, PickMergeCommit, PickCall, Begin, C!Begin
<1>2. /\ ~DelegateForward /\ ~AnalyseMerge /\ ~MergeCommits /\ ~CommitMerge /\ ~Pick
      /\ ~MakeCommit /\ \A force \in Strategies : ~Forward(force)
  BY DEF DelegateForward, AnalyseMerge, MergeCommits, CommitMerge, Pick, Decide, MakeCommit, Forward
<1>3. /\ ~C!ForwardAnalyse /\ ~C!ForwardRefuses /\ ~C!SetTarget /\ ~C!SetTargetRefused
      /\ ~C!CheckoutTree
  BY DEF C!ForwardAnalyse, C!ForwardRefuses, C!SetTarget, C!SetTargetRefused, C!CheckoutTree,
         MergeKinds
<1>4. ~C!Settle
  BY DEF C!Settle, IInv, PhaseHasItsCall, MergeKinds
<1>5. /\ \A p \in Paths : ~C!Stage(p) /\ \A content \in C!File : ~C!Edit(p, content)
      /\ \A b \in Branches, c \in Known : ~C!OtherCommits(b, c)
      /\ \A c \in Known : ~C!TerminalResets(c)
      /\ \A to \in Branches \union Known : ~C!TerminalSwitches(to)
      /\ ~TerminalCommits
  BY DEF C!Stage, C!Edit, C!OtherCommits, C!TerminalResets, C!TerminalSwitches, TerminalCommits
<1>6. ~UNCHANGED vars
  BY DEF vars
<1> QED
  BY <1>1, <1>2, <1>3, <1>4, <1>5, <1>6 DEF Next, Steps, Shared

\* A merge, a resolution or a replay that ends in anything but a commit has
\* changed nothing: until its checkout it writes nothing, and of what may fail
\* after that only a disk or another git's lock is at fault.
THEOREM RefusalsTouchNothing == Spec => RefusalTouchesNothing
<1> DEFINE Untouched ==
     /\ C!Returns /\ untouched.alone /\ call.kind \in MergeKinds
     /\ result'.outcome \notin {"ok", "none", "io_error", "reference_error"}
     => repository' = <<untouched.head, untouched.refs, untouched.index, untouched.wt>>
<1>1. IInv /\ [Next]_vars => Untouched
  <2> SUFFICES ASSUME IInv, [Next]_vars, C!Returns, untouched.alone, call.kind \in MergeKinds,
                      result'.outcome \notin {"ok", "none", "io_error", "reference_error"}
               PROVE  repository' = <<untouched.head, untouched.refs, untouched.index, untouched.wt>>
    OBVIOUS
  <2>1. ASSUME phase \notin {"idle", "head"}, UNCHANGED repository
        PROVE  repository' = <<untouched.head, untouched.refs, untouched.index, untouched.wt>>
    BY <2>1 DEF repository, IInv, NothingWritten
  <2>2. CASE \/ UpToDate \/ MergeConflicts \/ ForwardDetached \/ CommitMergeRefuses
             \/ PickRefuses \/ FinishRefuses
    <3>1. phase \notin {"idle", "head"}
      BY <2>2 DEF UpToDate, MergeConflicts, ForwardDetached, CommitMergeRefuses, PickRefuses,
                  FinishRefuses
    <3>2. UNCHANGED repository
      BY <2>2 DEF UpToDate, MergeConflicts, ForwardDetached, CommitMergeRefuses, ResolutionError,
                  PickRefuses, FinishRefuses, Fail
    <3> QED
      BY <2>1, <3>1, <3>2
  <2>3. CASE C!TreeRefuses
    BY <2>1, <2>3 DEF C!TreeRefuses, C!repository, repository
  <2>4. ~MoveReference /\ ~MoveReferenceFails
    BY DEF MoveReference, MoveReferenceFails, Fail, Return, C!Return
  <2>5. ~C!TreeInterrupted /\ ~C!Crash
    BY DEF C!TreeInterrupted, C!Crash, C!Refuse, C!Return
  <2> QED
    BY <2>2, <2>3, <2>4, <2>5, ReturningSteps
<1> QED
  BY <1>1, MergeInvariant, PTL DEF Spec, RefusalTouchesNothing

\* What writes files while a merge runs.
LEMMA WritingSteps ==
  ASSUME IInv, [Next]_vars, call.kind \in MergeKinds, outside' = outside, wt' # wt
  PROVE  C!CheckoutTree \/ C!TreeInterrupted
<1>1. outside \in Nat
  BY DEF IInv, TypeOK
<1>2. CASE Calls
  BY <1>2 DEF Calls, BranchMissing, MergeCall, CommitMergeCall, PickMergeCommit, PickCall, Begin,
              Fail, repository
<1>3. CASE Steps
  <2>1. ASSUME NEW outcome, NEW files, Fail(outcome, files) PROVE FALSE
    BY <2>1 DEF Fail, repository
  <2>2. ~CommitMergeRefuses /\ ~PickRefuses
    BY <2>1 DEF CommitMergeRefuses, ResolutionError, PickRefuses
  <2>3. /\ ~UpToDate /\ ~MergeConflicts /\ ~ForwardDetached /\ ~FinishRefuses
        /\ ~MoveReferenceFails
    BY <2>1 DEF UpToDate, MergeConflicts, ForwardDetached, FinishRefuses, MoveReferenceFails
  <2>4. /\ ~DelegateForward /\ ~AnalyseMerge /\ ~MergeCommits /\ ~CommitMerge /\ ~Pick
    BY DEF DelegateForward, AnalyseMerge, MergeCommits, CommitMerge, Pick, Decide, repository
  <2>5. /\ ~MakeCommit /\ ~MoveReference /\ \A force \in Strategies : ~Forward(force)
    BY DEF MakeCommit, MoveReference, Forward, repository
  <2> QED
    BY <1>3, <2>2, <2>3, <2>4, <2>5 DEF Steps
<1>4. CASE Shared
  <2>1. ~C!Settle
    BY DEF C!Settle, IInv, PhaseHasItsCall, MergeKinds
  <2>2. /\ ~C!TreeRefuses /\ ~C!ForwardAnalyse /\ ~C!ForwardRefuses /\ ~C!SetTarget
        /\ ~C!SetTargetRefused /\ ~C!Crash
    BY DEF C!TreeRefuses, C!ForwardAnalyse, C!ForwardRefuses, C!SetTarget, C!SetTargetRefused,
           C!Crash, C!Refuse, C!repository
  <2>3. ASSUME outside' = outside + 1 PROVE FALSE
    BY <1>1, <2>3
  <2>4. /\ \A p \in Paths : ~C!Stage(p) /\ \A content \in C!File : ~C!Edit(p, content)
        /\ \A b \in Branches, c \in Known : ~C!OtherCommits(b, c)
        /\ \A c \in Known : ~C!TerminalResets(c)
        /\ \A to \in Branches \union Known : ~C!TerminalSwitches(to)
    BY <2>3 DEF C!Stage, C!Edit, C!OtherCommits, C!TerminalResets, C!TerminalSwitches, C!OtherGit,
                C!FromOutside
  <2> QED
    BY <1>4, <2>1, <2>2, <2>4 DEF Shared
<1>5. CASE TerminalCommits
  BY <1>5 DEF TerminalCommits
<1>6. CASE UNCHANGED vars
  BY <1>6 DEF vars
<1> QED
  BY <1>2, <1>3, <1>4, <1>5, <1>6 DEF Next

\* No step of a merge writes a file that holds anything but what HEAD has there.
THEOREM EditsSurvive == Spec => UncommittedWorkSurvives
<1> DEFINE Survives ==
     call.kind \in MergeKinds /\ outside' = outside
     => \A p \in Paths : wt'[p] # wt[p] => wt[p] = C!HeadTree[p]
<1>1. IInv /\ [Next]_vars => Survives
  <2> SUFFICES ASSUME IInv, [Next]_vars, call.kind \in MergeKinds, outside' = outside,
                      NEW p \in Paths, wt'[p] # wt[p]
               PROVE  wt[p] = C!HeadTree[p]
    OBVIOUS
  <2>1. C!CheckoutTree \/ C!TreeInterrupted
    BY WritingSteps
  <2>2. C!Conflicting(Tree[call.target]) = {}
    BY <2>1 DEF C!CheckoutTree, C!TreeInterrupted, IInv, PhaseHasItsCall
  <2>3. PICK written \in SUBSET C!Written(Tree[call.target], call.force) :
          C!WriteTree(Tree[call.target], written)
    BY <2>1 DEF C!CheckoutTree, C!TreeInterrupted
  <2>4. wt'[p] = IF p \in written THEN Tree[call.target][p] ELSE wt[p]
    BY <2>3 DEF C!WriteTree
  <2>5. p \in written /\ wt[p] # Tree[call.target][p] /\ ~call.force
    BY <2>4 DEF IInv, PhaseHasItsCall
  <2>6. Tree[call.target][p] # C!HeadTree[p]
    BY <2>3, <2>5 DEF C!Written
  <2> QED
    BY <2>2, <2>5, <2>6 DEF C!Conflicting
<1> QED
  BY <1>1, MergeInvariant, PTL DEF Spec, UncommittedWorkSurvives

\* A step that reports success is the one that moves the reference.
LEMMA SuccessMovesReference ==
  ASSUME IInv, [Next]_vars, C!Returns, call.kind \in MergeKinds, result'.outcome = "ok"
  PROVE  MoveReference
<1>1. /\ ~UpToDate /\ ~MergeConflicts /\ ~ForwardDetached /\ ~FinishRefuses
      /\ ~MoveReferenceFails
  BY DEF UpToDate, MergeConflicts, ForwardDetached, FinishRefuses, MoveReferenceFails, Fail,
         Return, C!Return
<1>2. ~CommitMergeRefuses
  BY DEF CommitMergeRefuses, ResolutionError, Fail, Return, C!Return
<1>3. ~PickRefuses
  BY DEF PickRefuses, Fail, Return, C!Return
<1>4. ~C!TreeRefuses /\ ~C!TreeInterrupted /\ ~C!Crash
  BY DEF C!TreeRefuses, C!Refusal, C!TreeInterrupted, C!Crash, C!Refuse, C!Return
<1> QED
  BY <1>1, <1>2, <1>3, <1>4, ReturningSteps

\* A merge that succeeds adds one commit to the branch HEAD is on, on top of the
\* commit it was on, and of the files only the writer's own differ from it.
THEOREM MergesLandWhole == Spec => MergeLandsWhole
<1> DEFINE Old == IF untouched.head \in Branches THEN untouched.refs[untouched.head]
                  ELSE untouched.head
           New == IF head' \in Branches THEN refs'[head'] ELSE head'
           Lands ==
     /\ C!Returns /\ untouched.alone /\ call.kind \in MergeKinds /\ result'.outcome = "ok"
     => /\ (head' \in Branches) = (untouched.head \in Branches)
        /\ Parents[New] # <<>> /\ Parents[New][1] = Old
        /\ \A p \in Paths \ untouched.edited :
             wt'[p] # Tree[New][p] => wt'[p] = untouched.wt[p] /\ wt'[p] # Tree[Old][p]
<1>1. IInv /\ [Next]_vars => Lands
  <2> SUFFICES ASSUME IInv, [Next]_vars, C!Returns, untouched.alone, call.kind \in MergeKinds,
                      result'.outcome = "ok"
               PROVE  /\ (head' \in Branches) = (untouched.head \in Branches)
                      /\ Parents[New] # <<>> /\ Parents[New][1] = Old
                      /\ \A p \in Paths \ untouched.edited :
                           wt'[p] # Tree[New][p] => wt'[p] = untouched.wt[p] /\ wt'[p] # Tree[Old][p]
    OBVIOUS
  <2>1. MoveReference
    BY SuccessMovesReference
  <2>2. phase = "head" /\ wt' = wt /\ call.target \in Commits
    BY <2>1 DEF MoveReference, IInv, PhaseHasItsCall
  <2>3. /\ merge.onto = untouched.head /\ head = untouched.head
        /\ merge.parents # <<>> /\ merge.parents[1] = C!OldCommit
        /\ Parents[call.target] = merge.parents
    BY <2>2 DEF IInv, NothingWritten, ComputedOnHead, TypeOK, LandsWhatWasComputed
  <2>4. (head' \in Branches) = (untouched.head \in Branches) /\ New = call.target
    <3>1. CASE merge.onto \in Branches
      <4>1. head' = head /\ refs' = [refs EXCEPT ![merge.onto] = call.target]
        BY <2>1, <3>1 DEF MoveReference
      <4>2. refs'[merge.onto] = call.target
        BY <3>1, <4>1 DEF IInv, TypeOK, C!RepositoryOK, C!Refs
      <4> QED
        BY <2>3, <3>1, <4>1, <4>2
    <3>2. CASE merge.onto \notin Branches
      BY <2>1, <2>2, <2>3, <3>2 DEF MoveReference
    <3> QED
      BY <3>1, <3>2
  <2>5. Old = C!OldCommit
    BY DEF C!OldCommit
  <2>6. \A p \in Paths \ untouched.edited :
          wt[p] # Tree[call.target][p] => wt[p] = untouched.wt[p] /\ wt[p] # Tree[C!OldCommit][p]
    BY <2>2 DEF IInv, RestIsOwn
  <2> HIDE DEF Old, New
  <2> QED
    BY <2>2, <2>3, <2>4, <2>5, <2>6
<1> QED
  BY <1>1, MergeInvariant, PTL DEF Spec, MergeLandsWhole

\* A resolution is committed only on the HEAD it was made for, of all the paths in
\* conflict and of no other.
THEOREM ResolutionsAreComplete == Spec => ResolutionIsComplete
<1> DEFINE Resolved(parents, tree) ==
             LET theirs == parents[2]
                 base == BaseTree(merge.expected, theirs)
                 contested == Conflicts(base, Tree[merge.expected], Tree[theirs])
             IN /\ parents[1] = merge.expected
                /\ \A p \in contested : \E i \in DOMAIN merge.resolved :
                     merge.resolved[i] = [path |-> p, content |-> tree[p]]
                /\ \A p \in Paths \ contested :
                     tree[p] \in {Tree[merge.expected][p], Tree[theirs][p]}
           Complete ==
             C!Returns /\ call.kind = "commit_merge" /\ result'.outcome = "ok"
             => Resolved(Parents[call.target], Tree[call.target])
<1>1. IInv /\ [Next]_vars => Complete
  <2> SUFFICES ASSUME IInv, [Next]_vars, C!Returns, call.kind = "commit_merge",
                      result'.outcome = "ok"
               PROVE  Resolved(Parents[call.target], Tree[call.target])
    OBVIOUS
  <2>1. phase = "head"
    BY SuccessMovesReference DEF MoveReference, MergeKinds
  <2>2. Tree[call.target] = merge.tree /\ Parents[call.target] = merge.parents
    BY <2>1 DEF IInv, TypeOK, LandsWhatWasComputed, MergeKinds
  <2>3. Resolved(merge.parents, merge.tree)
    BY <2>1 DEF IInv, ResolvesAsAsked
  <2> HIDE DEF Resolved
  <2> QED
    BY <2>2, <2>3
<1> QED
  BY <1>1, MergeInvariant, PTL DEF Spec, ResolutionIsComplete

\* Whatever stands in the way of a checkout, tracked, is among what the library
\* looks for: modified files the target has, and those it has not.
LEMMA ObstaclesAreFound ==
  ASSUME NEW target, NEW p \in C!Conflicting(target), C!HeadTree[p] # Absent, index[p] # Absent
  PROVE  /\ p \in Dirty(target)
         /\ target[p] # Absent => p \in C!ActualConflicts(target)
<1>1. /\ p \in Paths /\ C!HeadTree[p] # target[p]
      /\ wt[p] # C!HeadTree[p] /\ wt[p] # target[p]
  BY DEF C!Conflicting
<1>2. CASE target[p] # Absent
  BY <1>1, <1>2 DEF C!ActualConflicts, Dirty
<1>3. CASE target[p] = Absent
  BY <1>1, <1>3 DEF DirtyDeletions, Dirty
<1> QED
  BY <1>2, <1>3

\* A merge that finds tracked files in the way names all of them.
THEOREM EditedAreNamed == Spec => EditedPagesAreNamed
<1> DEFINE Obstacles ==
             {p \in C!Conflicting(merge.tree) :
                /\ C!HeadTree[p] # Absent /\ index[p] # Absent
                /\ phase = "check" \/ merge.tree[p] # Absent}
           Named ==
             /\ phase \in {"check", "tree"} /\ C!Returns /\ call.kind \in MergeKinds
             /\ result'.outcome \notin {"none", "io_error"}
             => Obstacles \subseteq result'.files
<1>1. IInv /\ [Next]_vars => Named
  <2> SUFFICES ASSUME IInv, [Next]_vars, phase \in {"check", "tree"}, C!Returns,
                      call.kind \in MergeKinds, result'.outcome \notin {"none", "io_error"},
                      NEW p \in C!Conflicting(merge.tree), C!HeadTree[p] # Absent,
                      index[p] # Absent, phase = "check" \/ merge.tree[p] # Absent
               PROVE  p \in result'.files
    OBVIOUS
  <2>1. CASE FinishRefuses
    <3>1. result'.files = Dirty(merge.tree)
      BY <2>1 DEF FinishRefuses, Fail, Return, C!Return
    <3> QED
      BY <3>1, ObstaclesAreFound
  <2>2. CASE C!TreeRefuses
    <3>1. Tree[call.target] = merge.tree /\ merge.tree[p] # Absent
      BY <2>2 DEF C!TreeRefuses, IInv, TypeOK, LandsWhatWasComputed
    <3>2. p \in C!ActualConflicts(merge.tree)
      BY <3>1, ObstaclesAreFound
    <3>3. C!Refusal(merge.tree)
      BY <2>2, <3>1 DEF C!TreeRefuses
    <3>4. C!Return("would_lose_changes", C!ActualConflicts(merge.tree))
      BY <3>2, <3>3 DEF C!Refusal
    <3> QED
      BY <3>2, <3>4 DEF C!Return
  <2>3. ~C!TreeInterrupted /\ ~C!Crash
    BY DEF C!TreeInterrupted, C!Crash, C!Refuse, C!Return
  <2>4. /\ ~UpToDate /\ ~MergeConflicts /\ ~ForwardDetached /\ ~CommitMergeRefuses
        /\ ~PickRefuses /\ ~MoveReference /\ ~MoveReferenceFails
    BY DEF UpToDate, MergeConflicts, ForwardDetached, CommitMergeRefuses, PickRefuses,
           MoveReference, MoveReferenceFails
  <2> QED
    BY <2>1, <2>2, <2>3, <2>4, ReturningSteps
<1> QED
  BY <1>1, MergeInvariant, PTL DEF Spec, EditedPagesAreNamed
=============================================================================
