--------------------------- MODULE CheckoutProofs ---------------------------
(***************************************************************************)
(* Theorems about Checkout, for every history, every set of branches and   *)
(* files, and every bound: uncommitted work survives a safe call, a        *)
(* refusal touches nothing, a branch only moves forward, none that another *)
(* worktree has is taken, no commit drops out of reach.                    *)
(***************************************************************************)
EXTENDS Checkout, TLAPS

USE CheckoutAssumption

\* HEAD is at a commit.
LEMMA HeadIsACommit ==
  ASSUME RepositoryOK
  PROVE  /\ HeadCommit \in Commits
         /\ HeadTree \in Files
BY DEF RepositoryOK, Attached, HeadCommit, HeadTree, Refs, Files

\* The arguments of no call.
LEMMA NoCallOK == NoCall \in Arguments /\ Nothing \in Histories
<1>1. NoCall \in Arguments
  BY DEF NoCall, Arguments, Kinds
<1>2. /\ [b \in Branches |-> Absent] \in Refs
      /\ [p \in Paths |-> Absent] \in Files
  BY DEF Refs, Files, File
<1>3. Nothing \in Histories
  BY <1>2 DEF Nothing, Histories
<1> QED
  BY <1>1, <1>3

\* A call that returns leaves nothing of itself behind.
LEMMA ReturnStep ==
  ASSUME IInv, NEW outcome \in Outcomes, NEW files \in SUBSET Paths, Return(outcome, files),
         RepositoryOK', calls' \in 0..MaxCalls, outside' \in 0..MaxOutside
  PROVE  IInv'
<1>1. result' \in Results
  BY DEF Return, Results
<1>2. phase' = "idle" /\ call' = NoCall /\ untouched' = Nothing
  BY DEF Return
<1>3. CallOK'
  BY <1>2, NoCallOK DEF CallOK, Phases
<1>4. call'.kind = "none" /\ untouched'.stayed = TRUE
  BY <1>2 DEF NoCall, Nothing
<1> QED
  BY <1>1, <1>2, <1>3, <1>4
  DEF IInv, TypeOK, PhaseHasItsCall, OldIsBehind, NothingWritten, FoundIsCurrent, RestIsOwn

\* A call that refuses changes nothing else either.
LEMMA RefuseStep ==
  ASSUME IInv, NEW outcome \in Outcomes, Refuse(outcome)
  PROVE  IInv'
<1>1. RepositoryOK'
  BY DEF Refuse, repository, IInv, TypeOK, RepositoryOK, Attached
<1>2. calls' \in 0..MaxCalls /\ outside' \in 0..MaxOutside
  BY DEF Refuse, IInv, TypeOK
<1> QED
  BY <1>1, <1>2, ReturnStep DEF Refuse

\* A call that goes on has its arguments, and a history that begins with the
\* repository as it finds it.
LEMMA BeginStep ==
  ASSUME IInv, NEW arguments \in Arguments,
         arguments.kind # "none", Begin("find", arguments),
         RepositoryOK', outside' = outside
  PROVE  /\ TypeOK'
         /\ phase' = "find" /\ call' = arguments
         /\ untouched'.head = head /\ untouched'.refs = refs
         /\ untouched'.index = index /\ untouched'.wt = wt
         /\ untouched'.stayed = TRUE
<1>1. /\ untouched' = [head |-> head, refs |-> refs, index |-> index, wt |-> wt,
                       edited |-> {}, alone |-> TRUE, stayed |-> TRUE]
      /\ head \in Branches \union Commits
  BY DEF Begin, IInv, TypeOK, RepositoryOK
<1>2. untouched' \in Histories
  BY <1>1 DEF IInv, TypeOK, RepositoryOK, Histories
<1>3. untouched' # Nothing
  BY <1>1 DEF Nothing
<1>4. CallOK'
  BY <1>2, <1>3 DEF Begin, CallOK, Phases, NoCall
<1>5. result' \in Results /\ calls' \in 0..MaxCalls /\ outside' \in 0..MaxOutside
  BY DEF Begin, NoResult, Results, Outcomes, IInv, TypeOK
<1> QED
  BY <1>1, <1>4, <1>5 DEF Begin, TypeOK

\* create_branch_impl, with and without the checkout that may follow.
LEMMA CreateStep ==
  ASSUME IInv, NEW b \in Branches, NEW c \in Commits, NEW checkout \in BOOLEAN,
         CreateBranch(b, c, checkout)
  PROVE  IInv'
<1>1. /\ refs' \in Refs /\ \A x \in Branches : refs[x] # Absent => refs'[x] = refs[x]
      /\ UNCHANGED <<head, index, wt, elsewhere, outside>>
  BY DEF CreateBranch, IInv, TypeOK, RepositoryOK, Refs
<1>2. RepositoryOK'
  BY <1>1 DEF IInv, TypeOK, RepositoryOK, Attached
<1>3. CASE checkout
  <2>1. PICK a : a = [NoCall EXCEPT !.kind = "create", !.branch = b]
    OBVIOUS
  <2>2. a \in Arguments /\ a.kind = "create" /\ a.branch = b
    BY <2>1 DEF NoCall, Arguments, Kinds
  <2>3. /\ TypeOK' /\ phase' = "find" /\ call' = a
        /\ untouched'.head = head /\ untouched'.refs = refs
        /\ untouched'.index = index /\ untouched'.wt = wt
        /\ untouched'.stayed = TRUE
    BY <1>1, <1>2, <1>3, <2>1, <2>2, BeginStep DEF CreateBranch
  <2>4. HeadCommit' = OldCommit'
    BY <1>1, <2>3 DEF HeadCommit, OldCommit, Attached, IInv, TypeOK, RepositoryOK
  <2> QED
    BY <1>1, <2>2, <2>3, <2>4
    DEF IInv, PhaseHasItsCall, OldIsBehind, NothingWritten, FoundIsCurrent, RestIsOwn,
        TypeOK, RepositoryOK
<1>4. CASE ~checkout
  <2>1. Return("ok", {}) /\ calls' = calls
    BY <1>4 DEF CreateBranch
  <2>2. calls' \in 0..MaxCalls /\ outside' \in 0..MaxOutside
    BY <1>1, <2>1 DEF IInv, TypeOK
  <2> QED
    BY <1>2, <2>1, <2>2, ReturnStep DEF Outcomes
<1> QED
  BY <1>3, <1>4

\* The other calls write nothing as they begin.
LEMMA QuietBegin ==
  ASSUME IInv, NEW arguments \in Arguments,
         arguments.kind # "none", Begin("find", arguments),
         UNCHANGED <<repository, elsewhere, outside>>
  PROVE  /\ TypeOK' /\ RepositoryOK
         /\ phase' = "find" /\ call' = arguments
         /\ untouched'.head = head /\ untouched'.refs = refs
         /\ untouched'.stayed = TRUE
         /\ NothingWritten'
<1>1. RepositoryOK /\ RepositoryOK'
  BY DEF repository, IInv, TypeOK, RepositoryOK, Attached
<1>2. /\ TypeOK' /\ phase' = "find" /\ call' = arguments
      /\ untouched'.head = head /\ untouched'.refs = refs
      /\ untouched'.index = index /\ untouched'.wt = wt
      /\ untouched'.stayed = TRUE
  BY <1>1, BeginStep DEF repository
<1>3. HeadCommit' = OldCommit'
  BY <1>2 DEF HeadCommit, OldCommit, Attached, repository
<1> QED
  BY <1>1, <1>2, <1>3 DEF NothingWritten, repository

\* A checkout starts with nothing found and nothing written.
LEMMA CheckoutCallStep ==
  ASSUME IInv, NEW b \in Branches, NEW force \in BOOLEAN, CheckoutCall(b, force)
  PROVE  IInv'
<1>1. PICK a : a = [NoCall EXCEPT !.kind = "checkout", !.branch = b, !.force = force]
  OBVIOUS
<1>2. a \in Arguments /\ a.kind = "checkout" /\ a.branch = b
  BY <1>1 DEF NoCall, Arguments, Kinds
<1>3. /\ TypeOK' /\ RepositoryOK /\ phase' = "find" /\ call' = a
      /\ untouched'.head = head /\ untouched'.stayed = TRUE /\ NothingWritten'
  BY <1>1, <1>2, QuietBegin DEF CheckoutCall
<1> QED
  BY <1>2, <1>3 DEF IInv, PhaseHasItsCall, OldIsBehind, FoundIsCurrent, RestIsOwn, RepositoryOK

\* The branch to move is HEAD's, and the commit that it is at is kept.
LEMMA ForwardCallStep ==
  ASSUME IInv, NEW c \in Commits, NEW force \in BOOLEAN, ForwardCall(c, force)
  PROVE  IInv'
<1>1. PICK a : a = [kind |-> "forward", branch |-> head, force |-> force,
                    target |-> c, old |-> HeadCommit]
  OBVIOUS
<1>2. HeadCommit \in Commits /\ head \in Branches /\ HeadCommit = refs[head]
  BY HeadIsACommit DEF ForwardCall, IInv, TypeOK, Attached, HeadCommit
<1>3. /\ a \in Arguments /\ a.kind = "forward" /\ a.branch = head
      /\ a.target = c /\ a.old = HeadCommit
  BY <1>1, <1>2 DEF Arguments, Kinds
<1>4. /\ TypeOK' /\ phase' = "find" /\ call' = a
      /\ untouched'.head = head /\ untouched'.stayed = TRUE /\ NothingWritten'
  BY <1>1, <1>3, QuietBegin DEF ForwardCall
<1>5. refs' = refs /\ head' = head /\ HeadCommit' = HeadCommit
  BY DEF ForwardCall, repository, HeadCommit, Attached
<1> QED
  BY <1>2, <1>3, <1>4, <1>5
  DEF IInv, PhaseHasItsCall, OldIsBehind, FoundIsCurrent, RestIsOwn

\* A delete begins with a branch, and with the commit that it is at.
LEMMA DeleteCallStep ==
  ASSUME IInv, NEW b \in Branches, NEW force \in BOOLEAN, DeleteCall(b, force)
  PROVE  IInv'
<1>1. PICK a : a = [NoCall EXCEPT !.kind = "delete", !.branch = b, !.force = force,
                                  !.old = refs[b]]
  OBVIOUS
<1>2. refs[b] \in Commits
  BY DEF DeleteCall, IInv, TypeOK, RepositoryOK, Refs
<1>3. a \in Arguments /\ a.kind = "delete" /\ a.branch = b /\ a.old = refs[b]
  BY <1>1, <1>2 DEF NoCall, Arguments, Kinds
<1>4. /\ TypeOK' /\ RepositoryOK /\ phase' = "find" /\ call' = a
      /\ untouched'.head = head /\ untouched'.refs = refs /\ untouched'.stayed = TRUE
      /\ NothingWritten'
  BY <1>1, <1>3, QuietBegin DEF DeleteCall
<1> QED
  BY <1>2, <1>3, <1>4
  DEF IInv, PhaseHasItsCall, OldIsBehind, FoundIsCurrent, RestIsOwn, RepositoryOK

\* The steps that begin a call, or are all of it.
LEMMA CallStep == IInv /\ Calls => IInv'
<1> SUFFICES ASSUME IInv, Calls
             PROVE  IInv'
  OBVIOUS
<1> USE DEF Outcomes, Refusals
<1>1. ASSUME NEW b \in Branches, CreateExists(b)
      PROVE  IInv'
  BY <1>1, RefuseStep DEF CreateExists
<1>2. ASSUME NEW b \in Branches, DeleteRefuses(b)
      PROVE  IInv'
  BY <1>2, RefuseStep DEF DeleteRefuses
<1>3. CASE ForwardDetached
  BY <1>3, RefuseStep DEF ForwardDetached
<1> QED
  BY <1>1, <1>2, <1>3, CreateStep, CheckoutCallStep, ForwardCallStep, DeleteCallStep
  DEF Calls

-----------------------------------------------------------------------------
\* The steps that refuse.
LEMMA RefusingStep ==
  ASSUME IInv,
         \/ FindRefuses \/ SetHeadRefused \/ ForwardRefuses \/ SetTargetRefused
         \/ DeleteUnmerged \/ DeleteFails \/ Crash
  PROVE  IInv'
BY RefuseStep DEF FindRefuses, SetHeadRefused, ForwardRefuses, SetTargetRefused,
                  DeleteUnmerged, DeleteFails, Crash, Outcomes, Refusals

\* checkout_refusal names files of the repository.
LEMMA TreeRefusesStep ==
  ASSUME IInv, TreeRefuses
  PROVE  IInv'
<1>1. PICK outcome \in Outcomes, files \in SUBSET Paths : Return(outcome, files)
  <2>1. PICK target : target = Tree[call.target]
    OBVIOUS
  <2>2. Refusal(target)
    BY <2>1 DEF TreeRefuses
  <2>3. /\ ActualConflicts(target) \in SUBSET Paths
        /\ UntrackedCollisions(target) \in SUBSET Paths
    BY DEF ActualConflicts, UntrackedCollisions
  <2> QED
    BY <2>2, <2>3 DEF Refusal, Outcomes, Refusals
<1>2. RepositoryOK'
  BY DEF TreeRefuses, repository, IInv, TypeOK, RepositoryOK, Attached
<1>3. calls' \in 0..MaxCalls /\ outside' \in 0..MaxOutside
  BY DEF TreeRefuses, IInv, TypeOK
<1> QED
  BY <1>1, <1>2, <1>3, ReturnStep

\* The branch is found, and free.
LEMMA FindBranchStep ==
  ASSUME IInv, FindBranch
  PROVE  IInv'
<1> USE DEF FindBranch
<1>1. RepositoryOK' /\ call.branch \in Branches /\ call \in Arguments
  BY DEF repository, IInv, TypeOK, RepositoryOK, CallOK, Attached, PhaseHasItsCall
<1>2. refs[call.branch] \in Commits
  BY <1>1 DEF IInv, TypeOK, RepositoryOK, Refs
<1>3. /\ call' \in Arguments /\ call'.kind = call.kind /\ call'.branch = call.branch
      /\ call'.target = refs[call.branch]
  BY <1>1, <1>2 DEF Arguments
<1>4. TypeOK'
  <2>1. call'.kind # NoCall.kind
    BY <1>3 DEF NoCall
  <2>2. CallOK'
    BY <1>3, <2>1 DEF IInv, TypeOK, CallOK, Phases
  <2> QED
    BY <1>1, <2>2 DEF IInv, TypeOK
<1>5. HeadCommit' = HeadCommit /\ OldCommit' = OldCommit /\ HeldElsewhere(call.branch)' = FALSE
  BY DEF HeadCommit, OldCommit, Attached, HeldElsewhere, repository
<1> QED
  BY <1>1, <1>2, <1>3, <1>4, <1>5
  DEF IInv, PhaseHasItsCall, OldIsBehind, NothingWritten, FoundIsCurrent, RestIsOwn,
      HeldElsewhere, repository

\* The commit read first is an ancestor of the one analysed.
LEMMA ForwardAnalyseStep ==
  ASSUME IInv, ForwardAnalyse
  PROVE  IInv'
<1> USE DEF ForwardAnalyse
<1>1. RepositoryOK' /\ CallOK'
  BY DEF repository, IInv, TypeOK, RepositoryOK, CallOK, Attached, Phases
<1>2. HeadCommit' = HeadCommit /\ OldCommit' = OldCommit
  BY DEF HeadCommit, OldCommit, Attached, repository
<1>3. call.target \in Commits /\ HeadCommit \in Ancestors[call.target]
  BY DEF IInv, PhaseHasItsCall, StrictForward
<1>4. untouched.stayed => call.old \in Ancestors[call.target]
  BY <1>3 DEF IInv, OldIsBehind
<1> QED
  BY <1>1, <1>2, <1>3, <1>4
  DEF IInv, TypeOK, PhaseHasItsCall, OldIsBehind, NothingWritten, FoundIsCurrent, RestIsOwn,
      HeldElsewhere, repository

\* An unforced delete goes on if HEAD's commit descends from the branch's.
LEMMA DeleteChecksStep ==
  ASSUME IInv, DeleteChecks
  PROVE  IInv'
<1> USE DEF DeleteChecks
<1>1. RepositoryOK' /\ CallOK'
  BY DEF repository, IInv, TypeOK, RepositoryOK, CallOK, Attached, Phases
<1>2. HeadCommit' = HeadCommit /\ OldCommit' = OldCommit
  BY DEF HeadCommit, OldCommit, Attached, repository
<1>3. OldIsBehind'
  BY <1>2 DEF IInv, OldIsBehind, Merged
<1> QED
  BY <1>1, <1>2, <1>3
  DEF IInv, TypeOK, PhaseHasItsCall, NothingWritten, FoundIsCurrent, RestIsOwn,
      HeldElsewhere, repository

\* Writing part of a tree.
LEMMA WriteTypes ==
  ASSUME RepositoryOK, NEW c \in Commits, NEW written \in SUBSET Paths
  PROVE  /\ Tree[c] \in Files
         /\ WriteTree(Tree[c], written) =>
              /\ wt' \in Files
              /\ \A p \in Paths : wt'[p] = IF p \in written THEN Tree[c][p] ELSE wt[p]
         /\ WriteIndex(Tree[c], written) => index' \in Files
BY DEF RepositoryOK, WriteTree, WriteIndex, Files

\* What a checkout does not write is the target's already, or was not HEAD's.
LEMMA WrittenEnough ==
  ASSUME RepositoryOK, NEW c \in Commits, NEW force \in BOOLEAN,
         NEW p \in Paths \ Written(Tree[c], force), wt[p] # Tree[c][p]
  PROVE  wt[p] # HeadTree[p]
BY DEF Written

\* checkout_tree leaves of the writer's own changes what is in nobody's way.
LEMMA CheckoutTreeStep ==
  ASSUME IInv, CheckoutTree
  PROVE  IInv'
<1> USE DEF CheckoutTree
<1>1. /\ RepositoryOK /\ call \in Arguments
      /\ call.target \in Commits /\ call.force \in BOOLEAN
  BY DEF IInv, TypeOK, CallOK, Arguments, PhaseHasItsCall
<1>2. PICK written \in SUBSET Paths : written = Written(Tree[call.target], call.force)
  BY DEF Written
<1>3. /\ wt' \in Files /\ index' \in Files
      /\ \A p \in Paths : wt'[p] = IF p \in written THEN Tree[call.target][p] ELSE wt[p]
  BY <1>1, <1>2, WriteTypes
<1>4. RepositoryOK'
  BY <1>1, <1>3 DEF RepositoryOK, Attached
<1>5. TypeOK'
  BY <1>4 DEF IInv, TypeOK, CallOK, Phases
<1>6. HeadCommit' = HeadCommit /\ OldCommit' = OldCommit
  BY DEF HeadCommit, OldCommit, Attached
<1>7. PhaseHasItsCall' /\ OldIsBehind' /\ NothingWritten' /\ FoundIsCurrent'
  BY <1>6 DEF IInv, PhaseHasItsCall, OldIsBehind, NothingWritten, FoundIsCurrent, HeldElsewhere
<1>8. RestIsOwn'
  <2> SUFFICES ASSUME untouched.alone, NEW p \in Paths, wt'[p] # Tree[call.target][p]
               PROVE  wt'[p] = untouched.wt[p] /\ wt'[p] # Tree[OldCommit][p]
    BY <1>6 DEF RestIsOwn
  <2>1. p \notin written /\ wt'[p] = wt[p]
    BY <1>3
  <2>2. wt[p] # HeadTree[p]
    BY <1>1, <1>2, <2>1, WrittenEnough
  <2> QED
    BY <2>1, <2>2 DEF IInv, NothingWritten, HeadTree
<1> QED
  BY <1>5, <1>7, <1>8 DEF IInv

\* A checkout cut short has written contents of the target only.
LEMMA TreeInterruptedStep ==
  ASSUME IInv, TreeInterrupted
  PROVE  IInv'
<1> USE DEF TreeInterrupted
<1>1. /\ RepositoryOK /\ call.target \in Commits
  BY DEF IInv, TypeOK, PhaseHasItsCall
<1>2. PICK done \in SUBSET Paths : WriteTree(Tree[call.target], done)
  BY DEF Written
<1>3. wt' \in Files
  BY <1>1, <1>2, WriteTypes
<1>4. RepositoryOK'
  BY <1>1, <1>3 DEF RepositoryOK, Attached
<1>5. calls' \in 0..MaxCalls /\ outside' \in 0..MaxOutside
  BY DEF IInv, TypeOK
<1> QED
  BY <1>4, <1>5, ReturnStep DEF Outcomes

\* HEAD moves to a branch that is still there.
LEMMA SetHeadStep ==
  ASSUME IInv, SetHead
  PROVE  IInv'
<1> USE DEF SetHead
<1>1. call.branch \in Branches /\ refs[call.branch] # Absent
  BY DEF IInv, PhaseHasItsCall
<1>2. RepositoryOK'
  BY <1>1 DEF IInv, TypeOK, RepositoryOK, Attached
<1>3. CASE call.force
  <2>1. calls' \in 0..MaxCalls /\ outside' \in 0..MaxOutside
    BY DEF IInv, TypeOK
  <2> QED
    BY <1>2, <1>3, <2>1, ReturnStep DEF Outcomes
<1>4. CASE ~call.force
  <2>1. TypeOK'
    BY <1>2, <1>4 DEF IInv, TypeOK, CallOK, Phases
  <2>2. OldCommit' = OldCommit
    BY <1>4 DEF OldCommit
  <2>3. RestIsOwn'
    BY <1>4, <2>2 DEF IInv, RestIsOwn
  <2> QED
    BY <1>1, <1>4, <2>1, <2>3
    DEF IInv, PhaseHasItsCall, OldIsBehind, NothingWritten, FoundIsCurrent
<1> QED
  BY <1>3, <1>4

\* set_target.
LEMMA SetTargetStep ==
  ASSUME IInv, SetTarget
  PROVE  IInv'
<1> USE DEF SetTarget
<1>1. call.branch \in Branches /\ call.target \in Commits
  BY DEF IInv, PhaseHasItsCall
<1>2. /\ refs' \in Refs /\ refs'[call.branch] = call.target
      /\ \A b \in Branches : refs[b] # Absent => refs'[b] # Absent
  BY <1>1 DEF IInv, TypeOK, RepositoryOK, Refs
<1>3. RepositoryOK'
  BY <1>1, <1>2 DEF IInv, TypeOK, RepositoryOK, Attached
<1>4. TypeOK'
  BY <1>3 DEF IInv, TypeOK, CallOK, Phases
<1>5. RestIsOwn'
  <2>1. OldCommit' = OldCommit
    BY DEF OldCommit
  <2> QED
    BY <2>1 DEF IInv, RestIsOwn
<1> QED
  BY <1>1, <1>2, <1>4, <1>5
  DEF IInv, PhaseHasItsCall, OldIsBehind, NothingWritten, FoundIsCurrent

\* checkout_head writes what is still missing of the target, and ends the call.
LEMMA SettleStep ==
  ASSUME IInv, Settle
  PROVE  IInv'
<1> USE DEF Settle
<1>1. RepositoryOK /\ HeadCommit \in Commits
  BY HeadIsACommit DEF IInv, TypeOK
<1>2. PICK written \in SUBSET Paths : written = Written(HeadTree, call.force)
  BY DEF Written
<1>3. wt' \in Files /\ index' \in Files
  BY <1>1, <1>2, WriteTypes DEF HeadTree
<1>4. RepositoryOK'
  BY <1>1, <1>3 DEF RepositoryOK, Attached
<1>5. calls' \in 0..MaxCalls /\ outside' \in 0..MaxOutside
  BY DEF IInv, TypeOK
<1> QED
  BY <1>4, <1>5, ReturnStep DEF Outcomes

\* Deleting a branch leaves HEAD's own alone.
LEMMA DeleteBranchStep ==
  ASSUME IInv, DeleteBranch
  PROVE  IInv'
<1>1. call.branch # head /\ refs' = [refs EXCEPT ![call.branch] = Absent]
  BY DEF DeleteBranch
<1>2. refs' \in Refs /\ (head \in Branches => refs'[head] = refs[head])
  <2>1. refs \in Refs
    BY DEF IInv, TypeOK, RepositoryOK
  <2> QED
    BY <1>1, <2>1 DEF Refs
<1> USE DEF DeleteBranch
<1>3. RepositoryOK'
  BY <1>2 DEF IInv, TypeOK, RepositoryOK, Attached
<1>4. calls' \in 0..MaxCalls /\ outside' \in 0..MaxOutside
  BY DEF IInv, TypeOK
<1> QED
  BY <1>3, <1>4, ReturnStep DEF Outcomes

-----------------------------------------------------------------------------
\* An editor, or `git add`: what it does to the files it also does to what
\* they would have been.
LEMMA EditorStep ==
  ASSUME IInv, NEW p \in Paths,
         Stage(p) \/ \E content \in File : Edit(p, content)
  PROVE  IInv'
<1>1. /\ wt' \in Files /\ index' \in Files
      /\ \A q \in Paths \ {p} : wt'[q] = wt[q]
  <2>1. wt \in Files /\ index \in Files
    BY DEF IInv, TypeOK, RepositoryOK
  <2>2. CASE Stage(p)
    BY <2>1, <2>2 DEF Stage, Files
  <2>3. ASSUME NEW content \in File, Edit(p, content)
        PROVE  wt' \in Files /\ index' \in Files /\ \A q \in Paths \ {p} : wt'[q] = wt[q]
    BY <2>1, <2>3 DEF Edit, Files
  <2> QED
    BY <2>2, <2>3
<1>2. /\ UNCHANGED <<head, refs, elsewhere, phase, call, calls>>
      /\ outside < MaxOutside /\ outside' = outside + 1 /\ result' = NoResult
      /\ phase = "idle" => untouched' = untouched
  BY DEF Stage, Edit, FromOutside
<1>3. RepositoryOK' /\ result' \in Results /\ calls' \in 0..MaxCalls /\ outside' \in 0..MaxOutside
  BY <1>1, <1>2 DEF IInv, TypeOK, RepositoryOK, Attached, NoResult, Results, Outcomes
<1>4. CASE phase = "idle"
  <2>1. CallOK' /\ call.kind = "none"
    BY <1>2, <1>4 DEF IInv, TypeOK, CallOK, NoCall
  <2> QED
    BY <1>2, <1>3, <1>4, <2>1
    DEF IInv, TypeOK, PhaseHasItsCall, OldIsBehind, NothingWritten, FoundIsCurrent, RestIsOwn
<1>5. CASE phase # "idle"
  <2>1. untouched \in Histories /\ wt \in Files /\ index \in Files
    BY DEF IInv, TypeOK, RepositoryOK, CallOK
  <2>2. /\ untouched' \in Histories
        /\ untouched'.head = untouched.head /\ untouched'.refs = untouched.refs
        /\ untouched'.alone = untouched.alone /\ untouched'.stayed = untouched.stayed
        /\ untouched'.edited = untouched.edited \union {p}
        /\ untouched.wt = wt => untouched'.wt = wt'
        /\ untouched.index = index => untouched'.index = index'
        /\ \A q \in Paths \ {p} : untouched'.wt[q] = untouched.wt[q]
    <3>1. CASE Stage(p)
      BY <1>5, <2>1, <3>1 DEF Stage, Histories, Files
    <3>2. ASSUME NEW content \in File, Edit(p, content)
          PROVE  /\ untouched' \in Histories
                 /\ untouched'.head = untouched.head /\ untouched'.refs = untouched.refs
                 /\ untouched'.alone = untouched.alone /\ untouched'.stayed = untouched.stayed
                 /\ untouched'.edited = untouched.edited \union {p}
                 /\ untouched.wt = wt => untouched'.wt = wt'
                 /\ untouched.index = index => untouched'.index = index'
                 /\ \A q \in Paths \ {p} : untouched'.wt[q] = untouched.wt[q]
      BY <1>5, <2>1, <3>2 DEF Edit, Histories, Files
    <3> QED
      BY <3>1, <3>2
  <2>3. untouched'.head # Absent
    BY <1>5, <2>2 DEF IInv, PhaseHasItsCall
  <2>4. CallOK'
    BY <1>2, <1>5, <2>2, <2>3 DEF IInv, TypeOK, CallOK, Nothing
  <2>5. HeadCommit' = HeadCommit /\ OldCommit' = OldCommit
    BY <1>2, <2>2 DEF HeadCommit, OldCommit, Attached
  <2>6. PhaseHasItsCall' /\ OldIsBehind' /\ FoundIsCurrent'
    BY <1>2, <2>2, <2>5 DEF IInv, PhaseHasItsCall, OldIsBehind, FoundIsCurrent, HeldElsewhere
  <2>7. NothingWritten'
    BY <1>2, <2>2, <2>5 DEF IInv, NothingWritten
  <2>8. RestIsOwn'
    BY <1>1, <1>2, <2>2, <2>5 DEF IInv, RestIsOwn
  <2> QED
    BY <1>3, <2>4, <2>6, <2>7, <2>8 DEF IInv, TypeOK
<1> QED
  BY <1>4, <1>5

\* Another git removes no branch. What was found of HEAD's commit still holds
\* while HEAD stays, and moves forward at most.
LEMMA OtherGitStep ==
  ASSUME IInv, NEW stays \in BOOLEAN, OtherGit(stays), UNCHANGED <<phase, call, calls>>,
         RepositoryOK',
         \A b \in Branches : refs[b] # Absent => refs'[b] # Absent,
         stays => head' = head /\ Ancestors[HeadCommit] \subseteq Ancestors[HeadCommit']
  PROVE  IInv'
<1>1. result' \in Results /\ calls' \in 0..MaxCalls /\ outside' \in 0..MaxOutside
  BY DEF OtherGit, FromOutside, IInv, TypeOK, NoResult, Results, Outcomes
<1>2. /\ CallOK' /\ untouched'.head = untouched.head /\ untouched'.refs = untouched.refs
      /\ phase # "idle" => untouched'.alone = FALSE
      /\ phase # "idle" => untouched'.stayed = (untouched.stayed /\ stays)
  <2>1. CASE phase = "idle"
    BY <2>1 DEF OtherGit, IInv, TypeOK, CallOK
  <2>2. CASE phase # "idle"
    <3>1. untouched \in Histories /\ (untouched.stayed /\ stays) \in BOOLEAN
      BY DEF IInv, TypeOK, CallOK, Histories
    <3>2. untouched' = [untouched EXCEPT !.alone = FALSE, !.stayed = untouched.stayed /\ stays]
      BY <2>2 DEF OtherGit
    <3>3. /\ untouched' \in Histories
          /\ untouched'.head = untouched.head /\ untouched'.refs = untouched.refs
          /\ untouched'.alone = FALSE
          /\ untouched'.stayed = (untouched.stayed /\ stays)
      BY <3>1, <3>2 DEF Histories
    <3>4. untouched'.head \in Branches \union Commits
      BY <2>2, <3>3 DEF IInv, PhaseHasItsCall
    <3>5. untouched' # Nothing /\ call # NoCall
      BY <2>2, <3>4 DEF Nothing, IInv, TypeOK, CallOK
    <3>6. CallOK'
      BY <2>2, <3>3, <3>5 DEF IInv, TypeOK, CallOK
    <3> QED
      BY <2>2, <3>3, <3>6
  <2> QED
    BY <2>1, <2>2
<1>3. phase = "idle" => call.kind = "none"
  BY DEF IInv, TypeOK, CallOK, NoCall
<1>4. PhaseHasItsCall'
  BY <1>2 DEF IInv, PhaseHasItsCall
<1>5. OldIsBehind'
  BY <1>2, <1>3 DEF IInv, OldIsBehind
<1>6. NothingWritten' /\ FoundIsCurrent' /\ RestIsOwn'
  <2>1. phase = "idle" => untouched' = untouched
    BY DEF OtherGit
  <2> QED
    BY <1>2, <1>3, <2>1 DEF IInv, NothingWritten, FoundIsCurrent, RestIsOwn
<1> QED
  BY <1>1, <1>2, <1>4, <1>5, <1>6 DEF IInv, TypeOK

\* What git writes over the worktree has its type.
LEMMA GitWritesTypes ==
  ASSUME RepositoryOK, NEW c \in Commits, NEW force \in BOOLEAN, GitWrites(Tree[c], force)
  PROVE  wt' \in Files /\ index' \in Files
<1>1. PICK written \in SUBSET Paths : written = Written(Tree[c], force)
  BY DEF Written
<1>2. WriteTree(Tree[c], written) /\ WriteIndex(Tree[c], written)
  BY <1>1 DEF GitWrites
<1> QED
  BY <1>2, WriteTypes

\* A fast-forward in a terminal ends what the call could say of an undisturbed
\* repository, and moves a branch forward only.
LEMMA TerminalPullsStep ==
  ASSUME IInv, NEW c \in Commits, TerminalPulls(c)
  PROVE  IInv'
<1>1. RepositoryOK
  BY DEF IInv, TypeOK
<1>2. wt' \in Files /\ index' \in Files
  BY <1>1, GitWritesTypes DEF TerminalPulls
<1>3. /\ refs' \in Refs
      /\ \A b \in Branches : refs'[b] = IF b = head THEN c ELSE refs[b]
  BY <1>1 DEF TerminalPulls, RepositoryOK, Refs
<1>4. RepositoryOK'
  BY <1>1, <1>2, <1>3 DEF TerminalPulls, RepositoryOK, Attached
<1>5. /\ head' = head
      /\ HeadCommit \in Ancestors[c] /\ HeadCommit' = c
  BY <1>3 DEF TerminalPulls, StrictForward, Attached, HeadCommit
<1>6. Ancestors[HeadCommit] \subseteq Ancestors[HeadCommit']
  BY <1>5
<1>7. \A b \in Branches : refs[b] # Absent => refs'[b] # Absent
  BY <1>3
<1> QED
  BY <1>4, <1>5, <1>6, <1>7, OtherGitStep DEF TerminalPulls

\* A switch in a terminal leaves HEAD at a branch that is there, or at a commit.
LEMMA TerminalSwitchesStep ==
  ASSUME IInv, NEW to \in Branches \union Commits, TerminalSwitches(to)
  PROVE  IInv'
<1>1. RepositoryOK
  BY DEF IInv, TypeOK
<1>2. PICK c \in Commits : GitWrites(Tree[c], FALSE)
  BY <1>1 DEF TerminalSwitches, RepositoryOK, Refs
<1>3. wt' \in Files /\ index' \in Files
  BY <1>1, <1>2, GitWritesTypes
<1>4. RepositoryOK'
  BY <1>1, <1>3 DEF TerminalSwitches, RepositoryOK, Attached
<1> QED
  BY <1>4, OtherGitStep DEF TerminalSwitches

\* A reset in a terminal leaves HEAD's branch, or HEAD, at a commit.
LEMMA TerminalResetsStep ==
  ASSUME IInv, NEW c \in Commits, TerminalResets(c)
  PROVE  IInv'
<1>1. RepositoryOK
  BY DEF IInv, TypeOK
<1>2. wt' \in Files /\ index' \in Files
  <2>1. CASE GitWrites(Tree[c], TRUE)
    BY <1>1, <2>1, GitWritesTypes
  <2> QED
    BY <1>1, <2>1 DEF TerminalResets, RepositoryOK
<1>3. /\ refs' \in Refs /\ head' \in Branches \union Commits
      /\ head' \in Branches => head' = head
      /\ \A b \in Branches : refs[b] # Absent => refs'[b] # Absent
  BY <1>1 DEF TerminalResets, RepositoryOK, Refs, Attached
<1>4. RepositoryOK'
  BY <1>1, <1>2, <1>3 DEF TerminalResets, RepositoryOK, Attached
<1> QED
  BY <1>3, <1>4, OtherGitStep DEF TerminalResets

\* Another worktree may move this one's branch too, having forced its way onto
\* it, and back only by a reset.
LEMMA OtherWorktreeStep ==
  ASSUME IInv, NEW b \in Branches,
         \/ OtherTakes(b) \/ OtherLeaves(b)
         \/ \E c \in Commits : OtherCommits(b, c) \/ OtherResets(b, c)
  PROVE  IInv'
<1>1. CASE OtherTakes(b) \/ OtherLeaves(b)
  <2>1. /\ OtherGit(TRUE) /\ UNCHANGED <<head, refs, index, wt, phase, call, calls>>
        /\ elsewhere' \subseteq elsewhere \union {b}
    BY <1>1 DEF OtherTakes, OtherLeaves, repository
  <2>2. RepositoryOK' /\ HeadCommit' = HeadCommit
    BY <2>1 DEF IInv, TypeOK, RepositoryOK, Attached, HeadCommit
  <2> QED
    BY <2>1, <2>2, OtherGitStep
<1>2. ASSUME NEW c \in Commits, OtherCommits(b, c) \/ OtherResets(b, c)
      PROVE  IInv'
  <2>1. /\ refs' \in Refs
        /\ \A x \in Branches : refs'[x] = IF x = b THEN c ELSE refs[x]
    <3>1. refs \in Refs /\ refs' = [refs EXCEPT ![b] = c]
      BY <1>2 DEF OtherCommits, OtherResets, IInv, TypeOK, RepositoryOK
    <3> QED
      BY <3>1 DEF Refs
  <2>2. RepositoryOK'
    <3>1. UNCHANGED <<head, index, wt, elsewhere>>
      BY <1>2 DEF OtherCommits, OtherResets
    <3> QED
      BY <2>1, <3>1 DEF IInv, TypeOK, RepositoryOK, Attached
  <2>3. \A x \in Branches : refs[x] # Absent => refs'[x] # Absent
    BY <2>1
  <2>4. HeadCommit \in Commits
    BY HeadIsACommit DEF IInv, TypeOK
  <2>5. CASE OtherCommits(b, c)
    <3>1. head' = head /\ Ancestors[HeadCommit] \subseteq Ancestors[HeadCommit']
      BY <2>1, <2>4, <2>5 DEF OtherCommits, HeadCommit, Attached
    <3> QED
      BY <2>2, <2>3, <2>5, <3>1, OtherGitStep DEF OtherCommits
  <2>6. CASE OtherResets(b, c)
    <3>1. head' = head /\ (b # head => HeadCommit' = HeadCommit)
      BY <2>1, <2>6 DEF OtherResets, HeadCommit, Attached
    <3> QED
      BY <2>2, <2>3, <2>6, <3>1, OtherGitStep DEF OtherResets
  <2> QED
    BY <1>2, <2>5, <2>6
<1> QED
  BY <1>1, <1>2

-----------------------------------------------------------------------------
\* At first no call runs.
LEMMA InvariantInit == Init => IInv
<1> SUFFICES ASSUME Init
             PROVE  IInv
  OBVIOUS
<1>1. /\ head \in Branches \union Commits /\ refs \in Refs
      /\ Attached => refs[head] # Absent
  BY DEF Init, Refs, Attached
<1>2. HeadTree \in Files
  BY <1>1 DEF HeadTree, HeadCommit, Attached, Refs, Files
<1>3. RepositoryOK
  BY <1>1, <1>2 DEF Init, RepositoryOK
<1>4. CallOK /\ call.kind = "none" /\ untouched.stayed = TRUE
  BY NoCallOK DEF Init, CallOK, Phases, NoCall, Nothing
<1>5. result \in Results
  BY DEF Init, NoResult, Results, Outcomes
<1> QED
  BY <1>3, <1>4, <1>5
  DEF Init, IInv, TypeOK, PhaseHasItsCall, OldIsBehind, NothingWritten, FoundIsCurrent, RestIsOwn

\* Every step keeps the invariant.
LEMMA InvariantStep == IInv /\ [Next]_vars => IInv'
<1> SUFFICES ASSUME IInv, [Next]_vars
             PROVE  IInv'
  OBVIOUS
<1>1. CASE Steps
  BY <1>1, RefusingStep, TreeRefusesStep, FindBranchStep, ForwardAnalyseStep, CheckoutTreeStep,
     TreeInterruptedStep, SetHeadStep, SetTargetStep, SettleStep, DeleteChecksStep,
     DeleteBranchStep
  DEF Steps
<1>2. CASE Outside
  BY <1>2, EditorStep, TerminalPullsStep, TerminalSwitchesStep, TerminalResetsStep,
     OtherWorktreeStep DEF Outside
<1>3. CASE UNCHANGED vars
  BY <1>3
  DEF vars, IInv, TypeOK, RepositoryOK, CallOK, Attached, HeadCommit, OldCommit, HeldElsewhere,
      PhaseHasItsCall, OldIsBehind, NothingWritten, FoundIsCurrent, RestIsOwn
<1> QED
  BY <1>1, <1>2, <1>3, CallStep, RefusingStep DEF Next

\* The inductive invariant of checkout, fast-forward, create and delete.
THEOREM CheckoutInvariant == Spec => []IInv
BY InvariantInit, InvariantStep, PTL DEF Spec

\* The state keeps its types, HEAD names no branch that is gone, and nothing a
\* call has read outlives it.
THEOREM TypeCorrect == Spec => []TypeOK
<1>1. IInv => TypeOK
  BY DEF IInv
<1> QED
  BY <1>1, CheckoutInvariant, PTL

-----------------------------------------------------------------------------
\* A step from outside is counted, and ends no call.
LEMMA OutsideCounts ==
  ASSUME Outside
  PROVE  outside' = outside + 1 /\ phase' = phase
<1> USE DEF OtherGit, FromOutside
<1>1. CASE \E p \in Paths : Stage(p) \/ \E content \in File : Edit(p, content)
  BY <1>1 DEF Stage, Edit
<1>2. CASE \E c \in Commits : TerminalPulls(c) \/ TerminalResets(c)
  BY <1>2 DEF TerminalPulls, TerminalResets
<1>3. CASE \E to \in Branches \union Commits : TerminalSwitches(to)
  BY <1>3 DEF TerminalSwitches
<1>4. CASE \E b \in Branches :
             \/ OtherTakes(b) \/ OtherLeaves(b)
             \/ \E c \in Commits : OtherCommits(b, c) \/ OtherResets(b, c)
  BY <1>4 DEF OtherTakes, OtherLeaves, OtherCommits, OtherResets
<1> QED
  BY <1>1, <1>2, <1>3, <1>4 DEF Outside

\* Which steps of a running call write files, move HEAD, or move a branch.
LEMMA WritingSteps ==
  ASSUME IInv, [Next]_vars, phase # "idle", outside' = outside
  PROVE  /\ wt' # wt => CheckoutTree \/ TreeInterrupted \/ Settle
         /\ refs' # refs => SetTarget \/ DeleteBranch
<1>0. outside \in Nat
  BY DEF IInv, TypeOK
<1>1. CASE Calls
  BY <1>1 DEF Calls, CreateExists, CreateBranch, CheckoutCall, DeleteRefuses, DeleteCall,
              ForwardDetached, ForwardCall, Begin, Refuse, repository
<1>2. CASE Steps
  BY <1>2 DEF Steps, FindRefuses, FindBranch, TreeRefuses, SetHead, SetHeadRefused,
              ForwardAnalyse, ForwardRefuses, SetTargetRefused, DeleteChecks, DeleteUnmerged,
              DeleteFails, Refuse, repository, CheckoutTree, TreeInterrupted, Settle, SetTarget, DeleteBranch
<1>3. CASE Crash
  BY <1>3 DEF Crash, Refuse, repository
<1>4. CASE Outside
  BY <1>0, <1>4, OutsideCounts
<1>5. CASE UNCHANGED vars
  BY <1>5 DEF vars
<1> QED
  BY <1>1, <1>2, <1>3, <1>4, <1>5 DEF Next

\* The library moves HEAD in one step only, the set_head of a checkout.
LEMMA HeadSteps ==
  ASSUME IInv, [Next]_vars, outside' = outside, head' # head
  PROVE  SetHead
<1>1. CASE Calls
  BY <1>1 DEF Calls, CreateExists, CreateBranch, CheckoutCall, DeleteRefuses, DeleteCall,
              ForwardDetached, ForwardCall, Refuse, repository
<1>2. CASE Steps
  BY <1>2 DEF Steps, FindRefuses, FindBranch, CheckoutTree, TreeInterrupted, TreeRefuses,
              SetHeadRefused, Settle, ForwardAnalyse, ForwardRefuses, SetTarget,
              SetTargetRefused, DeleteChecks, DeleteUnmerged, DeleteBranch, DeleteFails, Refuse, repository
<1>3. CASE Crash
  BY <1>3 DEF Crash, Refuse, repository
<1>4. CASE Outside
  <2>1. outside \in Nat
    BY DEF IInv, TypeOK
  <2> QED
    BY <1>4, <2>1, OutsideCounts
<1>5. CASE UNCHANGED vars
  BY <1>5 DEF vars
<1> QED
  BY <1>1, <1>2, <1>3, <1>4, <1>5 DEF Next

\* A safe call never writes a file that holds anything but what HEAD has there
\* at that moment.
THEOREM SafeCallsSpare == Spec => UncommittedWorkSurvives
<1> DEFINE Spares == phase # "idle" /\ ~call.force /\ outside' = outside
     => \A p \in Paths : wt'[p] # wt[p] => wt[p] = HeadTree[p]
<1>1. IInv /\ [Next]_vars => Spares
  <2> SUFFICES ASSUME IInv, [Next]_vars, phase # "idle", ~call.force, outside' = outside,
                      NEW p \in Paths, wt'[p] # wt[p]
               PROVE  wt[p] = HeadTree[p]
    OBVIOUS
  <2>1. RepositoryOK /\ HeadCommit \in Commits
    BY HeadIsACommit DEF IInv, TypeOK
  \* What a safe checkout writes, the target has differently, and it is in no
  \* one's way.
  <2>2. ASSUME call.target \in Commits, Conflicting(Tree[call.target]) = {},
               NEW written \in SUBSET Written(Tree[call.target], FALSE),
               WriteTree(Tree[call.target], written)
        PROVE  wt[p] = HeadTree[p]
    <3>1. wt'[p] = IF p \in written THEN Tree[call.target][p] ELSE wt[p]
      BY <2>1, <2>2, WriteTypes DEF Written
    <3> QED
      BY <2>2, <3>1 DEF Conflicting, Written
  <2>3. CASE CheckoutTree \/ TreeInterrupted
    <3>1. call.target \in Commits /\ call.force = FALSE
      BY <2>3 DEF CheckoutTree, TreeInterrupted, IInv, PhaseHasItsCall, TypeOK, CallOK, Arguments
    <3> QED
      BY <2>2, <2>3, <3>1 DEF CheckoutTree, TreeInterrupted
  <2>4. CASE Settle
    <3>1. call.force = FALSE
      BY DEF IInv, TypeOK, CallOK, Arguments
    <3>2. Written(HeadTree, FALSE) = {}
      BY DEF Written
    <3>3. WriteTree(HeadTree, {})
      BY <2>4, <3>1, <3>2 DEF Settle
    <3> QED
      BY <3>3 DEF WriteTree
  <2> QED
    BY <2>3, <2>4, WritingSteps
<1> QED
  BY <1>1, CheckoutInvariant, PTL DEF Spec, UncommittedWorkSurvives

\* No checkout takes a branch that another worktree has: where libgit2 does not
\* look (from a detached HEAD), the check made before still holds.
THEOREM BranchesTakenAreFree == Spec => OnlyFreeBranchesAreTaken
<1> DEFINE Free == untouched.alone /\ outside' = outside /\ head' # head => head' \notin elsewhere
<1>1. IInv /\ [Next]_vars => Free
  <2> SUFFICES ASSUME IInv, [Next]_vars, untouched.alone, outside' = outside, head' # head
               PROVE  head' \notin elsewhere
    OBVIOUS
  <2>1. SetHead
    BY HeadSteps
  <2>2. ~HeldElsewhere(call.branch)
    BY <2>1 DEF SetHead, IInv, FoundIsCurrent
  <2> QED
    BY <2>1, <2>2 DEF SetHead, HeldElsewhere
<1> QED
  BY <1>1, CheckoutInvariant, PTL DEF Spec, OnlyFreeBranchesAreTaken

\* A running call returns in a step of its own.
LEMMA ReturningSteps ==
  ASSUME IInv, [Next]_vars, Returns
  PROVE  /\ \/ /\ Steps
               /\ ~FindBranch /\ ~ForwardAnalyse /\ ~CheckoutTree /\ ~SetTarget /\ ~DeleteChecks
            \/ Crash
         /\ outside' = outside
<1> USE DEF Returns
<1>1. ~Calls
  BY DEF Calls, CreateExists, CreateBranch, CheckoutCall, DeleteRefuses, DeleteCall,
         ForwardDetached, ForwardCall, Begin
<1>2. ~Outside
  BY OutsideCounts
<1>3. ~UNCHANGED vars
  BY DEF vars
<1>4. ~FindBranch /\ ~ForwardAnalyse /\ ~CheckoutTree /\ ~SetTarget /\ ~DeleteChecks
  BY DEF FindBranch, ForwardAnalyse, CheckoutTree, SetTarget, DeleteChecks
<1>5. Steps \/ Crash
  BY <1>1, <1>2, <1>3 DEF Next
<1>6. Crash => outside' = outside
  BY DEF Crash, Refuse
<1>7. Steps => outside' = outside
  BY DEF Steps, FindRefuses, FindBranch, CheckoutTree, TreeInterrupted, TreeRefuses, SetHead,
         SetHeadRefused, Settle, ForwardAnalyse, ForwardRefuses, SetTarget, SetTargetRefused,
         DeleteChecks, DeleteUnmerged, DeleteBranch, DeleteFails, Refuse
<1> QED
  BY <1>4, <1>5, <1>6, <1>7

\* A fast-forward moves its branch to a descendant of the commit it is at, also
\* when git in a terminal has moved it since: no commit drops off the branch
\* unless this worktree's HEAD was switched or reset.
THEOREM ForwardAdvances == Spec => ForwardOnlyAdvances
<1> DEFINE Advances ==
     call.kind = "forward" /\ untouched.stayed /\ outside' = outside => BranchesAdvance
<1>1. IInv /\ [Next]_vars => Advances
  <2> SUFFICES ASSUME IInv, [Next]_vars, call.kind = "forward", untouched.stayed,
                      outside' = outside, NEW b \in Branches, refs'[b] # refs[b]
               PROVE  refs[b] \in Ancestors[refs'[b]]
    BY DEF BranchesAdvance
  <2>1. phase # "idle" /\ phase # "delete"
    BY DEF IInv, TypeOK, CallOK, PhaseHasItsCall, NoCall
  <2>2. SetTarget
    BY <2>1, WritingSteps DEF DeleteBranch
  <2>3. call.old \in Ancestors[call.target]
    BY <2>2 DEF SetTarget, IInv, OldIsBehind
  <2>4. refs \in Refs
    BY DEF IInv, TypeOK, RepositoryOK
  <2> QED
    BY <2>2, <2>3, <2>4 DEF SetTarget, Refs
<1> QED
  BY <1>1, CheckoutInvariant, PTL DEF Spec, ForwardOnlyAdvances

\* An unforced delete takes no commit out of reach, if HEAD stayed where it was
\* checked: what the branch pointed at then is still behind HEAD when it goes.
\* And never one that has come to the branch since: it goes at the commit it
\* was read at or not at all.
THEOREM DeleteLosesNothing == Spec => UnforcedDeleteLosesNothing
<1> DEFINE Lost == Reachable(Tips) \ Reachable(Tips')
           Kept == call.kind = "delete" /\ ~call.force /\ Returns =>
                     /\ untouched.stayed => Lost = {}
                     /\ Lost \subseteq Ancestors[untouched.refs[call.branch]]
<1>1. IInv /\ [Next]_vars => Kept
  <2> SUFFICES ASSUME IInv, [Next]_vars, call.kind = "delete", ~call.force, Returns
               PROVE  /\ untouched.stayed => Lost = {}
                      /\ Lost \subseteq Ancestors[untouched.refs[call.branch]]
    OBVIOUS
  <2>1. RepositoryOK /\ HeadCommit \in Commits
    BY HeadIsACommit DEF IInv, TypeOK
  <2>2. outside' = outside
    BY ReturningSteps
  <2>3. CASE refs' = refs
    <3>1. head' = head
      BY <2>2, HeadSteps DEF SetHead
    <3>2. Tips' = Tips
      BY <2>3, <3>1 DEF Tips, HeadCommit, Attached
    <3> QED
      BY <3>2 DEF Reachable
  <2>4. CASE refs' # refs
    <3>1. DeleteBranch
      BY <2>2, <2>4, WritingSteps DEF Returns, SetTarget
    <3>2. PICK b \in Branches : b = call.branch
      BY DEF Returns, IInv, PhaseHasItsCall
    <3>3. /\ b # head /\ head' = head /\ refs[b] = call.old
          /\ \A x \in Branches : refs'[x] = IF x = b THEN Absent ELSE refs[x]
      BY <2>1, <3>1, <3>2 DEF DeleteBranch, RepositoryOK, Refs
    <3>4. HeadCommit' = HeadCommit
      BY <3>3 DEF HeadCommit, Attached
    <3>5. refs[b] = untouched.refs[call.branch]
      BY <3>3 DEF IInv, PhaseHasItsCall
    <3>6. untouched.stayed => refs[b] \in Ancestors[HeadCommit]
      BY <3>1, <3>3 DEF IInv, OldIsBehind, DeleteBranch
    <3>7. /\ Tips' = {HeadCommit} \union {refs[x] : x \in {y \in Branches \ {b} : refs[y] # Absent}}
          /\ HeadCommit \in Tips'
      BY <3>3, <3>4 DEF Tips
    <3>8. \A c \in Tips : c \in Tips' \/ c = refs[b]
      BY <3>7 DEF Tips
    <3>9. Lost \subseteq Ancestors[refs[b]]
      BY <3>8 DEF Reachable
    <3>10. refs[b] \in Ancestors[HeadCommit] => Ancestors[refs[b]] \subseteq Reachable(Tips')
      BY <2>1, <3>7 DEF Reachable
    <3> QED
      BY <3>5, <3>6, <3>9, <3>10
  <2> QED
    BY <2>3, <2>4
<1> QED
  BY <1>1, CheckoutInvariant, PTL DEF Spec, UnforcedDeleteLosesNothing

\* A checkout, a fast-forward or a delete that is refused, at whichever step,
\* leaves the repository as it would be without it.
THEOREM RefusalsTouchNothing == Spec => RefusalTouchesNothing
<1> DEFINE Untouched ==
     /\ Returns /\ untouched.alone /\ call.kind \in {"checkout", "forward", "delete"}
     /\ result'.outcome \in Refusals \union {"git_error"}
     => repository' = <<untouched.head, untouched.refs, untouched.index, untouched.wt>>
<1>1. IInv /\ [Next]_vars => Untouched
  <2> SUFFICES ASSUME IInv, [Next]_vars, Returns, untouched.alone,
                      call.kind \in {"checkout", "forward", "delete"},
                      result'.outcome \in Refusals \union {"git_error"}
               PROVE  repository' = <<untouched.head, untouched.refs, untouched.index, untouched.wt>>
    OBVIOUS
  \* A refusal before the first write is that,
  <2>1. ASSUME phase \in {"find", "tree", "delete"}, UNCHANGED repository
        PROVE  repository' = <<untouched.head, untouched.refs, untouched.index, untouched.wt>>
    BY <2>1 DEF repository, IInv, NothingWritten
  <2>2. CASE FindRefuses \/ ForwardRefuses \/ DeleteUnmerged \/ DeleteFails \/ TreeRefuses
    BY <2>1, <2>2 DEF FindRefuses, ForwardRefuses, DeleteUnmerged, DeleteFails, TreeRefuses, Refuse
  \* and after it nothing is left to refuse, if no other git is at work.
  <2>3. ~SetHeadRefused /\ ~SetTargetRefused
    BY DEF SetHeadRefused, SetTargetRefused, IInv, FoundIsCurrent
  <2>4. ~Crash
    BY DEF Crash, Refuse, Return, Refusals
  <2>5. ~TreeInterrupted /\ ~Settle /\ ~DeleteBranch
    BY DEF TreeInterrupted, Settle, DeleteBranch, Return, Refusals
  <2>6. ~SetHead
    BY DEF SetHead, Return, Returns, Refusals
  <2> QED
    BY <2>2, <2>3, <2>4, <2>5, <2>6, ReturningSteps DEF Steps
<1> QED
  BY <1>1, CheckoutInvariant, PTL DEF Spec, RefusalTouchesNothing

\* A checkout or a fast-forward that succeeds has put HEAD and branch where they
\* were asked to be, and what differs from the target is the writer's own.
THEOREM OwnChangesAreCarried == Spec => OnlyOwnChangesAreCarried
<1> DEFINE Carried ==
     /\ Returns /\ untouched.alone /\ result'.outcome = "ok"
     /\ call.kind \in {"checkout", "create", "forward"}
     => /\ head' = call.branch
        /\ refs'[call.branch] = call.target
        /\ \A p \in Paths \ untouched.edited :
             wt'[p] # Tree[call.target][p]
               => wt'[p] = untouched.wt[p] /\ wt'[p] # Tree[OldCommit][p]
<1>1. IInv /\ [Next]_vars => Carried
  <2> SUFFICES ASSUME IInv, [Next]_vars, Returns, untouched.alone, result'.outcome = "ok",
                      call.kind \in {"checkout", "create", "forward"}
               PROVE  /\ head' = call.branch
                      /\ refs'[call.branch] = call.target
                      /\ \A p \in Paths \ untouched.edited :
                           wt'[p] # Tree[call.target][p]
                             => wt'[p] = untouched.wt[p] /\ wt'[p] # Tree[OldCommit][p]
    OBVIOUS
  \* A forced checkout is done when HEAD has moved,
  <2>1. CASE SetHead
    BY <2>1 DEF SetHead, IInv, FoundIsCurrent, RestIsOwn
  \* the others when HEAD's tree has been checked out once more.
  <2>2. CASE Settle
    <3>1. head = call.branch /\ refs[call.branch] = call.target /\ call.branch \in Branches
      BY <2>2 DEF Settle, IInv, FoundIsCurrent, PhaseHasItsCall
    <3>2. HeadTree = Tree[call.target]
      BY <3>1 DEF HeadTree, HeadCommit, Attached
    <3>3. head' = head /\ refs' = refs
      BY <2>2 DEF Settle
    <3>4. PICK written : WriteTree(Tree[call.target], written)
      BY <2>2, <3>2 DEF Settle
    <3>5. \A p \in Paths : wt'[p] \in {Tree[call.target][p], wt[p]}
      BY <3>4 DEF WriteTree
    <3>6. \A p \in Paths \ untouched.edited :
           wt[p] # Tree[call.target][p] => wt[p] = untouched.wt[p] /\ wt[p] # Tree[OldCommit][p]
      BY <2>2 DEF Settle, IInv, RestIsOwn
    <3> QED
      BY <3>1, <3>3, <3>5, <3>6
  <2>3. ~TreeRefuses
    BY DEF TreeRefuses, Refusal, Return
  <2>4. /\ ~FindRefuses /\ ~ForwardRefuses /\ ~DeleteUnmerged /\ ~DeleteFails
        /\ ~SetHeadRefused /\ ~SetTargetRefused /\ ~Crash /\ ~TreeInterrupted
    BY DEF FindRefuses, ForwardRefuses, DeleteUnmerged, DeleteFails, SetHeadRefused,
           SetTargetRefused, Crash, TreeInterrupted, Refuse, Return
  <2>5. ~DeleteBranch
    BY DEF DeleteBranch, IInv, PhaseHasItsCall
  <2> QED
    BY <2>1, <2>2, <2>3, <2>4, <2>5, ReturningSteps DEF Steps
<1> QED
  BY <1>1, CheckoutInvariant, PTL DEF Spec, OnlyOwnChangesAreCarried
=============================================================================
