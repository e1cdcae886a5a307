----------------------------- MODULE UpkeepProofs -----------------------------
(***************************************************************************)
(* Proofs about Upkeep, and the status of module Status that it runs       *)
(* beside: the state is well typed, a status misses no path that was       *)
(* changed all through the call, a repair, a configuration or a removal of *)
(* remotes that reports success has done its work, and a tag moves only by *)
(* force, for any paths, contents, keys, remotes and tags.                 *)
(***************************************************************************)
EXTENDS Upkeep, FiniteSetTheorems, TLAPS

USE StatusAssumption, UpkeepAssumption

-----------------------------------------------------------------------------
(***************************************************************************)
(* Status.                                                                 *)
(***************************************************************************)

\* Two versions of a path differ in one of the known ways.
LEMMA DifferKnown == \A a, b : Differ(a, b) \in Differences
BY DEF Differ, Differences

\* What repo.statuses() says of a path is well typed.
LEMMA FlagsKnown == \A p : Flags(p) \in [inIndex : Differences, inTree : Differences]
<1>1. "same" \in Differences
  BY DEF Differences
<1> QED
  BY <1>1, DifferKnown DEF Flags

\* Two versions of a path that differ, neither conflicted nor a link beside a
\* file, differ in a way that has a list.
LEMMA DifferListed ==
  ASSUME NEW a, NEW b, a # b, a # Unmerged, b # Unmerged,
         a # Absent /\ b # Absent => (a \in Links <=> b \in Links)
  PROVE  Differ(a, b) \in {"new", "modified", "deleted"}
BY DEF Differ

\* A path that has changed carries such a flag.
LEMMA ChangedIsFlagged ==
  ASSUME StatusOK, NEW p \in Paths, HasChanged(head, index, wt, p)
  PROVE  \/ Flags(p).inIndex \in {"new", "modified", "deleted"}
         \/ Flags(p).inTree \in {"new", "modified", "deleted"}
<1>1. /\ head[p] # Unmerged /\ wt[p] # Unmerged
  BY DEF StatusOK, File
<1>2. index[p] # Unmerged
  BY DEF HasChanged
<1>3. \A a, b \in {head[p], index[p], wt[p]} : a # Absent /\ b # Absent => (a \in Links <=> b \in Links)
  BY DEF HasChanged
<1>4. CASE head[p] # index[p]
  <2>1. Differ(head[p], index[p]) \in {"new", "modified", "deleted"}
    BY <1>1, <1>2, <1>3, <1>4, DifferListed
  <2> QED
    BY <2>1 DEF Flags
<1>5. CASE head[p] = index[p]
  <2>1. index[p] # wt[p]
    BY <1>5 DEF HasChanged
  <2>2. Differ(index[p], wt[p]) \in {"new", "modified", "deleted"}
    BY <1>1, <1>2, <1>3, <2>1, DifferListed
  <2>3. ~(p \in Ignored /\ index[p] = Absent)
    BY <1>5 DEF HasChanged
  <2> QED
    BY <2>2, <2>3 DEF Flags
<1> QED
  BY <1>4, <1>5

\* The first scan of a status keeps the invariant.
LEMMA StatusesStep ==
  ASSUME StatusOK, SteadyIsFlagged, Statuses
  PROVE  StatusOK' /\ SteadyIsFlagged'
<1>1. flags' \in [Paths -> [inIndex : Differences, inTree : Differences]]
  BY FlagsKnown DEF Statuses
<1>2. StatusOK'
  BY <1>1 DEF StatusOK, Statuses, trees, Changed
<1>3. ASSUME NEW p \in steady'
      PROVE  \/ flags'[p].inIndex \in {"new", "modified", "deleted"}
             \/ flags'[p].inTree \in {"new", "modified", "deleted"}
  <2>1. p \in Paths /\ HasChanged(head, index, wt, p)
    BY <1>3 DEF Statuses, Changed
  <2>2. flags'[p] = Flags(p)
    BY <2>1 DEF Statuses
  <2> QED
    BY <2>1, <2>2, ChangedIsFlagged
<1>4. SteadyIsFlagged'
  BY <1>3 DEF SteadyIsFlagged
<1> QED
  BY <1>2, <1>4

\* What a rename detection finds is well typed.
LEMMA NamedKnown ==
  ASSUME NEW from, NEW to, NEW M \in Matchings(from, to), NEW staged \in BOOLEAN
  PROVE  Named(M, staged) \subseteq Renames
<1>1. M \subseteq Paths \X Paths
  BY DEF Matchings, Pairs
<1> QED
  BY <1>1 DEF Named, Renames

\* The two scans for renames keep the invariant.
LEMMA RenamesStep ==
  ASSUME StatusOK, SteadyIsFlagged, StagedRenames \/ FullRenames
  PROVE  StatusOK' /\ SteadyIsFlagged'
<1>1. renames' \subseteq Renames
  <2>1. CASE StagedRenames
    BY <2>1, NamedKnown DEF StagedRenames
  <2>2. CASE FullRenames
    <3>1. PICK M \in Matchings(head, Tracked) :
            renames' = renames
              \union {r \in Named(M, FALSE) : ~\E o \in renames : o.from = r.from /\ o.to = r.to}
      BY <2>2 DEF FullRenames
    <3>2. Named(M, FALSE) \subseteq Renames
      BY NamedKnown
    <3> QED
      BY <3>1, <3>2 DEF StatusOK
  <2> QED
    BY <2>1, <2>2
<1>2. UNCHANGED <<trees, flags, answer, steady, quiet, outside>> /\ scan' \in {"staged", "full"}
  BY DEF StagedRenames, FullRenames
<1> QED
  BY <1>1, <1>2 DEF StatusOK, SteadyIsFlagged, trees

\* The lists of an answer are sets of paths.
LEMMA ListsKnown ==
  ASSUME StatusOK, Answer
  PROVE  answer' \in Lists
<1>1. /\ ModifiedFiles \subseteq Paths /\ GoneFiles \subseteq Paths /\ AddedFiles \subseteq Paths
      /\ UntrackedFiles \subseteq Paths /\ StagedFiles \subseteq Paths
  BY DEF StatusOK, Renames, ModifiedFiles, GoneFiles, AddedFiles, UntrackedFiles, StagedFiles,
         InIndex, InTree, To
<1> DEFINE clean == renames = {}
                      /\ ModifiedFiles \union GoneFiles \union AddedFiles
                         \union UntrackedFiles \union StagedFiles = {}
<1>2. clean \in BOOLEAN
  OBVIOUS
<1>3. answer' = [kind |-> "status", modified |-> ModifiedFiles, deleted |-> GoneFiles,
                 added |-> AddedFiles, untracked |-> UntrackedFiles,
                 staged |-> StagedFiles, renamed |-> renames, clean |-> clean]
  BY DEF Answer
<1> HIDE DEF clean
<1> QED
  BY <1>1, <1>2, <1>3 DEF StatusOK, Lists

\* An answer ends the call.
LEMMA AnswerStep ==
  ASSUME StatusOK, SteadyIsFlagged, Answer
  PROVE  StatusOK' /\ SteadyIsFlagged'
<1>1. answer' \in Lists
  BY ListsKnown
<1>2. NoFlags \in [Paths -> [inIndex : Differences, inTree : Differences]]
  BY DEF NoFlags, Unchanged, Differences
<1> QED
  BY <1>1, <1>2 DEF StatusOK, SteadyIsFlagged, Answer, trees

\* Trees that move take paths from those that were changed all through.
LEMMA MovedStep ==
  ASSUME StatusOK, SteadyIsFlagged,
         NEW tree \in [Paths -> File], NEW staged \in [Paths -> Entry], NEW disk \in [Paths -> File],
         Moved(tree, staged, disk)
  PROVE  StatusOK' /\ SteadyIsFlagged'
<1>1. outside' \in 0..MaxOutside
  BY DEF StatusOK, Moved
<1>2. steady' \subseteq steady /\ UNCHANGED flags
  BY DEF Moved
<1>3. SteadyIsFlagged'
  BY <1>2 DEF SteadyIsFlagged
<1> QED
  BY <1>1, <1>2, <1>3 DEF StatusOK, Moved

\* An editor and git in a terminal keep the invariant.
LEMMA TreesStep ==
  ASSUME StatusOK, SteadyIsFlagged, Edits \/ TerminalSteps
  PROVE  StatusOK' /\ SteadyIsFlagged'
<1>1. /\ head \in [Paths -> File] /\ index \in [Paths -> Entry] /\ wt \in [Paths -> File]
      /\ File \subseteq Entry /\ Unmerged \in Entry /\ Absent \in Entry
  BY DEF StatusOK, File, Entry
<1>2. CASE Edits
  <2>1. PICK p \in Paths, content \in File : Edit(p, content)
    BY <1>2 DEF Edits
  <2> QED
    BY <1>1, <2>1, MovedStep DEF Edit
<1>3. ASSUME NEW p \in Paths, TerminalAdd(p) \/ TerminalUntrack(p) \/ TerminalConflict(p)
      PROVE  StatusOK' /\ SteadyIsFlagged'
  <2>1. PICK entry \in Entry : Moved(head, [index EXCEPT ![p] = entry], wt)
    BY <1>1, <1>3 DEF TerminalAdd, TerminalUntrack, TerminalConflict
  <2>2. [index EXCEPT ![p] = entry] \in [Paths -> Entry]
    BY <1>1
  <2> QED
    BY <1>1, <2>1, <2>2, MovedStep
<1>4. CASE TerminalCommit
  <2>1. index \in [Paths -> File]
    BY <1>1, <1>4 DEF TerminalCommit, Entry
  <2> QED
    BY <1>1, <1>4, <2>1, MovedStep DEF TerminalCommit
<1> QED
  BY <1>2, <1>3, <1>4 DEF TerminalSteps

\* What an answer leaves out of one list it has in another, so that every path
\* with such a flag is mentioned, and none is if the answer is clean.
LEMMA AnswerMissesNone ==
  ASSUME StatusOK, SteadyIsFlagged, Answer
  PROVE  steady \subseteq Mentioned(answer') /\ (answer'.clean => steady = {})
<1>1. /\ answer'.modified = ModifiedFiles /\ answer'.deleted = GoneFiles
      /\ answer'.added = AddedFiles /\ answer'.untracked = UntrackedFiles
      /\ answer'.staged = StagedFiles /\ answer'.renamed = renames
      /\ answer'.clean => /\ renames = {}
                          /\ ModifiedFiles \union GoneFiles \union AddedFiles
                               \union UntrackedFiles \union StagedFiles = {}
  BY DEF Answer
<1>2. Mentioned(answer') = ModifiedFiles \union GoneFiles \union AddedFiles \union UntrackedFiles
                             \union StagedFiles \union From \union To
  BY <1>1 DEF Mentioned, From, To
<1>3. steady \subseteq InIndex({"new", "modified", "deleted"})
                         \union InTree({"new"}) \union InTree({"modified"}) \union InTree({"deleted"})
  BY DEF StatusOK, SteadyIsFlagged, InIndex, InTree
<1>4. steady \subseteq Mentioned(answer')
  BY <1>2, <1>3 DEF ModifiedFiles, GoneFiles, UntrackedFiles, StagedFiles
<1>5. answer'.clean => Mentioned(answer') = {}
  BY <1>1, <1>2 DEF From, To
<1> QED
  BY <1>4, <1>5

-----------------------------------------------------------------------------
(***************************************************************************)
(* Type correctness of the maintenance operations.                         *)
(***************************************************************************)

\* The part of TypeOK that is about the repository.
KeptOK ==
  /\ locks \in [LockFiles -> {"none", "live", "dead"}]
  /\ readable \in BOOLEAN
  /\ born \in {"commit", "unborn", "broken"}
  /\ config \in [Settings -> Values \union {Absent}]
  /\ remotes \subseteq Remotes
  /\ tags \in [TagNames -> Targets \union {Absent}]

\* And about the operation that runs.
OpOK ==
  /\ op \in {"idle"} \union ListSteps \union TagSteps
  /\ job \in Jobs
  /\ old \subseteq LockFiles \union Settings \union Remotes
  /\ result \in Codes \union {"none"}
  /\ calls \in 0..MaxCalls
  /\ JobOfStep

\* The operation's own part of IInv.
OpInv == OpOK /\ LocksAreListed /\ KeysAreListed /\ RemotesAreListed

\* IInv in three parts.
LEMMA Parts == IInv <=> StatusOK /\ SteadyIsFlagged /\ KeptOK /\ OpInv
BY DEF IInv, TypeOK, KeptOK, OpOK, OpInv

\* Nothing that IInv says of the operation depends on more than the loops' own
\* variables.
LEMMA OpUntouched ==
  ASSUME OpInv, UNCHANGED <<locks, config, remotes, op, job, old, calls>>,
         result' = "none"
  PROVE  OpInv'
BY DEF OpInv, OpOK, JobOfStep, LocksAreListed, KeysAreListed, RemotesAreListed, Left

\* There is a job for every operation to begin with.
LEMMA NoJobKnown == NoJob \in Jobs /\ NoJob.kind = "none"
<1>1. <<>> \in Seq(LockFiles \union Settings \union Remotes)
  OBVIOUS
<1>2. [k \in {} |-> Absent] \in Choices
  <2>1. [k \in {} |-> Absent] \in [{} -> Values]
    OBVIOUS
  <2> QED
    BY <2>1 DEF Choices
<1> QED
  BY <1>1, <1>2 DEF NoJob, Jobs

\* An operation that returns leaves nothing of it behind.
LEMMA ReturnStep ==
  ASSUME OpInv, NEW what \in Codes \union {"none"}, Return(what)
  PROVE  OpInv'
<1>1. op' = "idle" /\ job' = NoJob /\ old' = {} /\ result' = what /\ calls' = calls
  BY DEF Return
<1>2. OpOK'
  BY <1>1, NoJobKnown DEF OpInv, OpOK, JobOfStep, RepairSteps, TagSteps
<1> QED
  BY <1>1, <1>2 DEF OpInv, LocksAreListed, KeysAreListed, RemotesAreListed, RepairSteps

\* One that is refused never was.
LEMMA RefuseStep ==
  ASSUME OpInv, NEW why \in Codes, Refuse(why)
  PROVE  OpInv'
<1>1. /\ op = "idle" /\ calls' \in 0..MaxCalls /\ result' = why
      /\ UNCHANGED <<locks, config, remotes, op, job, old>>
  BY DEF Refuse, OpInv, OpOK, kept
<1> QED
  BY <1>1 DEF OpInv, OpOK, JobOfStep, LocksAreListed, KeysAreListed, RemotesAreListed, Left

-----------------------------------------------------------------------------
\* A sequence that is not empty has its head among its elements; and all but
\* that are elements of its tail.
LEMMA TailKeepsRest ==
  ASSUME NEW S, NEW s \in Seq(S), s # <<>>
  PROVE  /\ Head(s) \in S /\ Tail(s) \in Seq(S)
         /\ \A x \in Elements(s) : x = Head(s) \/ x \in Elements(Tail(s))
<1>1. Head(s) \in S /\ Tail(s) \in Seq(S)
  OBVIOUS
<1>2. ASSUME NEW i \in DOMAIN s, i # 1
      PROVE  i - 1 \in DOMAIN Tail(s) /\ Tail(s)[i - 1] = s[i]
  BY <1>2
<1>3. Head(s) = s[1]
  OBVIOUS
<1> QED
  BY <1>1, <1>2, <1>3 DEF Elements

\* An operation that goes on with the rest of its list.
LEMMA TickStep ==
  ASSUME OpInv, job.left # <<>>, Tick, NEW step, Goto(step),
         step \in ListSteps \ {"remove", "reset"}, op \in ListSteps \ {"reset"},
         step = op \/ (op = "remove" /\ step = "repair")
  PROVE  OpOK' /\ (\A x \in Left : x = First \/ x \in Left') /\ job'.settings = job.settings
<1> DEFINE Names == LockFiles \union Settings \union Remotes
<1>1. job \in Jobs /\ job.left \in Seq(Names)
  BY DEF OpInv, OpOK, Jobs
<1>2. Tail(job.left) \in Seq(Names)
  BY <1>1, TailKeepsRest
<1>3. job' = [job EXCEPT !.left = Tail(job.left)]
  BY DEF Tick
<1>4. job' \in Jobs
  BY <1>1, <1>2, <1>3 DEF Jobs
<1>5. /\ job'.kind = job.kind /\ job'.left = Tail(job.left) /\ job'.tag = job.tag
      /\ job'.target = job.target /\ job'.settings = job.settings
  BY <1>1, <1>3 DEF Jobs
<1>6. \A x \in Left : x = First \/ x \in Left'
  BY <1>1, <1>5, TailKeepsRest DEF First, Left
<1>7. op' = step /\ UNCHANGED <<old, result, calls>>
  BY DEF Goto
<1>8. OpOK'
  BY <1>4, <1>5, <1>7 DEF OpInv, OpOK, JobOfStep, ListSteps, RepairSteps, TagSteps
<1> QED
  BY <1>5, <1>6, <1>8

\* repair_repository_impl begins with every lock file that is there.
LEMMA RepairBegins ==
  ASSUME OpInv, KeptOK, Repair
  PROVE  OpInv'
<1> DEFINE todo == <<IndexLock, HeadLock, ConfigLock>>
<1>1. /\ op' = "repair" /\ job' = [NoJob EXCEPT !.kind = "repair", !.left = todo]
      /\ old' = {l \in LockFiles : locks[l] # "none"}
      /\ calls' \in 0..MaxCalls /\ result' = "none" /\ UNCHANGED locks
  BY DEF Repair, Begin, kept, OpInv, OpOK
<1>2. todo \in Seq(LockFiles \union Settings \union Remotes)
  BY DEF LockFiles
<1>3. job' \in Jobs /\ job'.kind = "repair" /\ job'.left = todo
  BY <1>1, <1>2, NoJobKnown DEF Jobs
<1>4. \A l \in LockFiles : l \in Left'
  <2>1. todo[1] = IndexLock /\ todo[2] = HeadLock /\ todo[3] = ConfigLock /\ DOMAIN todo = 1..3
    OBVIOUS
  <2> HIDE DEF todo
  <2> QED
    BY <1>3, <2>1 DEF LockFiles, Left, Elements
<1>5. OpOK'
  BY <1>1, <1>3 DEF OpOK, JobOfStep, ListSteps, RepairSteps, TagSteps
<1> QED
  BY <1>1, <1>4, <1>5 DEF OpInv, LocksAreListed, KeysAreListed, RemotesAreListed, RepairSteps

\* The steps of a repair that go on to another.
LEMMA RepairStep ==
  ASSUME OpInv, KeptOK, RepairLooks \/ RepairRemoves
  PROVE  OpInv'
<1>1. job.left # <<>>
  BY DEF RepairLooks, RepairRemoves, OpInv, LocksAreListed
<1>2. CASE op = "repair" /\ locks[First] = "none" /\ Tick /\ Goto("repair") /\ UNCHANGED locks
  <2>1. OpOK' /\ \A x \in Left : x = First \/ x \in Left'
    BY <1>1, <1>2, TickStep DEF ListSteps, RepairSteps
  <2>2. op' = "repair" /\ old' = old
    BY <1>2 DEF Goto
  <2> QED
    BY <1>2, <2>1, <2>2 DEF OpInv, LocksAreListed, KeysAreListed, RemotesAreListed, RepairSteps
<1>3. CASE op = "repair" /\ Goto("remove") /\ UNCHANGED <<job, kept>>
  <2>1. op' = "remove" /\ UNCHANGED <<old, result, calls, job, locks>>
    BY <1>3 DEF Goto, kept
  <2>2. OpOK'
    BY <1>3, <2>1 DEF OpInv, OpOK, JobOfStep, ListSteps, RepairSteps, TagSteps
  <2> QED
    BY <1>1, <1>3, <2>1, <2>2 DEF OpInv, LocksAreListed, KeysAreListed, RemotesAreListed, RepairSteps, Left
<1>4. CASE RepairRemoves
  <2>1. /\ op = "remove" /\ Tick /\ Goto("repair")
        /\ locks' = [locks EXCEPT ![First] = "none"]
    BY <1>4 DEF RepairRemoves
  <2>2. OpOK' /\ \A x \in Left : x = First \/ x \in Left'
    BY <1>1, <2>1, TickStep DEF ListSteps, RepairSteps
  <2>3. op' = "repair" /\ old' = old
    BY <2>1 DEF Goto
  <2>4. \A l \in LockFiles : /\ l = First => locks'[l] = "none"
                             /\ locks[l] = "none" => locks'[l] = "none"
    BY <2>1 DEF KeptOK
  <2> QED
    BY <2>1, <2>2, <2>3, <2>4 DEF OpInv, LocksAreListed, KeysAreListed, RemotesAreListed, RepairSteps
<1> QED
  BY <1>2, <1>3, <1>4 DEF RepairLooks, kept

\* The last step of a repair, and its failures.
LEMMA RepairEnds ==
  ASSUME OpInv, KeptOK, RepairFindsItGone \/ RepairIndex \/ RepairResets \/ RepairResetFails
  PROVE  OpInv'
<1>1. CASE \E what \in Codes : Return(what)
  BY <1>1, ReturnStep
<1>2. CASE op = "repair" /\ job.left = <<>> /\ Goto("reset") /\ UNCHANGED <<job, statusVars, kept>>
  <2>1. op' = "reset" /\ UNCHANGED <<old, result, calls, job, locks>>
    BY <1>2 DEF Goto, kept
  <2>2. OpOK'
    BY <1>2, <2>1 DEF OpInv, OpOK, JobOfStep, ListSteps, RepairSteps, TagSteps
  <2> QED
    BY <1>2, <2>1, <2>2 DEF OpInv, LocksAreListed, KeysAreListed, RemotesAreListed, RepairSteps, Left
<1>3. {"io_error", "git_error", "ok"} \subseteq Codes
  BY DEF Codes
<1> QED
  BY <1>1, <1>2, <1>3 DEF RepairFindsItGone, RepairIndex, RepairResets, RepairResetFails, Fail

\* configure_repository_impl begins with every key, those that were not given
\* included.
LEMMA ConfigureBegins ==
  ASSUME OpInv, NEW given \in SUBSET Settings, Configure(given)
  PROVE  OpInv'
<1>1. PICK settings \in [given -> Values] :
        Begin("configure", [NoJob EXCEPT !.kind = "configure", !.settings = settings,
                                         !.left = Keys], given)
  BY DEF Configure
<1>2. settings \in Choices
  BY DEF Choices
<1>3. Keys \in Seq(LockFiles \union Settings \union Remotes)
  OBVIOUS
<1>4. /\ op' = "configure" /\ old' = given /\ calls' \in 0..MaxCalls /\ result' = "none"
      /\ job' = [NoJob EXCEPT !.kind = "configure", !.settings = settings, !.left = Keys]
  BY <1>1 DEF Begin, OpInv, OpOK
<1>5. job' \in Jobs /\ job'.kind = "configure" /\ job'.left = Keys /\ job'.settings = settings
  BY <1>2, <1>3, <1>4, NoJobKnown DEF Jobs
<1>6. OpOK'
  BY <1>2, <1>4, <1>5 DEF OpOK, JobOfStep, ListSteps, RepairSteps, TagSteps
<1>7. \A k \in old' : k \in DOMAIN job'.settings /\ k \in Left'
  BY <1>4, <1>5 DEF Left, Settings
<1> QED
  BY <1>4, <1>6, <1>7 DEF OpInv, LocksAreListed, KeysAreListed, RemotesAreListed, RepairSteps

\* Its next key, which it sets if it was given.
LEMMA SetStep ==
  ASSUME OpInv, KeptOK, SetSkips \/ SetNext
  PROVE  OpInv'
<1>1. op = "configure" /\ job.left # <<>> /\ Tick /\ Goto("configure")
  BY DEF SetSkips, SetNext, Given
<1>2. /\ OpOK' /\ job'.settings = job.settings
      /\ \A x \in Left : x = First \/ x \in Left'
  BY <1>1, TickStep DEF ListSteps, RepairSteps
<1>3. op' = "configure" /\ old' = old
  BY <1>1 DEF Goto
<1>4. \A k \in old : k \in DOMAIN job.settings /\ (k \in Left \/ config[k] = job.settings[k])
  BY <1>1 DEF OpInv, KeysAreListed
<1>5. CASE SetSkips
  <2>1. First \notin DOMAIN job.settings /\ config' = config
    BY <1>5 DEF SetSkips, Given, kept
  <2>2. \A k \in old : k \in Left' \/ config'[k] = job.settings[k]
    BY <1>2, <1>4, <2>1
  <2> QED
    BY <1>2, <1>3, <1>4, <2>2 DEF OpInv, LocksAreListed, KeysAreListed, RemotesAreListed, RepairSteps
<1>6. CASE SetNext
  <2>1. config' = [config EXCEPT ![First] = job.settings[First]]
    BY <1>6 DEF SetNext
  <2>2. job.settings \in Choices
    BY <1>1 DEF OpInv, OpOK, JobOfStep, Jobs
  <2>3. DOMAIN job.settings \subseteq Settings
    BY <2>2 DEF Choices
  <2>4. \A k \in old : k \in Left' \/ config'[k] = job.settings[k]
    BY <1>2, <1>4, <2>1, <2>3 DEF KeptOK
  <2> QED
    BY <1>2, <1>3, <1>4, <2>4 DEF OpInv, LocksAreListed, KeysAreListed, RemotesAreListed, RepairSteps
<1> QED
  BY <1>5, <1>6

\* An order of a finite set has all of it.
LEMMA OrderHasAll ==
  ASSUME NEW S, IsFiniteSet(S), NEW order \in Orders(S)
  PROVE  order \in Seq(S) /\ Elements(order) = S
<1> DEFINE n == Cardinality(S)
<1>1. n \in Nat
  BY FS_CardinalityType
<1>2. order \in Seq(S)
  BY <1>1 DEF Orders
<1>3. Elements(order) \subseteq S
  BY DEF Orders, Elements
<1>4. order \in Bijection(1..n, Elements(order))
  BY DEF Orders, Elements, Bijection, Injection, Surjection, IsInjective
<1>5. IsFiniteSet(1..n) /\ Cardinality(1..n) = n
  BY <1>1, FS_Interval
<1>6. Cardinality(Elements(order)) = n
  <2> HIDE DEF n
  <2>1. ExistsBijection(1..n, Elements(order))
    BY <1>4, Zenon DEF ExistsBijection
  <2>2. Cardinality(Elements(order)) = Cardinality(1..n)
    BY <1>5, <2>1, FS_Bijection
  <2> QED
    BY <1>5, <2>2
<1> QED
  BY <1>2, <1>3, <1>6, FS_Subset

\* remove_all_remotes_impl begins with every remote there is.
LEMMA RemoveAllBegins ==
  ASSUME OpInv, KeptOK, RemoveAll
  PROVE  OpInv'
<1>1. PICK order \in Orders(remotes) :
        Begin("remotes", [NoJob EXCEPT !.kind = "remotes", !.left = order], remotes)
  BY DEF RemoveAll
<1>2. IsFiniteSet(remotes) /\ remotes \subseteq Remotes
  BY FS_Subset DEF KeptOK
<1>3. order \in Seq(remotes) /\ Elements(order) = remotes
  BY <1>1, <1>2, OrderHasAll
<1>4. order \in Seq(LockFiles \union Settings \union Remotes)
  BY <1>2, <1>3
<1>5. /\ op' = "remotes" /\ old' = remotes /\ remotes' = remotes
      /\ calls' \in 0..MaxCalls /\ result' = "none"
      /\ job' = [NoJob EXCEPT !.kind = "remotes", !.left = order]
  BY <1>1 DEF Begin, kept, OpInv, OpOK
<1>6. job' \in Jobs /\ job'.kind = "remotes" /\ job'.left = order
  BY <1>4, <1>5, NoJobKnown DEF Jobs
<1>7. OpOK'
  BY <1>2, <1>5, <1>6 DEF OpOK, JobOfStep, ListSteps, RepairSteps, TagSteps
<1> QED
  BY <1>3, <1>5, <1>6, <1>7
     DEF OpInv, LocksAreListed, KeysAreListed, RemotesAreListed, RepairSteps, Left

\* Its next remote.
LEMMA RemoveStep ==
  ASSUME OpInv, RemoveNext
  PROVE  OpInv'
<1>1. /\ op = "remotes" /\ job.left # <<>> /\ Tick /\ Goto("remotes")
      /\ remotes' = remotes \ {First}
  BY DEF RemoveNext
<1>2. OpOK' /\ \A x \in Left : x = First \/ x \in Left'
  BY <1>1, TickStep DEF ListSteps, RepairSteps
<1>3. op' = "remotes" /\ old' = old
  BY <1>1 DEF Goto
<1> QED
  BY <1>1, <1>2, <1>3 DEF OpInv, LocksAreListed, KeysAreListed, RemotesAreListed, RepairSteps

\* A tag to create has its name, its target and whether it is by force.
LEMMA TagBegins ==
  ASSUME OpInv, NEW n \in TagNames, NEW target \in Targets, NEW force \in BOOLEAN,
         CreateTag(n, target, force)
  PROVE  OpInv'
<1>1. CASE \E why \in Codes : Refuse(why)
  BY <1>1, RefuseStep
<1>2. CASE Begin("tag", [NoJob EXCEPT !.kind = "tag", !.tag = n, !.target = target,
                                      !.force = force], {})
  <2>1. /\ op' = "tag" /\ old' = {} /\ calls' \in 0..MaxCalls /\ result' = "none"
        /\ job' = [NoJob EXCEPT !.kind = "tag", !.tag = n, !.target = target, !.force = force]
    BY <1>2 DEF Begin, OpInv, OpOK
  <2>2. job' \in Jobs /\ job'.kind = "tag" /\ job'.tag = n /\ job'.target = target
    BY <2>1, NoJobKnown DEF Jobs
  <2>3. OpOK'
    BY <2>1, <2>2 DEF OpOK, JobOfStep, ListSteps, RepairSteps, TagSteps
  <2> QED
    BY <2>1, <2>3 DEF OpInv, LocksAreListed, KeysAreListed, RemotesAreListed, RepairSteps
<1>3. {"tag_exists", "git_error", "config_missing"} \subseteq Codes
  BY DEF Codes
<1> QED
  BY <1>1, <1>2, <1>3 DEF CreateTag

\* One to delete has its name.
LEMMA TagDeletes ==
  ASSUME OpInv, NEW n \in TagNames, DeleteTag(n)
  PROVE  OpInv'
<1>1. CASE Refuse("tag_not_found")
  BY <1>1, RefuseStep DEF Codes
<1>2. CASE Begin("untag", [NoJob EXCEPT !.kind = "untag", !.tag = n], {})
  <2>1. /\ op' = "untag" /\ old' = {} /\ calls' \in 0..MaxCalls /\ result' = "none"
        /\ job' = [NoJob EXCEPT !.kind = "untag", !.tag = n]
    BY <1>2 DEF Begin, OpInv, OpOK
  <2>2. job' \in Jobs /\ job'.kind = "untag" /\ job'.tag = n
    BY <2>1, NoJobKnown DEF Jobs
  <2>3. OpOK'
    BY <2>1, <2>2 DEF OpOK, JobOfStep, ListSteps, RepairSteps, TagSteps
  <2> QED
    BY <2>1, <2>3 DEF OpInv, LocksAreListed, KeysAreListed, RemotesAreListed, RepairSteps
<1> QED
  BY <1>1, <1>2 DEF DeleteTag

\* The steps that come from outside take what they touch from what nobody
\* touched since.
LEMMA OutsideStep ==
  ASSUME OpInv, KeptOK, FromOutside,
         \/ \E l \in LockFiles : LockFileMade(l) \/ LockFileDone(l) \/ OwnerDies(l)
         \/ \E k \in Settings, v \in Values \union {Absent} : TerminalConfig(k, v)
         \/ \E r \in Remotes : TerminalRemote(r)
         \/ \E n \in TagNames, t \in Targets \union {Absent} : TerminalTag(n, t)
  PROVE  OpInv'
<1>1. UNCHANGED <<op, job, calls>> /\ result' = "none" /\ old' \subseteq old
  BY DEF FromOutside, LockFileMade, LockFileDone, OwnerDies, TerminalConfig, TerminalRemote, TerminalTag
<1>2. OpOK'
  BY <1>1 DEF OpInv, OpOK, JobOfStep
<1>3. Left' = Left
  BY <1>1 DEF Left
<1>4. LocksAreListed'
  <2>1. CASE \E l \in LockFiles : LockFileMade(l) \/ LockFileDone(l)
    <3>1. PICK l \in LockFiles : LockFileMade(l) \/ LockFileDone(l)
      BY <2>1
    <3>2. old' = old \ {l} /\ \A m \in LockFiles \ {l} : locks'[m] = locks[m]
      BY <3>1 DEF LockFileMade, LockFileDone, KeptOK
    <3> QED
      BY <1>1, <1>3, <3>2 DEF OpInv, LocksAreListed
  <2>2. CASE \E l \in LockFiles : OwnerDies(l)
    <3>1. PICK l \in LockFiles : OwnerDies(l)
      BY <2>2
    <3>2. locks[l] # "none" /\ \A m \in LockFiles \ {l} : locks'[m] = locks[m]
      BY <3>1 DEF OwnerDies, KeptOK
    <3> QED
      BY <1>1, <1>3, <3>2 DEF OpInv, LocksAreListed
  <2>3. CASE locks' = locks
    BY <1>1, <1>3, <2>3 DEF OpInv, LocksAreListed
  <2> QED
    BY <2>1, <2>2, <2>3 DEF TerminalConfig, TerminalRemote, TerminalTag
<1>5. KeysAreListed'
  <2>1. CASE \E k \in Settings, v \in Values \union {Absent} : TerminalConfig(k, v)
    <3>1. PICK k \in Settings, v \in Values \union {Absent} : TerminalConfig(k, v)
      BY <2>1
    <3>2. old' = old \ {k} /\ config' = [config EXCEPT ![k] = v]
      BY <3>1 DEF TerminalConfig
    <3>3. \A m \in old' : config'[m] = config[m]
      BY <3>2 DEF KeptOK
    <3> QED
      BY <1>1, <1>3, <3>3 DEF OpInv, KeysAreListed
  <2>2. CASE config' = config
    BY <1>1, <1>3, <2>2 DEF OpInv, KeysAreListed
  <2> QED
    BY <2>1, <2>2 DEF LockFileMade, LockFileDone, OwnerDies, TerminalRemote, TerminalTag
<1>6. RemotesAreListed'
  <2>1. CASE \E r \in Remotes : TerminalRemote(r)
    <3>1. PICK r \in Remotes : TerminalRemote(r)
      BY <2>1
    <3>2. old' = old \ {r} /\ remotes' \subseteq remotes \union {r}
      BY <3>1 DEF TerminalRemote
    <3> QED
      BY <1>1, <1>3, <3>2 DEF OpInv, RemotesAreListed
  <2>2. CASE remotes' = remotes
    BY <1>1, <1>3, <2>2 DEF OpInv, RemotesAreListed
  <2> QED
    BY <2>1, <2>2 DEF LockFileMade, LockFileDone, OwnerDies, TerminalConfig, TerminalTag
<1> QED
  BY <1>2, <1>4, <1>5, <1>6 DEF OpInv

\* What the operation is at, through every step.
LEMMA OpStep ==
  ASSUME OpInv, KeptOK, UpkeepNext
  PROVE  OpInv'
<1>1. CASE Repair \/ RemoveAll \/ \E given \in SUBSET Settings : Configure(given)
  BY <1>1, RepairBegins, RemoveAllBegins, ConfigureBegins
<1>2. CASE CheckHealth
  <2>1. {"healthy", "unhealthy"} \subseteq Codes
    BY DEF Codes
  <2> QED
    BY <1>2, <2>1, RefuseStep DEF CheckHealth
<1>3. CASE \E k \in Settings : Unset(k)
  <2>1. PICK k \in Settings : Unset(k)
    BY <1>3
  <2>2. CASE Refuse("ok") \/ Refuse("git_error")
    <3>1. {"ok", "git_error"} \subseteq Codes
      BY DEF Codes
    <3> QED
      BY <2>2, <3>1, RefuseStep
  <2>3. CASE /\ op = "idle" /\ calls < MaxCalls
             /\ calls' = calls + 1
             /\ result' = "ok"
             /\ UNCHANGED <<statusVars, locks, readable, born, remotes, tags, op, job, old>>
    BY <2>3 DEF OpInv, OpOK, JobOfStep, LocksAreListed, KeysAreListed, RemotesAreListed,
                RepairSteps, TagSteps, Codes
  <2> QED
    BY <2>1, <2>2, <2>3 DEF Unset
<1>4. CASE \E n \in TagNames :
             DeleteTag(n) \/ \E t \in Targets, force \in BOOLEAN : CreateTag(n, t, force)
  BY <1>4, TagBegins, TagDeletes
<1>5. CASE RepairLooks \/ RepairRemoves
  BY <1>5, RepairStep
<1>6. CASE RepairFindsItGone \/ RepairIndex \/ RepairResets \/ RepairResetFails
  BY <1>6, RepairEnds
<1>7. CASE SetSkips \/ SetNext
  BY <1>7, SetStep
<1>8. CASE RemoveNext
  BY <1>8, RemoveStep
<1>9. CASE SetFails \/ Configured \/ RemoveFails \/ RemovedAll \/ TagIsThere \/ ReadTag
           \/ RemoveTag \/ Crash
  <2>1. {"ok", "git_error", "none"} \subseteq Codes \union {"none"}
    BY DEF Codes
  <2>2. \E what \in Codes \union {"none"} : Return(what)
    BY <1>9, <2>1 DEF SetFails, Configured, RemoveFails, RemovedAll, TagIsThere, ReadTag,
                      RemoveTag, Crash, Fail
  <2> QED
    BY <2>2, ReturnStep
<1>10. CASE WriteTag
  <2>1. op = "tag" /\ op' = "written" /\ UNCHANGED <<job, old, result, calls, locks, config, remotes>>
    BY <1>10 DEF WriteTag, Goto
  <2> QED
    BY <2>1 DEF OpInv, OpOK, JobOfStep, LocksAreListed, KeysAreListed, RemotesAreListed,
                ListSteps, RepairSteps, TagSteps
<1>11. CASE ReadStatus \/ Editor \/ Terminal
  <2>1. UNCHANGED <<locks, config, remotes, op, job, old, calls>> /\ result' = "none"
    BY <1>11 DEF ReadStatus, Editor, Terminal, TerminalStages, TerminalCommits, Beside, kept
  <2> QED
    BY <2>1, OpUntouched
<1>12. CASE Outside /\ ~(Editor \/ Terminal)
  <2>1. FromOutside
    BY <1>12 DEF Outside, LockFileMade, LockFileDone, OwnerDies, TerminalConfig, TerminalRemote,
                 TerminalTag
  <2> QED
    BY <1>12, <2>1, OutsideStep DEF Outside
<1> QED
  BY <1>1, <1>2, <1>3, <1>4, <1>5, <1>6, <1>7, <1>8, <1>9, <1>10, <1>11, <1>12
     DEF UpkeepNext, Calls, Steps

\* The repository stays well typed.
LEMMA KeptStep ==
  ASSUME OpInv, KeptOK, UpkeepNext
  PROVE  KeptOK'
<1>1. CASE UNCHANGED kept
  BY <1>1 DEF KeptOK, kept
<1>2. CASE RepairRemoves
  <2>1. locks' = [locks EXCEPT ![First] = "none"] /\ UNCHANGED <<readable, born, config, remotes, tags>>
    BY <1>2 DEF RepairRemoves
  <2> QED
    BY <2>1 DEF KeptOK
<1>3. CASE RepairResets
  BY <1>3 DEF RepairResets, KeptOK
<1>4. CASE SetNext
  <2>1. /\ config' = [config EXCEPT ![First] = job.settings[First]]
        /\ UNCHANGED <<locks, readable, born, remotes, tags>>
        /\ First \in DOMAIN job.settings
    BY <1>4 DEF SetNext, Given
  <2>2. job.settings \in Choices
    BY DEF OpInv, OpOK, Jobs
  <2>3. job.settings[First] \in Values
    BY <2>1, <2>2 DEF Choices
  <2> QED
    BY <2>1, <2>3 DEF KeptOK
<1>5. CASE \E k \in Settings : Unset(k)
  <2>1. PICK k \in Settings : Unset(k)
    BY <1>5
  <2>2. UNCHANGED kept \/ (/\ config' = [config EXCEPT ![k] = Absent]
                           /\ UNCHANGED <<locks, readable, born, remotes, tags>>)
    BY <2>1 DEF Unset, Refuse
  <2> QED
    BY <1>1, <2>2 DEF KeptOK
<1>6. CASE RemoveNext
  BY <1>6 DEF RemoveNext, KeptOK
<1>7. CASE WriteTag
  <2>1. /\ tags' = [tags EXCEPT ![job.tag] = job.target]
        /\ UNCHANGED <<locks, readable, born, config, remotes>>
        /\ op = "tag"
    BY <1>7 DEF WriteTag
  <2>2. job.target \in Targets
    BY <2>1 DEF OpInv, OpOK, JobOfStep
  <2> QED
    BY <2>1, <2>2 DEF KeptOK
<1>8. CASE RemoveTag
  <2>1. UNCHANGED kept \/ (/\ tags' = [tags EXCEPT ![job.tag] = Absent]
                           /\ UNCHANGED <<locks, readable, born, config, remotes>>)
    BY <1>8 DEF RemoveTag, Fail
  <2> QED
    BY <1>1, <2>1 DEF KeptOK
<1>9. CASE \E l \in LockFiles : LockFileMade(l) \/ LockFileDone(l) \/ OwnerDies(l)
  <2>1. PICK l \in LockFiles, state \in {"none", "live", "dead"} :
          locks' = [locks EXCEPT ![l] = state] /\ UNCHANGED <<readable, born, config, remotes, tags>>
    BY <1>9 DEF LockFileMade, LockFileDone, OwnerDies
  <2> QED
    BY <2>1 DEF KeptOK
<1>10. CASE \E k \in Settings, v \in Values \union {Absent} : TerminalConfig(k, v)
  <2>1. PICK k \in Settings, v \in Values \union {Absent} : TerminalConfig(k, v)
    BY <1>10
  <2> QED
    BY <2>1 DEF TerminalConfig, KeptOK
<1>11. CASE \E r \in Remotes : TerminalRemote(r)
  BY <1>11 DEF TerminalRemote, KeptOK
<1>12. CASE \E n \in TagNames, t \in Targets \union {Absent} : TerminalTag(n, t)
  <2>1. PICK n \in TagNames, t \in Targets \union {Absent} : TerminalTag(n, t)
    BY <1>12
  <2> QED
    BY <2>1 DEF TerminalTag, KeptOK
<1>13. CASE \/ Repair \/ CheckHealth \/ RemoveAll \/ \E given \in SUBSET Settings : Configure(given)
            \/ \E n \in TagNames :
                 DeleteTag(n) \/ \E t \in Targets, force \in BOOLEAN : CreateTag(n, t, force)
  BY <1>1, <1>13 DEF Repair, CheckHealth, RemoveAll, Configure, DeleteTag, CreateTag, Begin, Refuse
<1>14. CASE \/ RepairLooks \/ RepairFindsItGone \/ RepairIndex \/ RepairResetFails
            \/ SetSkips \/ SetFails \/ Configured \/ RemoveFails \/ RemovedAll
            \/ TagIsThere \/ ReadTag \/ Crash \/ ReadStatus \/ Editor \/ TerminalStages
  BY <1>1, <1>14 DEF RepairLooks, RepairFindsItGone, RepairIndex, RepairResetFails, SetSkips,
     SetFails, Configured, RemoveFails, RemovedAll, TagIsThere, ReadTag, Crash, Fail,
     ReadStatus, Editor, TerminalStages, Beside
<1>15. CASE TerminalCommits
  BY <1>15 DEF TerminalCommits, KeptOK
<1> QED
  BY <1>2, <1>3, <1>4, <1>5, <1>6, <1>7, <1>8, <1>9, <1>10, <1>11, <1>12, <1>13, <1>14, <1>15
     DEF UpkeepNext, Calls, Steps, Outside, Terminal

\* Steps of the library other than the reset of a repair, and those from outside
\* that are not of the trees, leave a status what it has.
LEMMA StatusUntouched ==
  ASSUME UpkeepNext
  PROVE  \/ UNCHANGED statusVars
         \/ FromOutside
         \/ RepairResets
         \/ StatusSteps \/ Edits \/ TerminalSteps
<1>1. CASE Calls
  BY <1>1 DEF Calls, Repair, CheckHealth, RemoveAll, Configure, Unset, DeleteTag, CreateTag,
              Begin, Refuse
<1>2. CASE Steps /\ ~RepairResets
  BY <1>2 DEF Steps, RepairLooks, RepairRemoves, RepairFindsItGone, RepairIndex, RepairResetFails,
     SetSkips, SetNext, SetFails, Configured, RemoveNext, RemoveFails, RemovedAll,
     WriteTag, TagIsThere, ReadTag, RemoveTag, Fail
<1>3. CASE Crash
  BY <1>3 DEF Crash, Fail
<1>4. CASE ReadStatus \/ Outside
  BY <1>4 DEF ReadStatus, Outside, Editor, Terminal, TerminalStages, TerminalCommits, TerminalSteps,
              LockFileMade, LockFileDone, OwnerDies,
              TerminalConfig, TerminalRemote, TerminalTag
<1> QED
  BY <1>1, <1>2, <1>3, <1>4 DEF UpkeepNext

\* A status stays well typed, and what is steady flagged.
LEMMA StatusStep ==
  ASSUME StatusOK, SteadyIsFlagged, UpkeepNext
  PROVE  StatusOK' /\ SteadyIsFlagged'
<1>1. CASE UNCHANGED statusVars
  BY <1>1 DEF statusVars, trees, call, StatusOK, SteadyIsFlagged
<1>2. CASE FromOutside
  BY <1>2 DEF FromOutside, trees, call, StatusOK, SteadyIsFlagged
<1>3. CASE RepairResets
  <2>1. /\ index' = head
        /\ wt' = [p \in Paths |-> IF head[p] = Absent THEN wt[p] ELSE head[p]]
        /\ answer' = NoAnswer
        /\ quiet' = (scan = "idle")
        /\ steady' \subseteq steady
        /\ UNCHANGED <<head, scan, flags, renames, outside>>
    BY <1>3 DEF RepairResets
  <2>2. index' \in [Paths -> Entry] /\ wt' \in [Paths -> File]
    BY <2>1 DEF StatusOK, Entry
  <2>3. SteadyIsFlagged'
    BY <2>1 DEF SteadyIsFlagged
  <2> QED
    BY <2>1, <2>2, <2>3 DEF StatusOK
<1>4. CASE StatusSteps
  BY <1>4, StatusesStep, RenamesStep, AnswerStep DEF StatusSteps
<1>5. CASE Edits \/ TerminalSteps
  BY <1>5, TreesStep
<1> QED
  BY <1>1, <1>2, <1>3, <1>4, <1>5, StatusUntouched

-----------------------------------------------------------------------------
\* The invariant holds at first.
LEMMA InvariantInit == UpkeepInit => IInv
<1> SUFFICES ASSUME UpkeepInit PROVE IInv
  OBVIOUS
<1>1. NoFlags \in [Paths -> [inIndex : Differences, inTree : Differences]]
  BY DEF NoFlags, Unchanged, Differences
<1>2. StatusOK /\ SteadyIsFlagged
  BY <1>1 DEF UpkeepInit, Init, StatusOK, SteadyIsFlagged, File, Entry
<1>3. KeptOK
  BY DEF UpkeepInit, KeptOK
<1>4. OpInv
  BY NoJobKnown DEF UpkeepInit, OpInv, OpOK, JobOfStep, LocksAreListed, KeysAreListed,
                    RemotesAreListed, RepairSteps, TagSteps
<1> QED
  BY <1>2, <1>3, <1>4, Parts

\* Every step keeps it.
LEMMA InvariantStep == IInv /\ [UpkeepNext]_vars => IInv'
<1> SUFFICES ASSUME StatusOK, SteadyIsFlagged, KeptOK, OpInv, [UpkeepNext]_vars
             PROVE  StatusOK' /\ SteadyIsFlagged' /\ KeptOK' /\ OpInv'
  BY DEF IInv, TypeOK, KeptOK, OpOK, OpInv
<1>1. CASE UpkeepNext
  BY <1>1, OpStep, KeptStep, StatusStep
<1>2. CASE UNCHANGED vars
  <2>1. UNCHANGED statusVars /\ UNCHANGED <<locks, readable, born, config, remotes, tags>>
        /\ UNCHANGED <<op, job, old, result, calls>>
    BY <1>2 DEF vars, kept
  <2>2. OpInv'
    BY <2>1 DEF OpInv, OpOK, JobOfStep, LocksAreListed, KeysAreListed, RemotesAreListed, Left
  <2> QED
    BY <2>1, <2>2 DEF statusVars, trees, call, StatusOK, SteadyIsFlagged, KeptOK
<1> QED
  BY <1>1, <1>2

-----------------------------------------------------------------------------
\* The invariant holds throughout.
THEOREM UpkeepInvariant == UpkeepSpec => []IInv
BY InvariantInit, InvariantStep, PTL DEF UpkeepSpec

\* TypeOK: the state is well typed, and no job is left of an operation that has
\* returned.
THEOREM TypeCorrect == UpkeepSpec => []TypeOK
<1>1. IInv => TypeOK
  BY DEF IInv
<1> QED
  BY <1>1, UpkeepInvariant, PTL

\* StatusMissesNoChange: a path that was changed all through a status is in one
\* of its lists, and it is called clean only if there was none.
THEOREM StatusIsComplete == UpkeepSpec => StatusMissesNoChange
<1> DEFINE Missed == Answered => steady \subseteq Mentioned(answer') /\ (answer'.clean => steady = {})
<1>1. IInv /\ [UpkeepNext]_vars => [Missed]_statusVars
  <2> SUFFICES ASSUME IInv, UpkeepNext, ~(UNCHANGED statusVars), Answered
               PROVE  Missed
    BY DEF vars
  <2>1. Answer => Missed
    BY AnswerMissesNone DEF IInv, TypeOK
  <2>2. answer' # NoAnswer
    BY DEF Answered, NoAnswer
  <2>3. ~(FromOutside \/ RepairResets \/ Edits \/ TerminalSteps)
    BY <2>2 DEF FromOutside, RepairResets, Edits, Edit, TerminalSteps,
                TerminalAdd, TerminalUntrack, TerminalConflict, TerminalCommit, Moved
  <2>4. StatusSteps => Answer
    BY DEF Answered, StatusSteps, Statuses, StagedRenames, FullRenames
  <2> QED
    BY <2>1, <2>3, <2>4, StatusUntouched
<1> QED
  BY <1>1, UpkeepInvariant, PTL DEF UpkeepSpec, StatusMissesNoChange

-----------------------------------------------------------------------------
\* What can report success, by kind: the end of a repair, with or without its
\* reset, of a configuration and of a removal of remotes.
LEMMA Successes ==
  ASSUME IInv, UpkeepNext, result' = "ok"
  PROVE  /\ job.kind = "repair"
              => \/ /\ op = "repair" /\ job.left = <<>> /\ (readable \/ born = "broken")
                    /\ UNCHANGED kept
                 \/ RepairResets
         /\ job.kind = "configure" => Configured
         /\ job.kind = "remotes" => RemovedAll
<1> USE DEF Fail, Return, Refuse
<1>1. /\ op = "idle" => job.kind = "none"
      /\ op \in RepairSteps => job.kind = "repair"
      /\ op \in {"configure", "remotes", "untag"} => job.kind = op
      /\ op \in {"tag", "written"} => job.kind = "tag"
  BY NoJobKnown DEF IInv, TypeOK, JobOfStep
<1>2. op # "idle" => result = "none"
  BY DEF IInv, TypeOK, JobOfStep
<1>3. CASE op = "idle"
  BY <1>1, <1>3
<1>4. CASE op \in TagSteps
  BY <1>1, <1>4 DEF TagSteps
<1>5. op # "idle" => ~Calls
  BY DEF Calls, Repair, CheckHealth, RemoveAll, Configure, Unset, DeleteTag, CreateTag, Begin
<1>6. ~Crash /\ ~ReadStatus /\ ~Outside
  BY DEF Crash, ReadStatus, Outside, Editor, Terminal, TerminalStages, TerminalCommits, Beside,
         FromOutside, LockFileMade, LockFileDone, OwnerDies, TerminalConfig, TerminalRemote, TerminalTag
<1>7. CASE op \in RepairSteps
  <2>1. Steps
    BY <1>5, <1>6, <1>7 DEF UpkeepNext, RepairSteps
  <2>2. \/ RepairLooks \/ RepairRemoves \/ RepairFindsItGone \/ RepairIndex
        \/ RepairResets \/ RepairResetFails
    BY <1>7, <2>1 DEF RepairSteps, Steps, SetSkips, SetNext, SetFails, Given, Configured,
       RemoveNext, RemoveFails, RemovedAll, WriteTag, TagIsThere, ReadTag, RemoveTag
  <2>3. RepairIndex \/ RepairResets
    BY <1>2, <1>7, <2>2 DEF RepairLooks, RepairRemoves, RepairFindsItGone, RepairResetFails, Goto
  <2>4. RepairIndex => /\ op = "repair" /\ job.left = <<>> /\ (readable \/ born = "broken")
                       /\ UNCHANGED kept
    BY <1>2, <1>7 DEF RepairIndex, Goto
  <2> QED
    BY <1>1, <1>7, <2>3, <2>4
<1>8. CASE op = "configure"
  <2>1. Steps
    BY <1>5, <1>6, <1>8 DEF UpkeepNext
  <2>2. SetSkips \/ SetNext \/ SetFails \/ Configured
    BY <1>8, <2>1 DEF Steps, RepairLooks, RepairRemoves, RepairFindsItGone, RepairIndex,
       RepairResets, RepairResetFails, RemoveNext, RemoveFails, RemovedAll, WriteTag, TagIsThere,
       ReadTag, RemoveTag
  <2>3. Configured
    BY <1>2, <1>8, <2>2 DEF SetSkips, SetNext, SetFails, Goto
  <2> QED
    BY <1>1, <1>8, <2>3
<1>9. CASE op = "remotes"
  <2>1. Steps
    BY <1>5, <1>6, <1>9 DEF UpkeepNext
  <2>2. RemoveNext \/ RemoveFails \/ RemovedAll
    BY <1>9, <2>1 DEF Steps, RepairLooks, RepairRemoves, RepairFindsItGone, RepairIndex,
       RepairResets, RepairResetFails, SetSkips, SetNext, SetFails, Given, Configured,
       WriteTag, TagIsThere, ReadTag, RemoveTag
  <2>3. RemovedAll
    BY <1>2, <1>9, <2>2 DEF RemoveNext, RemoveFails, Goto
  <2> QED
    BY <1>1, <1>9, <2>3
<1> QED
  BY <1>3, <1>4, <1>7, <1>8, <1>9 DEF IInv, TypeOK, ListSteps

\* RepairedIsHealthy: a repair that reports success has removed every lock file
\* that it found, and left an index that can be read.
THEOREM RepairsAreHealthy == UpkeepSpec => RepairedIsHealthy
<1> DEFINE Healthy == Succeeds("repair")
                        => /\ \A l \in old : locks'[l] = "none"
                           /\ readable' \/ born = "broken"
<1>1. IInv /\ [UpkeepNext]_vars => [Healthy]_vars
  <2> SUFFICES ASSUME IInv, UpkeepNext, Succeeds("repair")
               PROVE  /\ \A l \in old : locks'[l] = "none"
                      /\ readable' \/ born = "broken"
    OBVIOUS
  <2>1. CASE op = "repair" /\ job.left = <<>> /\ (readable \/ born = "broken") /\ UNCHANGED kept
    <3>1. Left = {} /\ UNCHANGED <<locks, readable>>
      BY <2>1 DEF Left, Elements, kept
    <3> QED
      BY <2>1, <3>1 DEF IInv, LocksAreListed, RepairSteps
  <2>2. CASE RepairResets
    <3>1. job.left = <<>> /\ op = "reset" /\ readable' = TRUE /\ locks' = locks
      BY <2>2 DEF RepairResets, IInv, LocksAreListed
    <3>2. Left = {}
      BY <3>1 DEF Left, Elements
    <3> QED
      BY <3>1, <3>2 DEF IInv, LocksAreListed, RepairSteps
  <2> QED
    BY <2>1, <2>2, Successes DEF Succeeds
<1> QED
  BY <1>1, UpkeepInvariant, PTL DEF UpkeepSpec, RepairedIsHealthy

\* SuccessIsComplete: a removal of all remotes, or a configuration, that succeeds
\* has been done in full, but for what somebody else wrote meanwhile.
THEOREM SuccessesAreComplete == UpkeepSpec => SuccessIsComplete
<1> DEFINE Complete == /\ Succeeds("remotes") => old \intersect remotes' = {}
                       /\ Succeeds("configure") => \A k \in old : config'[k] = job.settings[k]
<1>1. IInv /\ [UpkeepNext]_vars => [Complete]_vars
  <2> SUFFICES ASSUME IInv, UpkeepNext
               PROVE  Complete
    OBVIOUS
  <2>1. job.left = <<>> => Left = {}
    BY DEF Left, Elements
  <2>2. Succeeds("remotes") => old \intersect remotes' = {}
    <3> SUFFICES ASSUME Succeeds("remotes") PROVE old \intersect remotes' = {}
      OBVIOUS
    <3>1. RemovedAll
      BY Successes DEF Succeeds
    <3>2. op = "remotes" /\ job.left = <<>> /\ remotes' = remotes
      BY <3>1 DEF RemovedAll, Fail, kept
    <3> QED
      BY <2>1, <3>2 DEF IInv, RemotesAreListed
  <2>3. Succeeds("configure") => \A k \in old : config'[k] = job.settings[k]
    <3> SUFFICES ASSUME Succeeds("configure") PROVE \A k \in old : config'[k] = job.settings[k]
      OBVIOUS
    <3>1. Configured
      BY Successes DEF Succeeds
    <3>2. op = "configure" /\ job.left = <<>> /\ config' = config
      BY <3>1 DEF Configured, Fail, kept
    <3> QED
      BY <2>1, <3>2 DEF IInv, KeysAreListed
  <2> QED
    BY <2>2, <2>3
<1> QED
  BY <1>1, UpkeepInvariant, PTL DEF UpkeepSpec, SuccessIsComplete

-----------------------------------------------------------------------------
\* A step that moves on in an operation and changes a tag writes one, or
\* deletes one.
LEMMA WhatMovesTags ==
  ASSUME UpkeepNext, op' # op, tags' # tags
  PROVE  WriteTag \/ RemoveTag
<1>1. ~Calls
  BY DEF Calls, Repair, CheckHealth, RemoveAll, Configure, Unset, DeleteTag, CreateTag, Begin,
         Refuse, kept
<1>2. ~Crash /\ ~ReadStatus /\ ~Outside
  BY DEF Crash, Fail, ReadStatus, Outside, Editor, Terminal, TerminalStages, TerminalCommits, Beside,
         FromOutside, LockFileMade, LockFileDone, OwnerDies, TerminalConfig, TerminalRemote, TerminalTag, kept
<1> QED
  BY <1>1, <1>2 DEF UpkeepNext, Steps, RepairLooks, RepairRemoves, RepairFindsItGone, RepairIndex,
     RepairResets, RepairResetFails, SetSkips, SetNext, SetFails, Configured, RemoveNext,
     RemoveFails, RemovedAll, TagIsThere, ReadTag, Fail, kept

\* TagsMoveOnlyByForce: a step of the library moves a tag that is there only by
\* force, and deletes only the one it was asked to.
THEOREM TagsMoveByForce == UpkeepSpec => TagsMoveOnlyByForce
<1> DEFINE ByForce ==
      \A n \in TagNames :
        op' # op /\ tags[n] \notin {Absent, tags'[n]}
          => n = job.tag /\ (IF tags'[n] = Absent THEN job.kind = "untag" ELSE job.force)
<1>1. IInv /\ [UpkeepNext]_vars => [ByForce]_vars
  <2> SUFFICES ASSUME IInv, UpkeepNext, NEW n \in TagNames,
                      op' # op, tags[n] \notin {Absent, tags'[n]}
               PROVE  n = job.tag /\ (IF tags'[n] = Absent THEN job.kind = "untag" ELSE job.force)
    OBVIOUS
  <2>1. tags \in [TagNames -> Targets \union {Absent}] /\ JobOfStep
    BY DEF IInv, TypeOK
  <2>2. CASE WriteTag
    <3>1. /\ tags' = [tags EXCEPT ![job.tag] = job.target] /\ op = "tag"
          /\ job.force \/ tags[job.tag] = Absent
      BY <2>2 DEF WriteTag
    <3>2. job.target # Absent
      BY <2>1, <3>1 DEF JobOfStep
    <3>3. n = job.tag
      BY <2>1, <3>1
    <3>4. tags'[n] = job.target
      BY <2>1, <3>1, <3>3
    <3> QED
      BY <3>1, <3>2, <3>3, <3>4
  <2>3. CASE RemoveTag
    <3>1. tags' = [tags EXCEPT ![job.tag] = Absent] /\ op = "untag"
      BY <2>3 DEF RemoveTag, Fail, kept
    <3>2. n = job.tag /\ tags'[n] = Absent
      BY <2>1, <3>1
    <3> QED
      BY <2>1, <3>1, <3>2 DEF JobOfStep
  <2> QED
    BY <2>2, <2>3, WhatMovesTags
<1> QED
  BY <1>1, UpkeepInvariant, PTL DEF UpkeepSpec, TagsMoveOnlyByForce
===============================================================================
