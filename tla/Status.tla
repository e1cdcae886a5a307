-------------------------------- MODULE Status --------------------------------
(***************************************************************************)
(* What the library says of the working tree: get_status_impl and          *)
(* has_uncommitted_changes of get_repository_info_impl, in                 *)
(* src/repository_ops.rs. Reads take no lock: the status is made of        *)
(* several scans, and an editor or git in a terminal moves between them.   *)
(***************************************************************************)
EXTENDS Naturals

CONSTANTS
  Paths,       \* files of the repository
  Contents,    \* what a file can hold
  Links,       \* those of Contents that are symbolic links
  Ignored,     \* paths that .gitignore names
  Similar,     \* pairs of contents that rename detection takes for one file
  Absent,      \* there is no such file
  Unmerged,    \* in the index: a conflict that nobody has resolved
  MaxOutside   \* bound on steps of an editor and of git in a terminal

File == Contents \union {Absent}
Entry == File \union {Unmerged}

ASSUME StatusAssumption ==
  /\ Absent \notin Contents /\ Unmerged \notin File
  /\ Links \subseteq Contents /\ Ignored \subseteq Paths
  /\ Similar \subseteq Contents \X Contents
  /\ MaxOutside \in Nat

VARIABLES
  head,     \* [Paths -> File]: the tree of HEAD, empty while HEAD is unborn
  index,    \* [Paths -> Entry]
  wt,       \* [Paths -> File]: the working tree
  scan,     \* where get_status is: "idle", "statuses", "staged" or "full"
  flags,    \* what repo.statuses() found, path by path
  renames,  \* what the diffs have found so far: [from, to, staged]
  answer,   \* what get_status has just returned; gone with the next step
  steady,   \* history: the paths that were changed all through the call
  quiet,    \* history: nothing has moved since the call began
  outside   \* steps from outside so far

trees == <<head, index, wt>>
call == <<scan, flags, renames, steady, quiet>>
statusVars == <<trees, call, answer, outside>>

-----------------------------------------------------------------------------
\* How two versions of a path differ.
Differ(a, b) == IF Unmerged \in {a, b} THEN "conflicted"
                ELSE IF a = b THEN "same"
                ELSE IF a = Absent THEN "new"
                ELSE IF b = Absent THEN "deleted"
                ELSE IF a \in Links <=> b \in Links THEN "modified"
                ELSE "typechange"

\* repo.statuses(), untracked files included and ignored ones left out.
Flags(p) ==
  [inIndex |-> Differ(head[p], index[p]),
   inTree  |-> IF p \in Ignored /\ index[p] = Absent THEN "same"
               ELSE Differ(index[p], wt[p])]

Unchanged == [inIndex |-> "same", inTree |-> "same"]
NoFlags == [p \in Paths |-> Unchanged]
NoAnswer == [kind |-> "none"]

\* find_similar over a diff: every file that went is matched with at most one
\* like it that came, and no pair is left out. A file that became a link both
\* goes and comes.
Went(from, to, p) == Differ(from[p], to[p]) \in {"deleted", "typechange"}
Came(from, to, p) == Differ(from[p], to[p]) \in {"new", "typechange"}

Pairs(from, to) ==
  {m \in Paths \X Paths : /\ m[1] # m[2]
                          /\ Went(from, to, m[1]) /\ Came(from, to, m[2])
                          /\ <<from[m[1]], to[m[2]]>> \in Similar}

Matchings(from, to) ==
  LET Apart(M) == \A m, n \in M : m # n => m[1] # n[1] /\ m[2] # n[2]
  IN {M \in SUBSET Pairs(from, to) :
        Apart(M) /\ \A m \in Pairs(from, to) \ M : ~Apart(M \union {m})}

\* HEAD against the working tree, as the index sees it.
Tracked == [p \in Paths |-> IF index[p] \in {Absent, Unmerged} THEN index[p] ELSE wt[p]]

Init ==
  /\ head \in [Paths -> File]
  /\ index = head
  /\ wt = head
  /\ scan = "idle"
  /\ flags = NoFlags
  /\ renames = {}
  /\ answer = NoAnswer
  /\ steady = {}
  /\ quiet = TRUE
  /\ outside = 0

-----------------------------------------------------------------------------
\* A path has changed in a way that get_status has a list for: neither
\* conflicted nor a file that became a link, or a link a file.
HasChanged(tree, staged, disk, p) ==
  /\ ~(tree[p] = staged[p] /\ staged[p] = disk[p])
  /\ staged[p] # Unmerged
  /\ \A a, b \in {tree[p], staged[p], disk[p]} \ {Absent} : a \in Links <=> b \in Links
  /\ ~(p \in Ignored /\ tree[p] = Absent /\ staged[p] = Absent)

Changed == {p \in Paths : HasChanged(head, index, wt, p)}

Statuses ==
  /\ scan = "idle"
  /\ scan' = "statuses"
  /\ flags' = [p \in Paths |-> Flags(p)]
  /\ renames' = {}
  /\ steady' = Changed
  /\ quiet' = TRUE
  /\ answer' = NoAnswer
  /\ UNCHANGED <<trees, outside>>

Named(M, staged) == {[from |-> m[1], to |-> m[2], staged |-> staged] : m \in M}

\* HEAD against the index. The diff of index and working tree that follows
\* finds none: no file is new to it that is not untracked.
StagedRenames ==
  /\ scan = "statuses"
  /\ scan' = "staged"
  /\ \E M \in Matchings(head, index) : renames' = Named(M, TRUE)
  /\ UNCHANGED <<trees, flags, answer, steady, quiet, outside>>

\* HEAD against the working tree, without what is recorded already.
FullRenames ==
  /\ scan = "staged"
  /\ scan' = "full"
  /\ \E M \in Matchings(head, Tracked) :
       renames' = renames
         \union {r \in Named(M, FALSE) : ~\E old \in renames : old.from = r.from /\ old.to = r.to}
  /\ UNCHANGED <<trees, flags, answer, steady, quiet, outside>>

InIndex(kinds) == {p \in Paths : flags[p].inIndex \in kinds}
InTree(kinds) == {p \in Paths : flags[p].inTree \in kinds}

From == {r.from : r \in renames}
To == {r.to : r \in renames}

\* Mutant of GoneFiles: a deletion that is not staged has no list.
StagedDeletionsOnly == InIndex({"deleted"}) \ From

\* A renamed path is no longer deleted, nor untracked at its new place.
GoneFiles == (InIndex({"deleted"}) \union InTree({"deleted"})) \ From
UntrackedFiles == InTree({"new"}) \ To
ModifiedFiles == InTree({"modified"}) \union To
AddedFiles == InIndex({"new"})
StagedFiles == InIndex({"new", "modified", "deleted"})

Answer ==
  /\ scan = "full"
  /\ answer' = [kind |-> "status", modified |-> ModifiedFiles, deleted |-> GoneFiles,
                added |-> AddedFiles, untracked |-> UntrackedFiles,
                staged |-> StagedFiles, renamed |-> renames,
                clean |-> renames = {}
                          /\ ModifiedFiles \union GoneFiles \union AddedFiles
                             \union UntrackedFiles \union StagedFiles = {}]
  /\ scan' = "idle"
  /\ flags' = NoFlags
  /\ renames' = {}
  /\ steady' = {}
  /\ quiet' = TRUE
  /\ UNCHANGED <<trees, outside>>

\* get_repository_info_impl, of the same question.
has_uncommitted_changes == \E p \in Paths : Flags(p) # Unchanged

-----------------------------------------------------------------------------
\* Trees moved from outside, by an editor or git in a terminal.
Moved(tree, staged, disk) ==
  /\ outside < MaxOutside
  /\ outside' = outside + 1
  /\ head' = tree /\ index' = staged /\ wt' = disk
  /\ answer' = NoAnswer
  /\ quiet' = (scan = "idle")
  /\ steady' = {p \in steady : HasChanged(tree, staged, disk, p)}
  /\ UNCHANGED <<scan, flags, renames>>

Edit(p, content) ==
  wt[p] # content /\ Moved(head, index, [wt EXCEPT ![p] = content])

TerminalAdd(p) ==
  index[p] # wt[p] /\ Moved(head, [index EXCEPT ![p] = wt[p]], wt)

\* git rm --cached
TerminalUntrack(p) ==
  index[p] # Absent /\ Moved(head, [index EXCEPT ![p] = Absent], wt)

TerminalCommit ==
  /\ \A p \in Paths : index[p] # Unmerged
  /\ index # head
  /\ Moved(index, index, wt)

\* git merge stops at a conflict, and leaves it to be resolved.
TerminalConflict(p) ==
  index[p] \notin {Absent, Unmerged} /\ Moved(head, [index EXCEPT ![p] = Unmerged], wt)

StatusSteps == Statuses \/ StagedRenames \/ FullRenames \/ Answer

TerminalSteps ==
  \/ \E p \in Paths : TerminalAdd(p) \/ TerminalUntrack(p) \/ TerminalConflict(p)
  \/ TerminalCommit

Edits == \E p \in Paths, content \in File : Edit(p, content)

Next == StatusSteps \/ TerminalSteps \/ Edits

Spec == Init /\ [][Next]_statusVars

-----------------------------------------------------------------------------
Differences == {"same", "new", "deleted", "typechange", "modified", "conflicted"}
Renames == [from : Paths, to : Paths, staged : BOOLEAN]
Lists == [kind : {"status"}, modified : SUBSET Paths, deleted : SUBSET Paths,
          added : SUBSET Paths, untracked : SUBSET Paths, staged : SUBSET Paths,
          renamed : SUBSET Renames, clean : BOOLEAN]

\* The part of the type invariant of Upkeep that is about the status.
StatusOK ==
  /\ head \in [Paths -> File] /\ index \in [Paths -> Entry] /\ wt \in [Paths -> File]
  /\ scan \in {"idle", "statuses", "staged", "full"}
  /\ flags \in [Paths -> [inIndex : Differences, inTree : Differences]]
  /\ renames \subseteq Renames
  /\ answer \in Lists \union {NoAnswer}
  /\ steady \subseteq Paths
  /\ quiet \in BOOLEAN
  /\ outside \in 0..MaxOutside

\* What was changed when repo.statuses() looked, and still is, carries a flag
\* that some list of the answer is made from.
SteadyIsFlagged ==
  \A p \in steady : \/ flags[p].inIndex \in {"new", "modified", "deleted"}
                    \/ flags[p].inTree \in {"new", "modified", "deleted"}

Answered == scan = "full" /\ answer'.kind = "status"

\* Every path a status mentions.
Mentioned(a) == a.modified \union a.deleted \union a.added \union a.untracked \union a.staged
                  \union {r.from : r \in a.renamed} \union {r.to : r \in a.renamed}

\* A status misses no change (get_status_impl): a path that was changed all
\* through the call is in one of its lists, as a rename if not otherwise,
\* whatever moved between the scans and whatever the rename detection took
\* out of the other lists; and it is called clean only if nothing was.
StatusMissesNoChange ==
  [][Answered => steady \subseteq Mentioned(answer') /\ (answer'.clean => steady = {})]_statusVars

\* repository_ops.rs:779 "so this field and GitStatus::is_clean answer the
\* same question the same way": with nothing moving, a status is clean exactly
\* if get_repository_info reports no uncommitted changes.
CleanAgrees ==
  [][Answered /\ quiet => answer'.clean = ~has_uncommitted_changes]_statusVars
=============================================================================
