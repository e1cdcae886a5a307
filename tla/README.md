# Verification of liminal-git

TLA+ models of liminal-git, TLC runs that check them on small instances, and
TLAPS proofs of what matters most. Paths below are relative to the repository.

## 1. The system

liminal-git is a Rust library, built on libgit2 (`git2`) and exposed to Node.js
through napi. A host calls it from many asynchronous tasks; every blocking call
runs on a thread pool, and several processes may work on one repository. The
library keeps almost no state of its own: what it keeps is the lock registry and
a cache of deleted files, and what it changes is the repository on disk.

| Component | Source | State | Operations |
|---|---|---|---|
| Repository lock | `src/utils.rs` | `REPO_LOCKS` (a mutex per canonical path), `HELD_SCOPES` (locked descriptors by path), the advisory lock on `.git/liminal-git.lock` | `lock_repo`, drop of `RepoLock`, `acquire_scope`, `RepositoryScope::release` |
| Service and lock handle | `src/git_service.rs` | feature flags, the scope inside a `RepositoryLock` | `acquireRepositoryLock`, `release`, and one forwarding method per operation |
| Clone destination | `src/remote_ops.rs`, `src/utils.rs` | a directory on disk | `lock_destination`, `probe_destination`, `clone_impl`, `restore_destination` |
| File operations | `src/file_ops.rs` | index, working tree, HEAD's branch | `move_file`, `move_directory`, staging, `commit_file(s)`, `commit_staged_changes`, `unstage_file`, `restore_file_from_commit`, `discard_changes`, `commit_amend` |
| Branch operations | `src/branch_ops.rs` | refs, HEAD, index, working tree | create, checkout, delete, `fast_forward`, `merge_analysis`, listing |
| Merge operations | `src/merge_ops.rs` | refs, index, working tree | `merge`, `commit_merge`, `cherry_pick`; `read_blob` |
| Remotes | `src/remote_ops.rs` | configuration, remote-tracking refs, branches of a server | `fetch`, `push`, `clone`, credentials; `add_remote`, `set_remote_url`, `remove_remote`; `list_remotes`, `get_upstream_status` |
| Status | `src/repository_ops.rs` | none | `get_status`, `get_repository_info` |
| Repository maintenance | `src/repository_ops.rs` | git's lock files, index, configuration | init, repair, health, configuration, `remove_all_remotes`, `.gitignore`, `.gitattributes` |
| Tags | `src/tag_ops.rs` | tags | `create_tag`, `delete_tag`; `list_tags`, `get_tag` |
| History | `src/history_ops.rs` | `DELETED_FILES_CACHE`, one for the process | `get_commit_history`, `get_deleted_files`; file history, diffs, trees, file contents, `resolve_ref` |
| Validation, errors, types, flags | `src/validation.rs`, `src/errors.rs`, `src/types.rs`, `src/feature_flags.rs` | none | pure functions |

How they interact. The service (`git_service.rs`) validates the arguments of a
call and moves it to a thread of the blocking pool, where every operation that
changes an existing repository runs under `lock_repo`; a clone runs under
`lock_destination` instead. A host may hold the repository over a sequence of
calls with a `RepositoryLock`. Create and
checkout share one checkout routine, and every refused checkout, that of a
fast-forward or a merge included, is explained by `checkout_refusal` of
`branch_ops.rs`; commits of listed or staged files and of moves end in
`commit_impl` of `file_ops.rs`. A merge that can be a fast-forward becomes one, and
every other merge, resolution and cherry-pick ends in `finish_merge`. Whatever
libgit2 reports on its way out is classified by `errors.rs`, which tells the host
whether to repeat the call. Reads (status, history, health, listings) take no lock.
Nothing is shared in memory but the two maps of the lock and the cache of deleted
files: every other interaction goes through the repository on disk, where
programs that do not take the lock (an editor, `git` in a terminal, the library
in another worktree) may act between any two steps.

What is hard in each component, and what makes it correct:

| Component | Hard | Correct when |
|---|---|---|
| Repository lock | two layers, two holders of the second one (a running operation, a scope), an operation that skips the file on the strength of a scope, releases repeated and late, deadlines, process death at any point | one operation per lock file at a time; it is covered by a descriptor until it ends; a scope keeps other processes out until its own release; a call inside a scope on its path does not wait for it; every wait that has a deadline ends |
| Clone destination | a probe, a clone and a clean-up with no transaction; exclusion in one process only; a directory the clean-up may not own | nothing that was there before is removed; a caller told to retry meets nothing of its own process; no clone of the same process harms a finished one |
| Branch operations | checks made before files are written, HEAD moved after; three kinds of refusal; baseline and target read at different moments; an editor that saves at any time; other worktrees | a refusal changes nothing; a safe call writes no file with uncommitted content; the result has HEAD, branch and files that agree; no branch is taken twice, none loses commits |
| File operations | plan and application are apart; the index is loaded once and written back; HEAD is read twice; the check for lost work comes before the overwrite | a commit holds what was on disk; a failed list leaves index and HEAD alone; commits only build on HEAD; unforced restore spares edits |
| Merge operations | HEAD is read when a merge is computed, files are written next and the reference last, by force; what the writer resolved may be of another merge; libgit2 does not protect an edited file that the merge deletes | a refusal has no effect; a merge that lands is whole and on top of what was there; a resolution is of exactly the conflicts at the HEAD it was made for; edited pages survive, and are named |
| Remotes | a push rejected by a transport that succeeds, an answer that is lost, branches that move between advertisement and update, a server that asks for credentials again and again, a code that makes a host repeat a call | a push is reported as it went; nothing is pushed off a server; a host that repeats what it is told to comes to an end |
| Status | three scans of a tree that moves, and renames taken out of the lists by a later scan | a change that lasts is in one of the lists; clean means that there was none |
| Maintenance, tags | several writes that may be locked out half-way; lock files whose owner may be alive; a check before the write it is for | what reports success has been done; a tag is only moved by force |
| History | a cache keyed by a HEAD that is read apart from the walk; pages of a history that grows | a list is of a HEAD no older than the cache allows; following the pages misses nothing |

`PROJECT.json` lists every such hazard at its line, with the properties that
cover it or the reason why none does.

## 2. Modules

| Module | What it is |
|---|---|
| `RepoLock` | the two-layer lock, the scope and its handle, deadlines, I/O errors, crashes; its invariants, the inductive invariant and the liveness properties |
| `ExclusiveAccess` | what the lock promises, with nothing of how: an owner and a worker per lock file |
| `RepoLockRefinement` | the mapping under which `RepoLock` implements `ExclusiveAccess` |
| `CloneDestination` | clones into one directory |
| `Checkout` | create, checkout, delete, fast-forward |
| `Staging` | staging, commits, amend, moves of a file or a directory, unstage, restore, discard |
| `Merge` | merge, commit_merge, cherry_pick, over an instance of `Checkout` |
| `Remotes` | fetch, push and clone against servers, credentials, classification of failures, a host that retries, management of a remote |
| `Status` | the status of a working tree that moves |
| `Upkeep` | extends `Status`: repair, health, configuration, removal of all remotes, tags |
| `History` | pages of history, and deleted files with their cache |
| `RepoLockProofs`, `CloneDestinationProofs`, `CheckoutProofs`, `StagingProofs`, `MergeProofs`, `RemotesProofs`, `UpkeepProofs`, `HistoryProofs` | theorems about the module of that name; `RepoLockProofs` also that it implements `ExclusiveAccess`, `UpkeepProofs` also about `Status` |
| `MC*` | the small instances TLC checks |

`Checkout`, `Staging`, `Merge`, `Remotes` and `Upkeep` model one call that writes at a
time: that only one runs in a checkout is what `RepoLock` establishes
(`MutualExclusion`), and why a call begins only when the phase is idle. Their
interleavings are those of the one running call with the programs the lock does
not exclude; in `Upkeep` a status, which takes no lock, is one of these, and
`History` has nothing but reads, any number at a time.

### RepoLock

One action is one step between points where another thread or process can get
in: `process_mutex.lock()`, the look at `HELD_SCOPES`, `file.try_lock()`, the two
drops at the end.

| State | Code |
|---|---|
| `processMutex` | `REPO_LOCKS` of each process: path to mutex |
| `heldScopes` | `HELD_SCOPES` of each process; an entry owns a locked descriptor |
| `opFile` | the threads whose `RepoLock._file` is `Some` |
| `handles` | the `RepositoryLock` objects whose `scope` is `Some` |
| `released` | `RepositoryScope.released` of the scope a releasing thread owns |
| `pc`, `path`, `expired` | where a call is, its path, whether its deadline has passed |
| `GitDir` (constant) | `lock_file_path`: which canonical path leads to which lock file |

`Op...` actions are `lock_repo`, the operation and the drop of `RepoLock`;
`Scope...` actions are `acquire_scope`; `HandleRelease`, `HandleReleaseAgain` and
`Release...` are `RepositoryLock.release`, `RepositoryScope::release` and the drop
that follows it. `DeadlinePasses` is the clock and `Crash` the death of a process:
its statics are gone, the kernel closes its descriptors, its threads start anew.
Several paths may lead to one lock file (a symbolic link in the place of `.git`),
which the constant `GitDir` allows. The lock file itself is kept for ever in the
code and so has no state here. An operation is one point, `op_run`; its end is an
action of its own because it may never come.

### CloneDestination

The destination is a directory that may exist (`exists`) and the files in it, each
with its name and who put it there (`entries`: a clone, or somebody before). Each
file-system call of the crate is a step: `exists()`, `read_dir`, `create_dir`, and in
`restore_destination` the reading of the directory (`RestoreLists`), then the removal
of one entry after another (`RemoveEntry`), and last of a directory the probe has
created (`RemoveDirectory`). Each of these may fail, the reading half-way, and other
processes come in between. libgit2's clone is a step for each of its phases (the check
for an empty directory, initialisation, checkout); its own clean-up is one step that
removes any part of what is there, as the library does not look at its result.
`listed` and `cleared` are the entries yet to be removed and the local of that name,
`missed` a history variable: what a failing reading kept from the list. `found` is the
`DestinationState`, `outcome` and `retriable` what the caller gets from `clone_failure`.
`processMutex` is the lock of `lock_destination`, which excludes the threads of one
process.

### Checkout

State: `head`, `refs`, `index`, `wt`, and `elsewhere`, the branches other worktrees
have. A file holds a content or is absent; a commit is a tree and its ancestors.
A call is cut where it reads what it relies on later: the branch found and its
worktree checked (`FindBranch`), the tree written (`CheckoutTree`), HEAD moved
(`SetHead`) or the branch (`SetTarget`), `checkout_head` (`Settle`); and for a deletion
the reading of HEAD's name and of the branch (`DeleteCall`), the merge check, which
reads HEAD's commit (`DeleteChecks`), and the deletion (`DeleteBranch`). `ActualConflicts`,
`UntrackedCollisions` and `Refusal` are `collect_actual_conflicts`,
`collect_untracked_collisions` and `checkout_refusal`. Between any two steps an
editor may save; git in a terminal may stage, fast-forward, switch HEAD to another
branch or commit (`TerminalSwitches`) and reset it, softly or with its files
(`TerminalResets`); another worktree may take, leave, commit to or reset a branch, this
one's included; and the process may die, also in the middle of the tree
(`TreeInterrupted`). Branches that others create or delete are not modelled.

`untouched` is a history variable: the repository as it would be had the call
done nothing, kept up to date with what others do to files and index. It lets a
property compare the end of a call with its beginning, several steps earlier. Its
`alone` says that no other git has worked during the call, its `stayed` that HEAD has
been neither switched nor reset: `ForwardOnlyAdvances` and `UnforcedDeleteLosesNothing`
hold under the latter, and section 4 says what happens without.

### Staging

State: `log` (the commits in the order made), `head`, `index`, `wt`. An operation
keeps in memory the index it has loaded (`memory`), the paths planned as added
(`adds`) and the parent it has read (`tip`). Commits of listed paths go through
`PlanStaging`, `ApplyStaging`, `Compare`, `ReadParent`, `Commit`; commits of what is
staged and moves enter at `Compare` or before it; an amend reads and writes; a
restore checks and writes. The move of a directory goes from file to file
(`WalkRename`, `WalkAdd`, or `WalkPast` where there is none), then removes the
directory and writes the index it loaded at the start (`RemoveDirectory`). History variables: `seen`, what each file has held
since the operation began; `before`, the index it found, with what others staged
since; `moved`, whether another git has committed since.

### Merge

The repository, its working tree, everybody outside, libgit2's checkout and the
explanation of a refusal are those of `Checkout`, taken in as `C == INSTANCE Checkout`
over the same variables; `Shared` are the steps both have, terminals that switch or
reset HEAD and other worktrees that commit included. A merge that is a
fast-forward becomes the call of that module (`Forward`). New is `merge`: whether a
merge commit is insisted on, the HEAD a resolution is for and its files, and the
reference, tree and parents of the commit to come. `MergeCommits`, `CommitMerge` and
`Pick` compute a tree in memory; all three then run `finish_merge`, cut into the check
(`FinishRefuses`, `MakeCommit`), the checkout (`C!CheckoutTree`) and the reference
(`MoveReference`). Commits are named by what they hold, so the constant `Commits` has
every commit a call may make; `Known` are those one starts from.

### Remotes

One remote, its server and other people. A call goes through the phases of its
connection (`connect`, `credentials`, `judge`, `talk`), then `transfer` and `land` for a
fetch or a clone, `negotiate`, `send` and `report` for a push. `server` has the branches
at each URL, whether it answers and whom it lets in; `busy` is another git that holds
a reference's lock. `landed` is a history variable: the server has had the pushed
commit on that branch while the call ran. A failure is libgit2's class, code and
message; `classify_git_failure`, `git_failure_is_retriable`, `OperationFailed` and
`CloneFailed` make of it what a host is told, and `Retry` is the host of
`README.md:615`, which repeats what is retriable and nothing else.

### Status and Upkeep

`Status` has HEAD's tree, index and working tree, and a `get_status` of three scans:
`Statuses` (`repo.statuses()`), `StagedRenames` and `FullRenames` (two diffs with rename
detection, whose pairs libgit2 chooses among those alike), then `Answer`, which makes
the lists. `steady` is a history variable: the paths that have been changed all
through the call. `Upkeep` extends the module with what its operations write: git's
lock files with their owners dead or alive, whether the index can be read and HEAD
leads to a commit, two settings, remotes, tags. `op` is the step of the running
operation, `job` its arguments and what it has left to do, `old` a history variable:
what it found, or was given, and nobody else has touched. Git in a terminal needs
the index and its lock; it does not commit on a commit it cannot read, and on an
unborn HEAD it makes the first one (`TerminalCommits`).

### History

A reader of deleted files reads HEAD three times: for the cache key (`GetDeletedFiles`),
for the walk (`BeginWalk`) and for the tree (`Scan`); `Hit` answers from the cache and
`Store` fills it. A list that was made while HEAD moved is marked `mixed`. `host` is a
program that turns pages, from `total_count` on while `has_more` says so. History
variables: `left`, when HEAD last left a commit; `first`, `kept`, `ahead`: HEAD at the
first page, whether it has stayed there, and whether it has only moved forward.

### What is assumed of libgit2

The library is a thin layer over libgit2, so its behaviour is part of the model,
from how the code uses it:

- a safe `checkout_tree` takes HEAD's tree as its baseline, refuses as a whole
  when a file it must write holds neither the baseline nor the target, and writes
  the rest otherwise; a forced one writes every file of either tree. A write cut
  short leaves some files written and the index as it was;
- an untracked file that already holds what the target adds may or may not be a
  conflict (`Doubtful`): nothing here depends on which;
- `Reference::set_target`, `Branch::delete` and `Repository::commit` on `HEAD` refuse
  when the reference is no longer what was read; `Commit::amend` moves HEAD whatever
  it is at;
- `set_head` refuses a branch of another worktree, from an attached HEAD only;
- `graph_descendant_of` is strict: a commit is no descendant of itself;
- a `Repository` handle loads its index once, and writes back what it loaded;
- `merge_commits` and `cherrypick_commit` merge three trees in memory, file by file,
  and touch neither index nor files; `repo.commit(None, ...)` moves no reference, and
  `repo.reference` with force moves one wherever it is by then;
- a push whose refspec has no `+` is refused unless the new commit descends from what
  the server advertised; the server compares again when it updates, and may reject
  for reasons of its own; the tracking branch follows what the server took;
- the credential callback is called until it fails, the server is content or the
  transport gives up;
- a walk sorted by time has the commits of every branch in one order, as long as no
  commit is dated before its parents;
- rename detection pairs a file that went with at most one that came, and leaves out
  no pair it could make;
- who writes index, configuration or a reference makes the lock file of it first, and
  fails if there is one.

## 3. Runs

| Run | Distinct states | Shows |
|---|---|---|
| `lock` | 121,672 | two processes, three threads, two paths to one lock file: mutual exclusion, cover, no operation that polls for a scope of its own path, handles that hold; refinement of `ExclusiveAccess`; under `FairSpec`, `acquire_scope` returns although an operation hangs, and if operations end a quiet host sees all its calls return |
| `clone` | 685,861 | three clones, two of one process, cleaned up entry by entry: a finished clone is safe from its own process, earlier files stay, a caller told to retry meets nothing its own process left |
| `checkout` | 1,114,655 | two calls, safe or forced, beside two steps from outside, switches and resets included: refusals change nothing, uncommitted work survives, no branch that is held is taken, none loses commits while HEAD stays |
| `staging` | 2,732,567 | every file operation beside two steps from outside, up to two commits: commits hold what was on disk and follow HEAD, failed lists and directories leave index and HEAD alone |
| `merge` | 851,984 | two calls of merge, commit_merge and cherry_pick beside a step from outside: refusals touch nothing, merges land whole, resolutions are complete, edited pages survive and are named |
| `remotes` | 619,366 | any number of calls and retries beside three steps of a server, other people or a terminal: pushes are as reported, the server loses nothing, the retry loop ends |
| `upkeep` | 900,436 | one maintenance operation and statuses beside two steps from outside: a status misses no change, repair, configuration and removal of remotes do what they report, tags are not moved unasked |
| `history` | 2,520,952 | three calls by two threads and a host, over two repositories and two moves of HEAD: lists are of their time, pages of one and of two commits miss nothing |
| `lock_worktree` | violation | operations on a main checkout and on a linked worktree of it run at once |
| `clone_two_processes` | violation | the loser of two processes starts its repository inside the winner's tree |
| `staging_unstage` | violation | an unstage that succeeds and leaves the deletion staged |
| `status_clean` | violation | a repository with a conflict that is reported as clean |

Each property of a passing run has a mutant in its module: an operator, defined
just before the one it stands for and commented `Mutant of`, that changes it the
way a plausible bug would, and under which TLC finds the property violated.

### Bounds, and why they are enough

- *Lock*: three threads, so that an operation and a release, or two operations and
  a scope, meet in one process, with a third contender in another. Two paths to one
  file, so that a process meets its own lock under another key. Timeouts, retries,
  releases and crashes are not bounded: the state is finite without. The theorems
  of section 5 remove the bound for the safety properties, here and below.
- *Clone*: three clones of one destination, any number of times; one pair in a
  process, one clone against it; two names in the directory, so that a reading or a
  clean-up stops between them. Not bounded otherwise.
- *Checkout*: a history of four commits in which a file is modified, added, deleted
  and left alone between some pair; two branches; two files, so that one can be in
  the way while the other is not; three contents, so that a file can differ from
  HEAD and from the target; HEAD on one branch at first, and on the other or detached
  once a call or the terminal has moved it. `MaxCalls` 2, so that
  what a call leaves behind meets another; `MaxOutside` 2, so that a save and a stage,
  or a branch taken and moved, or HEAD switched and reset, meet one call.
- *Staging*: two files, two contents (a file has two values besides its absence),
  two commits, two steps from outside. Files are interchangeable and so are
  contents, so the run uses symmetry; it checks no liveness. A directory has one
  file, which may vanish, return or be overwritten on the way. A failure between two
  files of a larger one leaves the index unwritten like a failure between a file's
  move and its staging, which the run has.
- *Merge*: a history with a clean merge, one that deletes a file, one that conflicts
  in one file and not in the other and a fast-forward, after which the branch is up
  to date; five lists of resolutions, complete, incomplete, repeated and strange.
  `MaxCalls` 2, so that a merge follows a refused one; `MaxOutside` 1: a save, a stage,
  a commit, a switch or a reset in a terminal or a commit of another worktree, at every
  point of a call. Only safe checkouts: a merge
  makes no other.
- *Remotes*: one branch with two commits that diverge, a server and an address that
  cannot be parsed, three ways to ask for credentials, hosts with everything and with
  nothing. `MaxAttempts` 2 stands for the 8 of the code: nothing depends on the number
  but that there is one. `MaxOutside` 3, so that a server breaks down, is pushed to
  and comes back in one loop of retries. Calls are not bounded.
- *Upkeep*: two files of one content, one of them perhaps staged, moved or deleted;
  two settings and two remotes, so that the second is locked out after the first;
  every lock file left behind or not, an index that can be read or not. One operation:
  it keeps nothing for the next. `MaxOutside` 2: a lock file is made and its owner
  ends or dies, or two trees move between scans.
- *History*: three commits, a merge and its two ancestors, in which a file is moved
  and another deleted; two repositories and two readers, which are interchangeable;
  lists as long as two entries. Pages of one commit and of two (`PageSizes`), so that a
  second page follows from every commit with an ancestor, and is asked for after HEAD
  has moved forward as well as while it stays. `TTL` 2, `MaxTime` 2, `MaxCalls` 3, `MaxMoves` 2: a list is
  made, HEAD moves twice, and the list is asked for before and after it is too old.

No run needs a state constraint. Deadlock is checked except in `upkeep`, whose
operations and steps from outside are bounded, and `history`, whose calls, time and
moves are: there the model comes to its end. Elsewhere a host can always make a
further call: calls that are refused at once are not counted.

### Fairness

`lock` and `remotes` check liveness. In `lock`, `ThreadsRun` gives weak fairness to the
steps of `lock_repo`, of `acquire_scope` and of `release`, to the drop of the mutex and
to the clock: a runnable thread of the blocking pool runs, and time passes. Weak
fairness is the most the code justifies. In particular nothing is assumed of
`std::sync::Mutex`, which promises no waiter its turn: a thread whose mutex is taken
over and over is not continuously enabled and may wait for ever. Nothing makes a
host call, a release begin or a process die, and I/O errors need not happen.

That an operation under the guard ends (`OperationsEnd`) is not assumed: fetch and
push wait for a network. It is the hypothesis of `CallsSettle`, and absent from
`ScopeCallReturns`. `CallsSettle` also supposes that the host stops making calls, since
without a fair mutex a busy host may starve one.

In `remotes`, weak fairness of the steps of a call and of `Retry`: a thread runs, a
server that is up answers, and a host does repeat what it is told to. That servers
are up is not assumed: `RetryLoopEnds` has it as its hypothesis that from some time on
every server can be reached (letting in or not, with or without the repository) and
that no other git holds a reference's lock. A call to a server that neither answers
nor hangs up is not in the model; the code has no timeout of its own for it.

## 4. Findings

Where the run's counterexample contradicts a sentence of the repository;
`PROJECT.json` quotes both.

1. `lock_worktree`: `utils.rs:237` says that following the `.git` file keeps every
   checkout of a repository on one lock. It leads to `<main>/.git/worktrees/<name>`,
   a directory per worktree, so each has a lock of its own.
2. `clone_two_processes`: `utils.rs:363` says the loser of two processes meets
   `DESTINATION_NOT_EMPTY` against a tree the winner owns, rather than an interleaved
   one. If both found the directory empty, and libgit2 did too, the loser initialises
   its repository inside the winner's finished tree. If libgit2 refuses it, or fails
   later, the loser's clean-up removes the winner's files.
3. `staging_unstage`: the comment at `file_ops.rs:529` says a file that HEAD has is
   reset to HEAD's version. A path without an index entry is taken for one that is
   not staged, so a staged deletion stays staged and the call succeeds.
4. `status_clean`: `repository_ops.rs:779` says that `has_uncommitted_changes` and
   `is_clean` answer the same question the same way. `get_status` has no list for a
   conflict, nor for a file that became a link, so it says clean where the other says
   uncommitted changes.

Met while modelling and followed by the models, without a run of their own.

Clones:

- `remote_ops.rs:587` says that `restore_destination` returns whether it succeeded, since
  a retry would otherwise meet `DESTINATION_NOT_EMPTY`. It goes over `entries.flatten()`
  (`remote_ops.rs:598`), which drops an error of the reading: entries stay, and the
  answer is yes. With two processes the same comes of a clone that writes while the
  other cleans up. `RetryMeetsNothingOfItsOwn` names the two as its only exceptions.

The lock:

- `README.md:217` promises `REPOSITORY_LOCKED` within ten seconds. The process mutex
  (`utils.rs:292`) is taken with a blocking `lock()` before the deadline starts, so a
  call behind a hanging operation of its own process waits with it. `acquire_scope`
  polls the mutex and keeps the promise.
- `git_service.rs:46` says releasing waits for a running operation. The second of two
  concurrent calls of `release()` finds the scope taken and resolves at once, while
  the first still waits (`HandleReleaseAgain`, `StaleReleaseReturn`).

Branches and files:

- `README.md:479` says a branch of another worktree is refused, also from a detached
  HEAD. The check precedes the writing of the tree, and `set_head` does not look
  again when HEAD is detached, so a branch that the other worktree takes in between is
  taken twice; by finding 1 the lock does not exclude the other worktree. A safe
  checkout that `set_head` refuses has already written the tree.
- `branch_ops.rs:846` says that the branch is moved when that is a strict fast-forward.
  The branch is read from HEAD (`branch_ops.rs:865`) before the merge analysis reads HEAD
  again (`branch_ops.rs:893`). When a terminal switches or resets HEAD in between, the
  analysis is of another commit, and the branch may be moved to one that does not
  descend from it. `set_target` asks no more than that the branch has not moved.
- `branch_ops.rs:274` checks that a branch is merged before it is deleted. When HEAD is
  reset or switched after the check, the branch's commits may be left on no branch.
  They are never others than those it had when the call read it, which is the second
  half of `UnforcedDeleteLosesNothing`.
- `README.md:472` says both refusals of a checkout name the exact paths. A file staged
  for the first time, and a modified file that the target deletes, are in neither
  list, and the refusal is the plain git error.
- `README.md:459` says that what writes the working tree refuses rather than overwrite a
  page the writer has not committed. A version that is only staged, and no longer on
  disk, is overwritten in the index by a safe checkout or a fast-forward.
- `branch_ops.rs:161` says a checkout of the new branch cannot conflict because it
  points to HEAD. With `from_commit` it may, and the refused call leaves the branch
  behind; `RefusalTouchesNothing` therefore leaves `create` out.
- A branch at HEAD's own commit is refused as not merged (`branch_ops.rs:661`, because
  a commit is no descendant of itself), although nothing would be lost.
- `README.md:142` says the list of `commit_files` states exactly what the commit
  contains. `commit_impl` writes the whole index, earlier staging included.
- The comments at `file_ops.rs:800` and `file_ops.rs:869` announce `DetachedHead`; a
  detached HEAD has a target, so discard and amend accept it.
- A `move_file` whose staging or commit fails leaves the file renamed on disk, and a
  `commit_files` whose commit fails leaves the paths staged. `move_file` and
  `move_directory` overwrite what is at the destination.
- `move_directory` ends with `remove_dir_all` of the source (`file_ops.rs:123`): a file
  that came into it behind the walk is deleted, and a tracked file that was not on
  disk stays in the commit.
- An amend forces HEAD: a commit made in a terminal after HEAD was read is dropped.

Merging:

- `merge_ops.rs:621` says that moving the reference cannot meaningfully fail. If another
  git holds its lock, the merged tree is on disk and in the index, and the call
  fails (`MoveReferenceFails`); a process that dies there leaves the same.
- A page that the merge deletes, edited after the check for dirty pages, makes the
  checkout refuse with no file named.
- The forced reference drops a commit that a terminal made while the merge ran.

Remotes:

- `types.rs:393` describes `updated_refs` as the references that moved; `fetch` reports
  every reference the server advertised (`remote_ops.rs:283`).
- With no credentials and a helper that knows none, the failure is
  `GIT_OPERATION_FAILURE` (`remote_ops.rs:44`), not `AUTHENTICATION_FAILED`.
- `set_remote_url` leaves a `pushurl` alone, so a push still goes where it went.

Maintenance, tags, history:

- `repository_ops.rs:490` calls the lock files that repair removes stale; those of a
  live git go too. The hard reset that repairs an index takes every edit of a
  tracked file with it. Repair succeeds with an index that still cannot be read if
  HEAD's commit is missing.
- `is_repository_healthy` calls a repository with no commit yet unhealthy, and looks for
  a lock file that is literally named `*.lock`.
- `configure_repository` that is locked out half-way leaves what it has written.
- `get_tag` of a tag that is not there is an error, although its type has room for
  none; annotated tags are reported as lightweight, because the reference is peeled.
- A list of deleted files that was made while HEAD moved is stored under the HEAD that
  was read first, and served whenever HEAD is there again; a cached list is
  answered whatever limit is asked for.

## 5. Proofs

Every invariant, action property and refinement that a passing run checks is also a
theorem, as is the type correctness of every module, for every value of the
constants: any number of processes, threads, calls, steps from outside, branches,
commits, files and contents. `PROJECT.json` lists the theorems with the property each
states.

| Module | Theorems (property) |
|---|---|
| `RepoLockProofs` | `TypeCorrect`, `LockInvariant`, `OneOperationPerFile` (`MutualExclusion`), `OperationsAreCovered` (`RunningIsCovered`), `ScopesExcludeOtherProcesses`, `NoOperationWaitsOnItself` (`NoSelfWait`), `HandlesHoldTheirLock` (`HandleIsHeld`), `Refinement` (`ImplementsExclusiveAccess`) |
| `CloneDestinationProofs` | `TypeCorrect`, `CloneInvariant`, `WinnerIsSafe` (`WinnerIsSafeFromItsOwn`), `OthersAreKept` (`OthersKeepTheirFiles`), `RetryIsNotInItsOwnWay` (`RetryMeetsNothingOfItsOwn`) |
| `CheckoutProofs` | `TypeCorrect`, `CheckoutInvariant`, `RefusalsTouchNothing` (`RefusalTouchesNothing`), `SafeCallsSpare` (`UncommittedWorkSurvives`), `OwnChangesAreCarried` (`OnlyOwnChangesAreCarried`), `BranchesTakenAreFree` (`OnlyFreeBranchesAreTaken`), `ForwardAdvances` (`ForwardOnlyAdvances`), `DeleteLosesNothing` (`UnforcedDeleteLosesNothing`) |
| `StagingProofs` | `TypeCorrect`, `StagingInvariant`, `CommitsOnHead` (`CommitsFollowHead`), `CommitsAreFromDisk` (`CommitHoldsWhatWasOnDisk`), `RestoresSpare` (`RestoreSparesEdits`), `FailuresLeaveNoTrace` (`FailedPathsChangeNothing`) |
| `MergeProofs` | `TypeCorrect`, `MergeInvariant`, `RefusalsTouchNothing` (`RefusalTouchesNothing`), `EditsSurvive` (`UncommittedWorkSurvives`), `MergesLandWhole` (`MergeLandsWhole`), `ResolutionsAreComplete` (`ResolutionIsComplete`), `EditedAreNamed` (`EditedPagesAreNamed`) |
| `RemotesProofs` | `TypeCorrect`, `RemotesInvariant`, `PushesAreReported` (`PushIsAsReported`), `PushesForward` (`ServerLosesNothing`) |
| `UpkeepProofs` | `TypeCorrect`, `UpkeepInvariant`, `StatusIsComplete` (`StatusMissesNoChange`), `RepairsAreHealthy` (`RepairedIsHealthy`), `SuccessesAreComplete` (`SuccessIsComplete`), `TagsMoveByForce` (`TagsMoveOnlyByForce`) |
| `HistoryProofs` | `TypeCorrect`, `HistoryInvariant`, `ListsAreOfTheirTime` (`ListIsOfItsTime`), `PagesAreComplete` (`PagesMissNothing`) |

`ScopeExcludesOtherProcesses`, and `TypeOK` of `Upkeep` and `History`, are proved for every
instance and have no run.

### How the proofs go

Hardly any of these properties is inductive, and most speak of one step: that the
step which ends a call finds what an earlier step has established. So each module
ends with an `IInv`, the conjunction of named parts that say what a call has read or
done so far and how far it still holds at its later steps. TLC checked each `IInv` on
the instance of the run before it was proved. A `...Proofs` module then has a lemma
per action, or per group of actions that change the same things (`InvariantStep`
combines them), the theorem `Spec => []IInv`, and each property from `IInv` and the few
steps that can end a call, move a reference or write a file.

### Assumptions

All hypotheses are the named `ASSUME`s of the modules, which TLC evaluates in the
runs. Most say what a constant is: distinct names for absence and content, a process
for each thread, bounds that are numbers. Those that say more:

- `CheckoutAssumption`, `RemotesAssumption`: a commit is among its own ancestors, and in
  `Checkout` the ancestors of an ancestor are ancestors. `Merge` needs neither;
- `StagingAssumption`: a directory's files go to distinct places apart from the
  directory. Nothing in the code refuses a target inside the source, which is not
  modelled (section 6);
- `UpkeepAssumption`: `Remotes` is finite, since the loop over the remotes is a walk
  through a list of them;
- `HistoryAssumption`: the walk from a commit has all of the walk from each ancestor,
  and nothing of it sooner. This is the order by time, as long as no commit is dated
  before its parents. With clocks that went back a commit may slip from a later page
  to an earlier one, and a host that follows the pages while HEAD moves may miss it;
  `ListIsOfItsTime` and the first half of `PagesMissNothing` do not depend on it.

### The inductive invariants

*RepoLock.* Mutual exclusion is not inductive. An operation that runs without a
descriptor relies on its process's scope, a scope relies on nobody but its owner
ending it, and an owner relies on a flag. `IInv` names each link:

- `MutexIsOwned`: a thread past the process mutex is its registered owner. So for one
  key at most one thread of a process is between the look at `HELD_SCOPES` and the
  end of its operation, or in the removal of a scope;
- `OneDescriptorPerFile`: over all processes, and over operations and scopes alike, a
  lock file has one locked descriptor. With `RunningIsCovered` it gives mutual
  exclusion across processes and across spellings of a path;
- `DescriptorsAreUsed`: a thread owns an operation's descriptor only while the
  operation runs, so that no finished or failed call still holds the file;
- `ScopeHasOneOwner`: a scope entry whose removal is pending belongs to exactly one
  thread or one handle. Without it a late release could remove the entry of a later
  scope on the same path, and `HandleIsHeld` would fail;
- `ReleasedIsMarked`: the flag is set from the start of a release to the drop of the
  object, which makes the second `release()` of the drop harmless;
- `RunningIsCovered`, `NoSelfWait` and `HandleIsHeld` are properties of their own that
  feed back: the entry an operation runs under cannot be removed (the remover needs
  the mutex), and none can appear while an operation polls.

`Refinement` maps each lock file to the process that holds its descriptor and the
thread that works on it. Both are chosen with `CHOOSE`; the invariant makes them unique
(`OwnerDefined`, `WorkerDefined`). `RefinesStep` then takes the actions one by one:
most leave holder and worker of every file alone, the others take, pass or give up
one, and a crash gives up all of a process.

*CloneDestination.* `MutexIsOwned` as above, and `ProbedStaysOurs`: since a clone's probe
found the destination empty, no one of its own process has put files there and no
one's files from before are there. That is why the clean-up may remove everything, and
it says nothing of other processes, which finding 2 is about. `ClearedSoFar`: while the
clean-up's answer is yes, what is left of its own process's files has a name it has yet
to remove, or one that a failing reading kept from it; at the end of the list only the
latter is left. `OutcomeIsOfLast`: a thread with
an outcome is idle, so whoever harms a finished clone is another thread.

*Checkout.* `PhaseHasItsCall` ties arguments to steps. `OldIsBehind`: while HEAD stays, the
commit a fast-forward or a delete has checked is still an ancestor of where HEAD is
now, or of the target: commits and fast-forwards only add to it, whoever makes them.
A delete removes the branch at the commit it has read or not at all, which is why what
it loses when HEAD went is bounded by that commit. `NothingWritten` and `FoundIsCurrent`: before its first write a
call has changed nothing, and what it found out of the branch is so, unless another
git was at work. `RestIsOwn`: once the tree is written, what is not the target's is what
the writer had, and was not HEAD's. It is the heart of `OnlyOwnChangesAreCarried`: the
step that writes must have seen every path that differs.

*Staging.* `SeenIsCurrent`: the history variable misses nothing that was on disk.
`StagedWasOnDisk` says for each step where the version to be committed is: in the plan,
in the loaded index, on disk or in the index, and that it was on disk at some time of
the call. `IndexIsUntouched`: whoever works on a loaded index has not written it, hence
`FailedPathsChangeNothing`. `NothingWasLost` is the check of an unforced restore.

*Merge.* `NothingWritten` and `RestIsOwn` as in `Checkout`, of a sequence that moves its
reference last. `ComputedOnHead`: the commit to be landed has the commit HEAD was at as
its first parent. `ResolvesAsAsked`: at each path the tree is what the writer resolved or
one of the sides, by `ThreeWayIsOneSide` and `OverlaidIsResolved`. The theorems hold for
whatever base is chosen among several.

*Remotes.* `RemoteIsThere`: the remote stays configured while a call runs.
`UpdateIsForward`: an update on its way follows the advertised tip, and the server
compares again, hence `ServerLosesNothing`. `OutcomeIsKnown`: once the server has
spoken, the call's note of a rejection and what happened on the server agree; with
`FailuresAreTyped`, that no failure is ever reported with the code of a success, and
that a lost connection is retriable, this is `PushIsAsReported`.

*Upkeep and Status.* `SteadyIsFlagged`: a path that was changed all through a status is
flagged by the first scan, so it is in a list unless a rename took it out, and then
in that rename. `LocksAreListed`, `KeysAreListed`, `RemotesAreListed`: what a loop found or
was given, and nobody else has touched, is done or still on its list; at the empty list
the operation reports success.

*History.* `CallsAreOfTheirTime` and `EntriesAreOfTheirTime` date what a reader and an entry
of the cache hold by when HEAD was there and when it last left, so that an entry
that is good by age is good by time. `PagesFollowHead`: what the walk from HEAD has before
the host's offset, of what the first page was of, the host has been shown. While HEAD
moves forward commits slip to later pages only.

### What the proofs found

- The way two versions of a path differ (`Differ`) was a `CASE` with overlapping arms. TLC
  takes the first; the language leaves it open, and the proof of `StatusMissesNoChange`
  failed on it. It is now a chain of conditions, in the order of the code.
- `ListIsOfItsTime` needs `TTL` to be positive: an entry that is stored and read at one
  time is of that time.
- No `IInv` needed a guard or a condition that the code does not have.

### Only model-checked

- *Liveness*: `CallsSettle` and `ScopeCallReturns` of the lock, `RetryLoopEnds` of the
  remotes. Fairness and `ENABLED` are out of the prover's reach.
- *The four findings* of section 4, which are counterexamples.
- *What a recursive definition computes for every input*, here only that the walk of the
  deleted files, over a history of any length, lists what it should: induction over
  data is out of reach. The theorems about `History` take `deleted_files` as it is, a
  function of commit and limit; that its entries are well typed is proved.

## 6. Not modelled

- *Listings, diffs, trees and contents at a commit, file history, upstream status, merge
  analysis for its own sake*: they read immutable objects from one place, or one
  reference; what they return is a matter of libgit2.
- *The init family, `.gitignore` and `.gitattributes`*: one call of libgit2 and at most
  two writes, in a directory nobody else uses yet. `init_repository_with_config` checks
  `line_ending` after it has made the repository, so an invalid one leaves it behind.
- *Validation, error texts and details, options, flags*: pure functions over strings
  that unit tests reach; the models take arguments that passed them.
- *Ignored files in a checkout, file modes, line-ending filters, submodules, identities,
  messages*: no property tells them apart from what is modelled. Symbolic links and
  unmerged entries are in `Status` only, several merge bases nowhere.
- *A directory moved into itself*: nothing refuses it, and the `remove_dir_all` at the end
  (`file_ops.rs:123`) then takes what was moved. The directories of `Staging` are moved to
  places apart from them.
- *Timeouts of a transfer*: the code sets none, so there is nothing to model.

## 7. Plan

All modules of the plan are there: `RepoLock` with `ExclusiveAccess` and its refinement,
`CloneDestination`, `Checkout`, `Staging`, `Merge`, `Remotes`, `Status`, `Upkeep`, `History`;
and what their runs check of safety is proved. What would say more, in order of worth:

- *Abstract specifications* of the calls that write, each with the proof that the
  detailed module implements it when nobody else is at work: a merge, a checkout, a
  commit of listed files as one atomic step, of which every refusal is a stutter;
- *Liveness lemmas* that are safety facts: of each step of `CallsSettle` and of
  `RetryLoopEnds`, that the step it waits for stays possible, as action properties;
- *Two modules together*: that a call of `Staging` or `Checkout` runs at most once per
  checkout at a time, from `OneOperationPerFile`, by a composition instead of the words
  of section 2;
- *Models*: file history that follows renames, and the init family.
