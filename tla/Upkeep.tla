-------------------------------- MODULE Upkeep --------------------------------
(***************************************************************************)
(* Maintenance of one repository: repair and health, configuration and the *)
(* removal of every remote (src/repository_ops.rs), and tags               *)
(* (src/tag_ops.rs), beside the status of module Status, whose trees they  *)
(* share. The library lock lets one of the operations that write run at a  *)
(* time (RepoLock); a status, an editor and git in a terminal do not take  *)
(* it, and git's own lock files are what stands between it and the library.*)
(***************************************************************************)
EXTENDS Status, Sequences, FiniteSets

CONSTANTS
  Targets,     \* commits a tag may name
  TagNames,
  Keys,        \* configuration keys, in the order they are written in
  Values,      \* of a configuration key
  Global,      \* the user's own configuration: [Settings -> Values \union {Absent}]
  Remotes,     \* names of remotes
  ConfigLock,  \* names of three of git's lock files: config.lock,
  IndexLock,   \*   index.lock
  HeadLock,    \*   and HEAD.lock
  MaxCalls     \* bound on operations

Elements(s) == {s[i] : i \in DOMAIN s}

Settings == Elements(Keys)

ASSUME UpkeepAssumption ==
  /\ Absent \notin Targets \union Values
  /\ Keys \in Seq(Settings)
  /\ Global \in [Settings -> Values \union {Absent}]
  /\ IsFiniteSet(Remotes)
  /\ MaxCalls \in Nat

VARIABLES
  locks,     \* [LockFiles -> "none", "live": of a git at work, "dead": of one that died]
  readable,  \* the index file can be read
  born,      \* what HEAD leads to: a "commit", nothing yet ("unborn"), or a
             \* commit that is not in the object database ("broken")
  config,    \* [Settings -> Values \union {Absent}]: the repository's own
  remotes,   \* SUBSET Remotes
  tags,      \* [TagNames -> Targets \union {Absent}]
  op,        \* the step the running operation is at
  job,       \* its arguments, and in "left" what it has yet to do
  old,       \* history: what it found, or was given, that nobody touched since
  result,    \* of the operation that has just returned; gone with the next step
  calls      \* operations so far

kept == <<locks, readable, born, config, remotes, tags>>
vars == <<statusVars, kept, op, job, old, result, calls>>

LockFiles == {IndexLock, HeadLock, ConfigLock}
NoJob == [kind |-> "none", left |-> <<>>, tag |-> Absent, target |-> Absent,
          force |-> FALSE, settings |-> [k \in {} |-> Absent]]

UpkeepInit ==
  /\ Init
  /\ locks \in [LockFiles -> {"none", "dead"}]
  /\ readable \in BOOLEAN
  /\ born \in {"commit", "unborn", "broken"}
  /\ born # "commit" => head = [p \in Paths |-> Absent]
  /\ config = [k \in Settings |-> Absent]
  /\ remotes = Remotes
  /\ tags = [n \in TagNames |-> Absent]
  /\ op = "idle"
  /\ job = NoJob
  /\ old = {}
  /\ result = "none"
  /\ calls = 0

-----------------------------------------------------------------------------
Begin(step, arguments, found) ==
  /\ op = "idle" /\ calls < MaxCalls
  /\ calls' = calls + 1
  /\ op' = step
  /\ job' = arguments
  /\ old' = found
  /\ result' = "none"
  /\ UNCHANGED <<statusVars, kept>>

Return(what) ==
  /\ op' = "idle"
  /\ job' = NoJob
  /\ old' = {}
  /\ result' = what
  /\ UNCHANGED calls

Fail(why) == Return(why) /\ UNCHANGED <<statusVars, kept>>

Refuse(why) ==
  /\ op = "idle" /\ calls < MaxCalls
  /\ calls' = calls + 1
  /\ result' = why
  /\ UNCHANGED <<statusVars, kept, op, job, old>>

Goto(step) == op' = step /\ UNCHANGED <<old, result, calls>>

\* The operation is done with the first of what it has left.
Tick == job' = [job EXCEPT !.left = Tail(@)]
First == Head(job.left)

(***************************************************************************)
(* repair_repository_impl and is_repository_healthy_impl.                  *)
(***************************************************************************)
Repair ==
  Begin("repair", [NoJob EXCEPT !.kind = "repair",
                                !.left = <<IndexLock, HeadLock, ConfigLock>>],
        {l \in LockFiles : locks[l] # "none"})

RepairLooks ==
  /\ op = "repair" /\ job.left # <<>>
  /\ IF locks[First] = "none" THEN Tick /\ Goto("repair") ELSE Goto("remove") /\ UNCHANGED job
  /\ UNCHANGED <<statusVars, kept>>

\* Mutant of RepairRemoves: one lock file found is the one that was in the way.
RepairRemovesOne ==
  /\ op = "remove"
  /\ locks[First] # "none"
  /\ locks' = [locks EXCEPT ![First] = "none"]
  /\ job' = [job EXCEPT !.left = <<>>]
  /\ Goto("repair")
  /\ UNCHANGED <<statusVars, readable, born, config, remotes, tags>>

\* The file goes whoever made it.
RepairRemoves ==
  /\ op = "remove"
  /\ locks[First] # "none"
  /\ locks' = [locks EXCEPT ![First] = "none"]
  /\ Tick
  /\ Goto("repair")
  /\ UNCHANGED <<statusVars, readable, born, config, remotes, tags>>

\* Its owner has removed it meanwhile.
RepairFindsItGone ==
  /\ op = "remove"
  /\ locks[First] = "none"
  /\ Fail("io_error")

\* An index that cannot be read is left alone if HEAD has no commit to read.
RepairIndex ==
  /\ op = "repair" /\ job.left = <<>>
  /\ \/ (readable \/ born = "broken") /\ Fail("ok")
     \/ ~readable /\ born = "unborn" /\ Fail("git_error")
     \/ /\ ~readable /\ born = "commit"
        /\ Goto("reset") /\ UNCHANGED <<job, statusVars, kept>>

\* A hard reset to HEAD, which takes every edit of a tracked file with it.
RepairResets ==
  /\ op = "reset"
  /\ locks[IndexLock] = "none"
  /\ readable' = TRUE
  /\ index' = head
  /\ wt' = [p \in Paths |-> IF head[p] = Absent THEN wt[p] ELSE head[p]]
  /\ answer' = NoAnswer
  /\ quiet' = (scan = "idle")
  /\ steady' = {p \in steady : HasChanged(head, index', wt', p)}
  /\ Return("ok")
  /\ UNCHANGED <<head, scan, flags, renames, outside, locks, born, config, remotes, tags>>

\* Another git has the index, or libgit2 must read what cannot be read.
RepairResetFails == op = "reset" /\ Fail("git_error")

\* repo.head() fails on an unborn HEAD, and succeeds on one whose commit is gone.
is_healthy == born # "unborn" /\ readable

CheckHealth == Refuse(IF is_healthy THEN "healthy" ELSE "unhealthy")

(***************************************************************************)
(* configure_repository_impl, of which set_config_impl is the case of one  *)
(* key; unset_config_impl, get_config_impl.                                *)
(***************************************************************************)
Configure(given) ==
  \E settings \in [given -> Values] :
    Begin("configure", [NoJob EXCEPT !.kind = "configure", !.settings = settings,
                                     !.left = Keys],
          given)

Given == op = "configure" /\ job.left # <<>> /\ First \in DOMAIN job.settings

\* A key that was not given is passed over.
SetSkips ==
  /\ op = "configure" /\ job.left # <<>> /\ ~Given
  /\ Tick
  /\ Goto("configure")
  /\ UNCHANGED <<statusVars, kept>>

\* One write of the file, and one config.lock, for every key that was.
SetNext ==
  /\ Given
  /\ locks[ConfigLock] = "none"
  /\ config' = [config EXCEPT ![First] = job.settings[First]]
  /\ Tick
  /\ Goto("configure")
  /\ UNCHANGED <<statusVars, locks, readable, born, remotes, tags>>

Configured == op = "configure" /\ job.left = <<>> /\ Fail("ok")

\* config.lock is taken: the keys already written stay written.
SetFails ==
  /\ Given
  /\ locks[ConfigLock] # "none"
  /\ Fail("git_error")

\* A key that is not there is no error.
Unset(k) ==
  \/ config[k] = Absent /\ Refuse("ok")
  \/ config[k] # Absent /\ locks[ConfigLock] # "none" /\ Refuse("git_error")
  \/ /\ config[k] # Absent /\ locks[ConfigLock] = "none"
     /\ op = "idle" /\ calls < MaxCalls
     /\ calls' = calls + 1
     /\ config' = [config EXCEPT ![k] = Absent]
     /\ result' = "ok"
     /\ UNCHANGED <<statusVars, locks, readable, born, remotes, tags, op, job, old>>

\* Local first, then global.
get_config(k) == IF config[k] # Absent THEN config[k] ELSE Global[k]

(***************************************************************************)
(* remove_all_remotes_impl: the remotes are listed, then deleted in turn.  *)
(***************************************************************************)
Orders(S) == {order \in [1..Cardinality(S) -> S] :
                \A i, j \in 1..Cardinality(S) : i # j => order[i] # order[j]}

RemoveAll ==
  \E order \in Orders(remotes) :
    Begin("remotes", [NoJob EXCEPT !.kind = "remotes", !.left = order], remotes)

\* Mutant of RemoveNext: a remote that cannot be deleted is passed over.
RemoveNextIfFree ==
  /\ op = "remotes" /\ job.left # <<>>
  /\ remotes' = IF locks[ConfigLock] = "none" THEN remotes \ {First} ELSE remotes
  /\ Tick
  /\ Goto("remotes")
  /\ UNCHANGED <<statusVars, locks, readable, born, config, tags>>

RemoveNext ==
  /\ op = "remotes" /\ job.left # <<>>
  /\ First \in remotes /\ locks[ConfigLock] = "none"
  /\ remotes' = remotes \ {First}
  /\ Tick
  /\ Goto("remotes")
  /\ UNCHANGED <<statusVars, locks, readable, born, config, tags>>

\* A remote deleted in a terminal meanwhile ends it, the others left in place.
RemoveFails ==
  /\ op = "remotes" /\ job.left # <<>>
  /\ First \notin remotes \/ locks[ConfigLock] # "none"
  /\ Fail("git_error")

RemovedAll == op = "remotes" /\ job.left = <<>> /\ Fail("ok")

(***************************************************************************)
(* create_tag_impl and delete_tag_impl.                                    *)
(***************************************************************************)

\* read_user_signature, for a tag with a message and no tagger of its own.
CannotSign == \E k \in Settings : get_config(k) = Absent

CreateTag(n, target, force) ==
  \/ ~force /\ tags[n] # Absent /\ Refuse("tag_exists")
  \/ /\ force \/ tags[n] = Absent
     /\ \/ Refuse("git_error")      \* no such commit, or HEAD has none
        \/ CannotSign /\ Refuse("config_missing")
        \/ Begin("tag", [NoJob EXCEPT !.kind = "tag", !.tag = n, !.target = target,
                                      !.force = force], {})

\* Mutant of WriteTag: the check above is thought to be enough.
WriteTagByForce ==
  /\ op = "tag"
  /\ tags' = [tags EXCEPT ![job.tag] = job.target]
  /\ Goto("written")
  /\ UNCHANGED <<job, statusVars, locks, readable, born, config, remotes>>

\* libgit2 looks again, and overwrites only by force.
WriteTag ==
  /\ op = "tag"
  /\ job.force \/ tags[job.tag] = Absent
  /\ tags' = [tags EXCEPT ![job.tag] = job.target]
  /\ Goto("written")
  /\ UNCHANGED <<job, statusVars, locks, readable, born, config, remotes>>

TagIsThere ==
  /\ op = "tag"
  /\ ~job.force /\ tags[job.tag] # Absent
  /\ Fail("git_error")

\* extract_tag_info_impl reads the tag back, whoever has moved or deleted it.
ReadTag ==
  /\ op = "written"
  /\ Fail(IF tags[job.tag] = Absent THEN "git_error" ELSE "ok")

DeleteTag(n) ==
  \/ tags[n] = Absent /\ Refuse("tag_not_found")
  \/ tags[n] # Absent /\ Begin("untag", [NoJob EXCEPT !.kind = "untag", !.tag = n], {})

RemoveTag ==
  /\ op = "untag"
  /\ IF tags[job.tag] = Absent
     THEN Fail("git_error")
     ELSE /\ tags' = [tags EXCEPT ![job.tag] = Absent]
          /\ Return("ok")
          /\ UNCHANGED <<statusVars, locks, readable, born, config, remotes>>

\* The process dies between two steps.
Crash == op # "idle" /\ Fail("none")

-----------------------------------------------------------------------------
(***************************************************************************)
(* Status, which fails at once on an index that cannot be read.            *)
(***************************************************************************)
Beside == UNCHANGED <<kept, op, job, old, calls>> /\ result' = "none"

ReadStatus == readable /\ StatusSteps /\ Beside

(***************************************************************************)
(* Outside the library. A git that writes makes a lock file first; one     *)
(* that dies leaves it behind.                                             *)
(***************************************************************************)
Editor == Edits /\ Beside

\* git stages in any state of HEAD, and merges only on a commit.
TerminalStages ==
  /\ \E p \in Paths :
       \/ TerminalAdd(p) \/ TerminalUntrack(p)
       \/ born = "commit" /\ TerminalConflict(p)
  /\ Beside

\* git does not commit on a commit that it cannot read; on a HEAD that is not
\* born it makes the first one.
TerminalCommits ==
  /\ born # "broken"
  /\ TerminalCommit
  /\ born' = "commit"
  /\ result' = "none"
  /\ UNCHANGED <<locks, readable, config, remotes, tags, op, job, old, calls>>

Terminal == readable /\ locks[IndexLock] = "none" /\ (TerminalStages \/ TerminalCommits)

FromOutside ==
  /\ outside < MaxOutside
  /\ outside' = outside + 1
  /\ answer' = NoAnswer
  /\ result' = "none"
  /\ UNCHANGED <<trees, call, op, job, calls>>

LockFileMade(l) ==
  /\ FromOutside
  /\ locks[l] = "none"
  /\ locks' = [locks EXCEPT ![l] = "live"]
  /\ old' = old \ {l}
  /\ UNCHANGED <<readable, born, config, remotes, tags>>

LockFileDone(l) ==
  /\ FromOutside
  /\ locks[l] = "live"
  /\ locks' = [locks EXCEPT ![l] = "none"]
  /\ old' = old \ {l}
  /\ UNCHANGED <<readable, born, config, remotes, tags>>

OwnerDies(l) ==
  /\ FromOutside
  /\ locks[l] = "live"
  /\ locks' = [locks EXCEPT ![l] = "dead"]
  /\ UNCHANGED <<readable, born, config, remotes, tags, old>>

TerminalConfig(k, v) ==
  /\ FromOutside
  /\ locks[ConfigLock] = "none" /\ config[k] # v
  /\ config' = [config EXCEPT ![k] = v]
  /\ old' = old \ {k}
  /\ UNCHANGED <<locks, readable, born, remotes, tags>>

TerminalRemote(r) ==
  /\ FromOutside
  /\ locks[ConfigLock] = "none"
  /\ remotes' = IF r \in remotes THEN remotes \ {r} ELSE remotes \union {r}
  /\ old' = old \ {r}
  /\ UNCHANGED <<locks, readable, born, config, tags>>

TerminalTag(n, t) ==
  /\ FromOutside
  /\ tags[n] # t
  /\ tags' = [tags EXCEPT ![n] = t]
  /\ UNCHANGED <<locks, readable, born, config, remotes, old>>

-----------------------------------------------------------------------------
Calls ==
  \/ Repair \/ CheckHealth \/ RemoveAll
  \/ \E given \in SUBSET Settings : Configure(given)
  \/ \E k \in Settings : Unset(k)
  \/ \E n \in TagNames :
       DeleteTag(n) \/ \E t \in Targets, force \in BOOLEAN : CreateTag(n, t, force)

Steps ==
  \/ RepairLooks \/ RepairRemoves \/ RepairFindsItGone \/ RepairIndex
  \/ RepairResets \/ RepairResetFails
  \/ SetSkips \/ SetNext \/ SetFails \/ Configured
  \/ RemoveNext \/ RemoveFails \/ RemovedAll
  \/ WriteTag \/ TagIsThere \/ ReadTag \/ RemoveTag

Outside ==
  \/ Editor \/ Terminal
  \/ \E l \in LockFiles : LockFileMade(l) \/ LockFileDone(l) \/ OwnerDies(l)
  \/ \E k \in Settings, v \in Values \union {Absent} : TerminalConfig(k, v)
  \/ \E r \in Remotes : TerminalRemote(r)
  \/ \E n \in TagNames, t \in Targets \union {Absent} : TerminalTag(n, t)

UpkeepNext == Calls \/ Steps \/ Crash \/ ReadStatus \/ Outside

UpkeepSpec == UpkeepInit /\ [][UpkeepNext]_vars

-----------------------------------------------------------------------------
Codes == {"ok", "io_error", "git_error", "healthy", "unhealthy", "tag_exists",
          "tag_not_found", "config_missing"}

Choices == UNION {[given -> Values] : given \in SUBSET Settings}

Jobs == [kind : {"none", "repair", "configure", "remotes", "tag", "untag"},
         left : Seq(LockFiles \union Settings \union Remotes),
         tag : TagNames \union {Absent}, target : Targets \union {Absent},
         force : BOOLEAN,
         settings : Choices]

RepairSteps == {"repair", "remove", "reset"}
ListSteps == RepairSteps \union {"configure", "remotes"}
TagSteps == {"tag", "written", "untag"}

\* The operation that runs has the arguments of its kind and no result yet, and
\* no argument is left of one that has returned.
JobOfStep ==
  /\ op = "idle" => job = NoJob
  /\ op # "idle" => result = "none"
  /\ op \in RepairSteps => job.kind = "repair"
  /\ op \in {"configure", "remotes", "untag"} => job.kind = op
  /\ op \in {"tag", "written"} => job.kind = "tag"
  /\ op \in TagSteps => job.tag \in TagNames
  /\ op \in {"tag", "written"} => job.target \in Targets

TypeOK ==
  /\ StatusOK
  /\ locks \in [LockFiles -> {"none", "live", "dead"}]
  /\ readable \in BOOLEAN
  /\ born \in {"commit", "unborn", "broken"}
  /\ config \in [Settings -> Values \union {Absent}]
  /\ remotes \subseteq Remotes
  /\ tags \in [TagNames -> Targets \union {Absent}]
  /\ op \in {"idle"} \union ListSteps \union TagSteps
  /\ job \in Jobs
  /\ old \subseteq LockFiles \union Settings \union Remotes
  /\ result \in Codes \union {"none"}
  /\ calls \in 0..MaxCalls
  /\ JobOfStep

(***************************************************************************)
(* What the loops of the library are at: everything they have still to     *)
(* deal with is on their list.                                             *)
(***************************************************************************)
Left == Elements(job.left)

\* repair_repository_impl: a lock file that was found and is still to go is on
\* the list, which is not at its end before it has gone.
LocksAreListed ==
  /\ op \in RepairSteps => \A l \in old : l \in LockFiles /\ (l \in Left \/ locks[l] = "none")
  /\ op = "remove" => job.left # <<>>
  /\ op = "reset" => job.left = <<>>

\* configure_repository_impl: a key is set, or its turn is to come.
KeysAreListed ==
  op = "configure" => \A k \in old : /\ k \in DOMAIN job.settings
                                     /\ k \in Left \/ config[k] = job.settings[k]

\* remove_all_remotes_impl: a remote that was listed is deleted, or its turn is
\* to come.
RemotesAreListed ==
  op = "remotes" => old \intersect remotes \subseteq Left

\* The inductive invariant of the proofs.
IInv ==
  /\ TypeOK
  /\ SteadyIsFlagged
  /\ LocksAreListed
  /\ KeysAreListed
  /\ RemotesAreListed

Succeeds(kind) == job.kind = kind /\ result' = "ok"

\* A repair that reports success (repair_repository_impl) has done its work,
\* whatever a git in a terminal did meanwhile: no lock file that it found is
\* still there, its owner's doing excepted, and the index can be read, unless
\* HEAD has no commit to read it from.
RepairedIsHealthy ==
  [][Succeeds("repair") => /\ \A l \in old : locks'[l] = "none"
                           /\ readable' \/ born = "broken"]_vars

\* repository_ops.rs:327 "so the copy cannot accidentally push to the
\* original's remotes", and configure_repository_impl: a removal of all remotes,
\* or a configuration, that succeeds has been done in full, but for what
\* somebody else wrote meanwhile; one that was locked out half-way fails.
SuccessIsComplete ==
  [][/\ Succeeds("remotes") => old \intersect remotes' = {}
     /\ Succeeds("configure") => \A k \in old : config'[k] = job.settings[k]]_vars

\* create_tag_impl: a step of the library moves a tag that is there only by
\* force, also when it was made in a terminal after the check; and only
\* delete_tag, of that very tag, deletes one.
TagsMoveOnlyByForce ==
  [][\A n \in TagNames :
       op' # op /\ tags[n] \notin {Absent, tags'[n]}
         => n = job.tag /\ (IF tags'[n] = Absent THEN job.kind = "untag" ELSE job.force)]_vars
=============================================================================
