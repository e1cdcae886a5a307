------------------------------- MODULE History -------------------------------
(***************************************************************************)
(* Reading history: get_commit_history_impl, called page after page by a   *)
(* host, and get_deleted_files_impl with its cache, in src/history_ops.rs. *)
(*                                                                         *)
(* Reads take no lock. Several run at once, on several repositories, while *)
(* commits and checkouts move HEAD. get_deleted_files_impl alone reads     *)
(* HEAD three times, and its cache is one for the process.                 *)
(***************************************************************************)
EXTENDS Integers, Sequences, FiniteSets

CONSTANTS
  Repos,
  Starts,      \* where HEAD may be at first
  Commits,
  NoCommit,    \* HEAD is unborn, or a commit has no parent
  Paths,
  Tree,        \* [Commits -> SUBSET Paths]: the files of each commit
  Parent,      \* [Commits -> Commits \union {NoCommit}]: the first parent
  Walk,        \* [Commits -> Seq(Commits)]: it and its ancestors, newest first
  FileName,    \* [Paths -> names]: the last part of a path
  Readers,     \* the threads that call get_deleted_files
  Limits,      \* how many commits the deleted files of which are asked for
  PageSizes,   \* how many commits a host may ask for at once
  MaxDeleted,  \* entries after which a list is long enough (50)
  TTL,         \* how long a cached list is good whatever HEAD is (30 s)
  MaxCalls,    \* bound on calls
  MaxTime,     \* bound on time
  MaxMoves     \* bound on moves of HEAD

AnyHead == Commits \union {NoCommit}
WalkOf(c) == IF c = NoCommit THEN <<>> ELSE Walk[c]
Ancestors(c) == {Walk[c][i] : i \in DOMAIN Walk[c]}

\* Commits are walked by time, and each has a time of its own, later than its
\* ancestors': the walk from a commit has all of the walk from each ancestor,
\* and none of it sooner.
ASSUME HistoryAssumption ==
  /\ NoCommit \notin Commits
  /\ Walk \in [Commits -> Seq(Commits)]
  /\ \A c \in Commits : Walk[c] # <<>> /\ Walk[c][1] = c
  /\ Parent \in [Commits -> AnyHead]
  /\ \A c \in Commits : \A d \in Ancestors(c) :
       /\ Ancestors(d) \subseteq Ancestors(c)
       /\ \A i \in DOMAIN Walk[c] :
            Walk[c][i] \in Ancestors(d) => \E j \in 1..i \intersect DOMAIN Walk[d] : Walk[d][j] = Walk[c][i]
  /\ Starts \subseteq AnyHead
  /\ Limits \union PageSizes \subseteq Nat \ {0}
  /\ TTL \in Nat \ {0}
  /\ {MaxCalls, MaxTime, MaxMoves, MaxDeleted} \subseteq Nat

VARIABLES
  head,      \* [Repos -> Commits \union {NoCommit}]
  cache,     \* DELETED_FILES_CACHE: [Repos -> Entries \union {NoEntry}]
  reader,    \* [Readers -> the call each is making]
  served,    \* what the call that has just returned answers; gone with the next step
  now,       \* the clock
  left,      \* history: [Repos -> [Commits -> when HEAD last left it, or Never]]
  host,      \* a host that reads pages: [repo, limit, offset, shown, more]
  first,     \* history: HEAD at its first page
  kept,      \* history: HEAD has not moved since
  ahead,     \* history: or has only moved on to descendants
  calls,     \* calls so far
  moves      \* moves of HEAD so far

pages == <<host, first, kept, ahead>>
lists == <<cache, reader, served>>
vars == <<head, lists, now, left, pages, calls, moves>>

NoEntry == [head |-> NoCommit]
NoCall == [at |-> "idle", repo |-> NoCommit, limit |-> 0, started |-> 0, key |-> NoCommit,
           from |-> NoCommit, files |-> {}, mixed |-> FALSE]
NoAnswer == [repo |-> NoCommit]
NoHost == [more |-> FALSE]
Never == -1

Init ==
  /\ head \in [Repos -> Starts]
  /\ cache = [r \in Repos |-> NoEntry]
  /\ reader = [t \in Readers |-> NoCall]
  /\ served = NoAnswer
  /\ now = 0
  /\ left = [r \in Repos |-> [c \in Commits |-> Never]]
  /\ host = NoHost
  /\ first = NoCommit
  /\ kept = TRUE
  /\ ahead = TRUE
  /\ calls = 0
  /\ moves = 0

-----------------------------------------------------------------------------
(***************************************************************************)
(* get_deleted_files_impl.                                                 *)
(***************************************************************************)

\* The files that went with commit c. One whose name came elsewhere in the
\* same commit is taken to have moved, and one that is in HEAD is back.
Deleted(c, headTree) ==
  IF Parent[c] = NoCommit THEN {}
  ELSE LET came == {FileName[p] : p \in Tree[c] \ Tree[Parent[c]]}
       IN {p \in Tree[Parent[c]] \ Tree[c] : FileName[p] \notin came} \ headTree

\* The newest deletion of each path among the first n commits of a walk, with
\* the commit that had the file last.
Listed(walk, n, headTree) ==
  {[path |-> d[1], last |-> Parent[walk[d[2]]]] : d \in
     {e \in Paths \X (1..n) :
        /\ e[1] \in Deleted(walk[e[2]], headTree)
        /\ \A j \in 1..(e[2] - 1) : e[1] \notin Deleted(walk[j], headTree)}}

\* As many commits as were asked for, or until the list is long enough.
deleted_files(from, limit, headTree) ==
  LET walk == Walk[from]
      scanned == {i \in 1..Len(walk) :
                    i <= limit /\ Cardinality(Listed(walk, i - 1, headTree)) < MaxDeleted}
  IN Listed(walk, Cardinality(scanned), headTree)

Beside == UNCHANGED <<head, now, left, pages, moves>>

Answer(t, files, mixed) ==
  /\ served' = [repo |-> reader[t].repo, files |-> files, started |-> reader[t].started,
                mixed |-> mixed]
  /\ reader' = [reader EXCEPT ![t] = NoCall]
  /\ Beside

Goto(t, call) ==
  /\ reader' = [reader EXCEPT ![t] = call]
  /\ served' = NoAnswer
  /\ UNCHANGED cache
  /\ Beside

\* Another call.
Called == calls < MaxCalls /\ calls' = calls + 1

\* HEAD is read, to validate the cache with. With no commit yet the answer is
\* an empty list, from here or from where the walk begins.
GetDeletedFiles(t, r, limit) ==
  /\ reader[t] = NoCall
  /\ head[r] # NoCommit
  /\ Called
  /\ Goto(t, [NoCall EXCEPT !.at = "check", !.repo = r, !.limit = limit, !.started = now,
                            !.key = head[r]])

Valid(t, entry) ==
  /\ entry # NoEntry
  /\ entry.head = reader[t].key \/ now - entry.at < TTL

\* Mutant of Hit: a list that is asked for is kept for another while.
HitRenews(t) ==
  LET entry == cache[reader[t].repo] IN
  /\ reader[t].at = "check"
  /\ Valid(t, entry)
  /\ Answer(t, entry.files, entry.mixed)
  /\ cache' = [cache EXCEPT ![reader[t].repo].at = now]

\* The cached list is answered whatever limit it was made with.
Hit(t) ==
  LET entry == cache[reader[t].repo] IN
  /\ reader[t].at = "check"
  /\ Valid(t, entry)
  /\ Answer(t, entry.files, entry.mixed)
  /\ UNCHANGED cache

Miss(t) ==
  /\ reader[t].at = "check"
  /\ ~Valid(t, cache[reader[t].repo])
  /\ Goto(t, [reader[t] EXCEPT !.at = "walk"])

\* push_head: HEAD is read again.
BeginWalk(t) ==
  /\ reader[t].at = "walk"
  /\ head[reader[t].repo] # NoCommit
  /\ Goto(t, [reader[t] EXCEPT !.at = "tree", !.from = head[reader[t].repo]])

\* HEAD has become unborn meanwhile.
NothingToWalk(t) ==
  /\ reader[t].at = "walk"
  /\ head[reader[t].repo] = NoCommit
  /\ Answer(t, {}, reader[t].mixed)
  /\ UNCHANGED cache

\* And a third time, for its tree; the walk follows.
Scan(t) ==
  LET r == reader[t].repo
      tree == IF head[r] = NoCommit THEN {} ELSE Tree[head[r]] IN
  /\ reader[t].at = "tree"
  /\ Goto(t, [reader[t] EXCEPT !.at = "store",
                                !.files = deleted_files(reader[t].from, reader[t].limit, tree)])

Store(t) ==
  /\ reader[t].at = "store"
  /\ cache' = [cache EXCEPT ![reader[t].repo] =
                 [head |-> reader[t].key, files |-> reader[t].files, at |-> now,
                  mixed |-> reader[t].mixed]]
  /\ Answer(t, reader[t].files, reader[t].mixed)

(***************************************************************************)
(* get_commit_history_impl, of one page, and a host that asks for the next *)
(* one, from total_count on, while has_more says that there is one.        *)
(***************************************************************************)

\* Mutant of get_commit_history: the first commit of every later page is taken
\* for the last of the page before.
get_commit_history_skips(from, limit, offset) ==
  LET walk == WalkOf(from)
      rest == SubSeq(walk, offset + (IF offset = 0 THEN 1 ELSE 2), Len(walk))
      page == SubSeq(rest, 1, IF limit < Len(rest) THEN limit ELSE Len(rest))
  IN [commits |-> page, total |-> offset + Len(page), more |-> Len(rest) > limit]

\* HEAD is read once, and commits do not change. total_count is what has been
\* walked over, not how many there are.
get_commit_history(from, limit, offset) ==
  LET walk == WalkOf(from)
      rest == SubSeq(walk, offset + 1, Len(walk))
      page == SubSeq(rest, 1, IF limit < Len(rest) THEN limit ELSE Len(rest))
  IN [commits |-> page,
      total |-> (IF offset < Len(walk) THEN offset ELSE Len(walk)) + Len(page),
      more |-> Len(rest) > limit]

Turn(r, limit, offset, shown) ==
  LET page == get_commit_history(head[r], limit, offset) IN
  /\ Called
  /\ host' = [repo |-> r, limit |-> limit, offset |-> page.total,
              shown |-> shown \o page.commits, more |-> page.more]
  /\ served' = NoAnswer
  /\ UNCHANGED <<head, cache, reader, now, left, moves>>

FirstPage(r, limit) ==
  /\ host = NoHost
  /\ Turn(r, limit, 0, <<>>)
  /\ first' = head[r]
  /\ kept' = TRUE
  /\ ahead' = TRUE

NextPage ==
  /\ host.more
  /\ Turn(host.repo, host.limit, host.offset, host.shown)
  /\ UNCHANGED <<first, kept, ahead>>

-----------------------------------------------------------------------------
\* A commit, a checkout, an amend: HEAD moves, here or in a terminal.
MoveHead(r, c) ==
  /\ moves < MaxMoves /\ moves' = moves + 1
  /\ head[r] # c
  /\ head' = [head EXCEPT ![r] = c]
  /\ left' = IF head[r] = NoCommit THEN left ELSE [left EXCEPT ![r][head[r]] = now]
  /\ reader' = [t \in Readers |->
                  IF reader[t] # NoCall /\ reader[t].repo = r
                  THEN [reader[t] EXCEPT !.mixed = TRUE] ELSE reader[t]]
  /\ LET shown == host # NoHost /\ host.repo = r IN
       /\ kept' = (kept /\ ~shown)
       /\ ahead' = (ahead /\ (shown => c # NoCommit /\ head[r] \in Ancestors(c) \union {NoCommit}))
  /\ served' = NoAnswer
  /\ UNCHANGED <<cache, now, host, first, calls>>

Tick ==
  /\ now < MaxTime
  /\ now' = now + 1
  /\ served' = NoAnswer
  /\ UNCHANGED <<head, cache, reader, left, pages, calls, moves>>

Next ==
  \/ \E t \in Readers :
       \/ \E r \in Repos, limit \in Limits : GetDeletedFiles(t, r, limit)
       \/ /\ Hit(t) \/ Miss(t) \/ BeginWalk(t) \/ NothingToWalk(t) \/ Scan(t) \/ Store(t)
          /\ UNCHANGED calls
  \/ \E r \in Repos, limit \in PageSizes : FirstPage(r, limit)
  \/ NextPage
  \/ \E r \in Repos, c \in AnyHead : MoveHead(r, c)
  \/ Tick

Spec == Init /\ [][Next]_vars

-----------------------------------------------------------------------------
Deletions == [path : Paths, last : AnyHead]
Entries == [head : Commits, files : SUBSET Deletions, at : 0..MaxTime, mixed : BOOLEAN]
CallsMade == [at : {"check", "walk", "tree", "store"}, repo : Repos, limit : Limits,
              started : 0..MaxTime, key : Commits, from : AnyHead, files : SUBSET Deletions,
              mixed : BOOLEAN]
Answers == [repo : Repos, files : SUBSET Deletions, started : 0..MaxTime, mixed : BOOLEAN]
Hosts == [repo : Repos, limit : PageSizes, offset : Nat, shown : Seq(Commits), more : BOOLEAN]

TypeOK ==
  /\ head \in [Repos -> AnyHead]
  /\ cache \in [Repos -> Entries \union {NoEntry}]
  /\ reader \in [Readers -> CallsMade \union {NoCall}]
  /\ \A t \in Readers : reader[t].at \in {"tree", "store"} => reader[t].from \in Commits
  /\ served \in Answers \union {NoAnswer}
  /\ now \in 0..MaxTime
  /\ left \in [Repos -> [Commits -> 0..MaxTime \union {Never}]]
  /\ host \in Hosts \union {NoHost}
  /\ first \in AnyHead /\ kept \in BOOLEAN /\ ahead \in BOOLEAN
  /\ calls \in 0..MaxCalls /\ moves \in 0..MaxMoves

\* A commit was HEAD of r at time t or later.
HeadSince(r, c, t) == head[r] = c \/ left[r][c] >= t

\* The deleted files of a commit, for some number of commits asked for.
IsListOf(files, c) == \E limit \in Limits : files = deleted_files(c, limit, Tree[c])

\* get_deleted_files_impl: the HEAD that the cache is validated with was HEAD
\* when the call began, and is still, and walked and read, in a call that no
\* move of HEAD mixed.
OfItsTime(c) ==
  /\ c.started <= now
  /\ HeadSince(c.repo, c.key, c.started)
  /\ ~c.mixed => /\ head[c.repo] = c.key
                 /\ c.at \in {"tree", "store"} => c.from = c.key
                 /\ c.at = "store" => IsListOf(c.files, c.key)

CallsAreOfTheirTime == \A t \in Readers : reader[t] # NoCall => OfItsTime(reader[t])

\* An entry is the list of the commit it is kept under, which was HEAD when it
\* was stored.
StoredInTime(r, entry) ==
  /\ entry.at <= now
  /\ HeadSince(r, entry.head, entry.at)
  /\ IsListOf(entry.files, entry.head)

EntriesAreOfTheirTime ==
  \A r \in Repos : cache[r] # NoEntry /\ ~cache[r].mixed => StoredInTime(r, cache[r])

\* get_commit_history_impl: what a host is shown comes from the walk of HEAD, or
\* from that of a commit that HEAD was at before it moved on, and nothing that
\* the first page was of is skipped.
Of(c) == {WalkOf(c)[i] : i \in DOMAIN WalkOf(c)}

PagesFollowHead ==
  host # NoHost =>
    /\ kept => head[host.repo] = first /\ host.offset <= Len(WalkOf(first))
    /\ ahead => /\ Of(first) \subseteq Of(head[host.repo])
                /\ \A i \in DOMAIN WalkOf(head[host.repo]) :
                     i <= host.offset /\ WalkOf(head[host.repo])[i] \in Of(first)
                       => \E j \in DOMAIN host.shown : host.shown[j] = WalkOf(head[host.repo])[i]

\* c has been HEAD of r after time t.
HeadAfter(r, c, t) == head[r] = c \/ left[r][c] > t

\* The comment on DELETED_FILES_CACHE, "valid if HEAD matches OR the entry is
\* < 30s old": the deleted files that a call answers are those of a commit that
\* was HEAD of this very repository during the call or within TTL before it.
\* (Not of a list that was made while HEAD moved, which mixes two commits.)
ListIsOfItsTime ==
  served # NoAnswer /\ ~served.mixed
    => \E c \in Commits, limit \in Limits :
         /\ HeadAfter(served.repo, c, served.started - TTL)
         /\ served.files = deleted_files(c, limit, Tree[c])

\* has_more of get_commit_history_impl: a host that follows the pages has been
\* shown every commit, once and in order, if HEAD stayed where it was; and if
\* it only moved forward, a commit may come twice but none is missed.
PagesMissNothing ==
  host # NoHost =>
    LET walk == WalkOf(first) IN
    /\ kept => host.shown = SubSeq(walk, 1, host.offset)
               /\ (host.more <=> host.offset < Len(walk))
    /\ ahead /\ ~host.more
         => \A i \in DOMAIN walk : \E j \in DOMAIN host.shown : host.shown[j] = walk[i]

\* The inductive invariant of the proofs.
IInv ==
  /\ TypeOK
  /\ CallsAreOfTheirTime
  /\ EntriesAreOfTheirTime
  /\ ListIsOfItsTime
  /\ PagesFollowHead
  /\ PagesMissNothing
=============================================================================
