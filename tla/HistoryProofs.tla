----------------------------- MODULE HistoryProofs ----------------------------
(***************************************************************************)
(* Proofs about History: the state is well typed, a list of deleted files  *)
(* is that of a commit that was HEAD during the call or shortly before it, *)
(* and a host that turns pages is shown all that was there when it began,  *)
(* for any repositories, commits, trees, readers and moves of HEAD.        *)
(***************************************************************************)
EXTENDS History, FiniteSetTheorems, SequenceTheorems, TLAPS

\* What the proofs need of the constants, but for how walks agree.
LEMMA ConstantsKnown ==
  /\ NoCommit \notin Commits
  /\ Walk \in [Commits -> Seq(Commits)]
  /\ Parent \in [Commits -> AnyHead]
  /\ Starts \subseteq AnyHead
  /\ Limits \subseteq Nat \ {0} /\ PageSizes \subseteq Nat \ {0}
  /\ TTL \in Nat \ {0}
  /\ MaxCalls \in Nat /\ MaxTime \in Nat /\ MaxMoves \in Nat /\ MaxDeleted \in Nat
BY HistoryAssumption

-----------------------------------------------------------------------------
(***************************************************************************)
(* What the calls compute.                                                 *)
(***************************************************************************)

\* A list of deleted files names paths, and commits of the walk.
LEMMA DeletedFilesKnown ==
  ASSUME NEW from \in Commits, NEW limit \in Nat, NEW tree
  PROVE  deleted_files(from, limit, tree) \in SUBSET Deletions
<1> DEFINE walk == Walk[from]
           scanned == {i \in 1..Len(walk) :
                         i <= limit /\ Cardinality(Listed(walk, i - 1, tree)) < MaxDeleted}
           n == Cardinality(scanned)
<1>1. walk \in Seq(Commits) /\ Len(walk) \in Nat
  BY ConstantsKnown
<1>2. IsFiniteSet(1..Len(walk)) /\ Cardinality(1..Len(walk)) = Len(walk)
  <2>1. ASSUME NEW last \in Nat
        PROVE  IsFiniteSet(1..last) /\ Cardinality(1..last) = last
    BY FS_Interval
  <2> HIDE DEF walk
  <2> QED
    BY <1>1, <2>1
<1>3. scanned \subseteq 1..Len(walk)
  OBVIOUS
<1>4. n \in Nat /\ n <= Len(walk)
  <2> HIDE DEF scanned
  <2>1. IsFiniteSet(scanned) /\ Cardinality(scanned) <= Cardinality(1..Len(walk))
    BY <1>2, <1>3, FS_Subset
  <2> QED
    BY <1>2, <2>1, FS_CardinalityType
<1>5. \A i \in 1..n : walk[i] \in Commits /\ Parent[walk[i]] \in AnyHead
  <2> HIDE DEF n
  <2> QED
    BY <1>1, <1>4, ConstantsKnown
<1>6. Listed(walk, n, tree) \subseteq Deletions
  <2> HIDE DEF n, walk
  <2> QED
    BY <1>5 DEF Listed, Deletions
<1>7. deleted_files(from, limit, tree) = Listed(walk, n, tree)
  BY DEF deleted_files
<1> QED
  BY <1>6, <1>7

\* A walk is a sequence of commits, that from no commit the empty one.
LEMMA WalkKnown ==
  ASSUME NEW c \in AnyHead
  PROVE  WalkOf(c) \in Seq(Commits)
BY ConstantsKnown DEF WalkOf, AnyHead

\* A page is what comes next of the walk, as long as was asked for, and there is
\* more exactly if the walk goes on after it.
LEMMA PageKnown ==
  ASSUME NEW from \in AnyHead, NEW limit \in PageSizes, NEW offset \in Nat
  PROVE  LET walk == WalkOf(from)
             page == get_commit_history(from, limit, offset)
         IN /\ page.commits \in Seq(Commits) /\ page.total \in Nat /\ page.more \in BOOLEAN
            /\ page.total = (IF offset < Len(walk) THEN offset ELSE Len(walk)) + Len(page.commits)
            /\ page.total <= Len(walk)
            /\ \A i \in 1..Len(page.commits) : page.commits[i] = walk[offset + i]
            /\ page.more <=> page.total < Len(walk)
<1> DEFINE walk == WalkOf(from)
           rest == SubSeq(walk, offset + 1, Len(walk))
           n == IF limit < Len(rest) THEN limit ELSE Len(rest)
           page == SubSeq(rest, 1, n)
<1>1. walk \in Seq(Commits) /\ Len(walk) \in Nat /\ limit \in Nat \ {0}
  BY WalkKnown, ConstantsKnown
<1>2. get_commit_history(from, limit, offset) =
        [commits |-> page,
         total |-> (IF offset < Len(walk) THEN offset ELSE Len(walk)) + Len(page),
         more |-> Len(rest) > limit]
  BY DEF get_commit_history
<1> HIDE DEF walk
<1>3. /\ rest \in Seq(Commits)
      /\ Len(rest) = IF offset < Len(walk) THEN Len(walk) - offset ELSE 0
      /\ \A i \in 1..Len(rest) : rest[i] = walk[offset + i]
  <2>1. /\ offset + 1 \in Int /\ Len(walk) \in Int
        /\ \A i \in (offset + 1)..Len(walk) : walk[i] \in Commits
    BY <1>1
  <2>2. /\ rest \in Seq(Commits)
        /\ Len(rest) = IF offset + 1 <= Len(walk) THEN Len(walk) - (offset + 1) + 1 ELSE 0
        /\ \A i \in 1..(Len(walk) - (offset + 1) + 1) : rest[i] = walk[(offset + 1) + i - 1]
    BY <2>1, SubSeqProperties
  <2>3. \A i \in Nat : (offset + 1) + i - 1 = offset + i
    OBVIOUS
  <2>4. Len(walk) - (offset + 1) + 1 = Len(walk) - offset
        /\ (offset + 1 <= Len(walk) <=> offset < Len(walk))
    BY <1>1
  <2> HIDE DEF rest
  <2>5. Len(rest) = IF offset < Len(walk) THEN Len(walk) - offset ELSE 0
    BY <2>2, <2>4
  <2>6. ASSUME NEW i \in 1..Len(rest)
        PROVE  rest[i] = walk[offset + i]
    <3>1. CASE offset < Len(walk)
      <4>1. Len(rest) = Len(walk) - (offset + 1) + 1
        BY <2>4, <2>5, <3>1
      <4> QED
        BY <2>2, <2>3, <4>1
    <3>2. CASE ~(offset < Len(walk))
      <4>1. Len(rest) = 0
        BY <2>5, <3>2
      <4> QED
        BY <4>1
    <3> QED
      BY <3>1, <3>2
  <2> QED
    BY <2>2, <2>5, <2>6
<1> HIDE DEF rest
<1>4. n \in Nat /\ n <= Len(rest)
  BY <1>1, <1>3
<1> HIDE DEF n
<1>5. /\ page \in Seq(Commits) /\ Len(page) = n
      /\ \A i \in 1..n : page[i] = rest[i]
  <2>1. \A i \in 1..n : rest[i] \in Commits
    BY <1>3, <1>4
  <2>2. /\ page \in Seq(Commits)
        /\ Len(page) = IF 1 <= n THEN n - 1 + 1 ELSE 0
        /\ \A i \in 1..(n - 1 + 1) : page[i] = rest[1 + i - 1]
    BY <1>4, <2>1, SubSeqProperties
  <2> HIDE DEF page
  <2> QED
    BY <1>4, <2>2
<1> HIDE DEF page
<1>6. \A i \in 1..Len(page) : page[i] = walk[offset + i]
  BY <1>3, <1>4, <1>5
<1> QED
  <2> DEFINE start == IF offset < Len(walk) THEN offset ELSE Len(walk)
             total == start + Len(page)
             longer == Len(rest) > limit
  <2>1. start \in Nat /\ Len(rest) = Len(walk) - start
    BY <1>1, <1>3
  <2> HIDE DEF start
  <2>2. /\ Len(page) \in Nat /\ Len(rest) \in Nat
        /\ Len(page) = IF limit < Len(rest) THEN limit ELSE Len(rest)
    BY <1>3, <1>4, <1>5 DEF n
  <2>3. /\ total \in Nat /\ total <= Len(walk)
        /\ longer \in BOOLEAN /\ (longer <=> total < Len(walk))
    BY <1>1, <2>1, <2>2
  <2> DEFINE answer == get_commit_history(from, limit, offset)
  <2>4. answer.commits = page /\ answer.total = total /\ answer.more = longer
    BY <1>2 DEF start
  <2> HIDE DEF answer, total, longer
  <2>5. answer.total = start + Len(page)
    BY <2>4 DEF total
  <2>6. answer.more \in BOOLEAN /\ (answer.more <=> answer.total < Len(walk))
    BY <2>3, <2>4
  <2>7. /\ answer.commits \in Seq(Commits) /\ answer.total \in Nat
        /\ answer.total <= Len(walk)
        /\ \A i \in 1..Len(answer.commits) : answer.commits[i] = walk[offset + i]
        /\ answer.total = start + Len(answer.commits)
    BY <1>5, <1>6, <2>3, <2>4, <2>5
  <2> QED
    BY <2>6, <2>7 DEF walk, start, answer

-----------------------------------------------------------------------------
(***************************************************************************)
(* Type correctness.                                                       *)
(***************************************************************************)

\* No call is taken for none, nor an entry or an answer.
LEMMA NoneIsNone ==
  /\ \A c \in CallsMade : c # NoCall /\ c.at # "idle"
  /\ NoCall.at = "idle" /\ NoEntry.head = NoCommit
  /\ \A e \in Entries : e # NoEntry /\ e.head \in Commits
<1>1. NoCall.at = "idle" /\ NoEntry.head = NoCommit
  BY DEF NoCall, NoEntry
<1>2. \A c \in CallsMade : c.at # "idle"
  BY DEF CallsMade
<1>3. \A e \in Entries : e.head \in Commits
  BY DEF Entries
<1> QED
  BY <1>1, <1>2, <1>3, ConstantsKnown

\* A reader whose call is at a step has its arguments.
LEMMA CallOfStep ==
  ASSUME TypeOK, NEW t \in Readers, reader[t].at # "idle"
  PROVE  /\ reader[t] \in CallsMade /\ reader[t] # NoCall
         /\ reader[t].repo \in Repos
<1>1. reader[t] \in CallsMade
  BY NoneIsNone DEF TypeOK
<1> QED
  BY <1>1, NoneIsNone DEF CallsMade

\* The types of what a call of get_deleted_files leaves alone.
BesideOK ==
  /\ head \in [Repos -> AnyHead]
  /\ now \in 0..MaxTime
  /\ left \in [Repos -> [Commits -> 0..MaxTime \union {Never}]]
  /\ host \in Hosts \union {NoHost}
  /\ first \in AnyHead /\ kept \in BOOLEAN /\ ahead \in BOOLEAN
  /\ moves \in 0..MaxMoves

\* And of what it works with.
ListsOK ==
  /\ cache \in [Repos -> Entries \union {NoEntry}]
  /\ reader \in [Readers -> CallsMade \union {NoCall}]
  /\ \A t \in Readers : reader[t].at \in {"tree", "store"} => reader[t].from \in Commits
  /\ served \in Answers \union {NoAnswer}
  /\ calls \in 0..MaxCalls

\* TypeOK in two parts.
LEMMA TypeParts == TypeOK <=> BesideOK /\ ListsOK
BY DEF TypeOK, BesideOK, ListsOK

\* A call that goes on.
LEMMA GotoTyped ==
  ASSUME ListsOK, NEW t \in Readers, NEW c \in CallsMade,
         c.at \in {"tree", "store"} => c.from \in Commits,
         Goto(t, c), calls' \in 0..MaxCalls
  PROVE  ListsOK'
<1>1. reader' = [reader EXCEPT ![t] = c] /\ served' = NoAnswer /\ cache' = cache
  BY DEF Goto
<1>2. reader' \in [Readers -> CallsMade \union {NoCall}]
  BY <1>1 DEF ListsOK
<1>3. \A u \in Readers : reader'[u].at \in {"tree", "store"} => reader'[u].from \in Commits
  BY <1>1 DEF ListsOK
<1> QED
  BY <1>1, <1>2, <1>3 DEF ListsOK

\* A call that answers.
LEMMA AnswerTyped ==
  ASSUME ListsOK, NEW t \in Readers, reader[t] \in CallsMade,
         NEW files \in SUBSET Deletions, NEW mixed \in BOOLEAN, Answer(t, files, mixed),
         cache' \in [Repos -> Entries \union {NoEntry}], calls' = calls
  PROVE  ListsOK' /\ served' \in Answers
<1>1. /\ reader' = [reader EXCEPT ![t] = NoCall]
      /\ served' = [repo |-> reader[t].repo, files |-> files, started |-> reader[t].started,
                    mixed |-> mixed]
  BY DEF Answer
<1>2. served' \in Answers
  BY <1>1 DEF CallsMade, Answers
<1>3. reader' \in [Readers -> CallsMade \union {NoCall}]
  BY <1>1 DEF ListsOK
<1>4. \A u \in Readers : reader'[u].at \in {"tree", "store"} => reader'[u].from \in Commits
  BY <1>1, NoneIsNone DEF ListsOK
<1> QED
  BY <1>2, <1>3, <1>4 DEF ListsOK

-----------------------------------------------------------------------------
(***************************************************************************)
(* get_deleted_files_impl, step by step.                                   *)
(***************************************************************************)

\* What the invariant says of the lists.
ListsInv == CallsAreOfTheirTime /\ EntriesAreOfTheirTime /\ ListIsOfItsTime

\* What is of its time stays so while HEAD and the clock stand still.
LEMMA TimeStandsStill ==
  ASSUME UNCHANGED <<head, now, left>>
  PROVE  /\ CallsAreOfTheirTime' <=> \A t \in Readers : reader'[t] # NoCall => OfItsTime(reader'[t])
         /\ EntriesAreOfTheirTime'
              <=> \A r \in Repos : cache'[r] # NoEntry /\ ~cache'[r].mixed => StoredInTime(r, cache'[r])
<1>1. \A t \in Readers : OfItsTime(reader[t])' <=> OfItsTime(reader'[t])
  BY DEF OfItsTime, HeadSince
<1>2. \A r \in Repos : StoredInTime(r, cache[r])' <=> StoredInTime(r, cache'[r])
  BY DEF StoredInTime, HeadSince
<1> QED
  BY <1>1, <1>2 DEF CallsAreOfTheirTime, EntriesAreOfTheirTime

\* A call that goes on is of its time if what it goes on with is.
LEMMA GotoStep ==
  ASSUME ListsOK, ListsInv, NEW t \in Readers, NEW c, OfItsTime(c), Goto(t, c)
  PROVE  ListsInv'
<1>1. /\ reader' = [reader EXCEPT ![t] = c] /\ served' = NoAnswer /\ cache' = cache
      /\ UNCHANGED <<head, now, left>>
  BY DEF Goto, Beside
<1>2. \A u \in Readers : reader'[u] = IF u = t THEN c ELSE reader[u]
  BY <1>1 DEF ListsOK
<1>3. CallsAreOfTheirTime'
  BY <1>1, <1>2, TimeStandsStill DEF ListsInv, CallsAreOfTheirTime
<1>4. EntriesAreOfTheirTime'
  BY <1>1, TimeStandsStill DEF ListsInv, EntriesAreOfTheirTime
<1>5. ListIsOfItsTime'
  BY <1>1 DEF ListIsOfItsTime
<1> QED
  BY <1>3, <1>4, <1>5 DEF ListsInv

\* A call that answers with the list of a commit that was HEAD shortly before.
LEMMA AnswerStep ==
  ASSUME ListsOK, ListsInv, NEW t \in Readers, NEW files, NEW mixed, Answer(t, files, mixed),
         ~mixed => \E c \in Commits : /\ HeadAfter(reader[t].repo, c, reader[t].started - TTL)
                                     /\ IsListOf(files, c),
         EntriesAreOfTheirTime'
  PROVE  ListsInv'
<1>1. /\ reader' = [reader EXCEPT ![t] = NoCall]
      /\ served' = [repo |-> reader[t].repo, files |-> files, started |-> reader[t].started,
                    mixed |-> mixed]
      /\ UNCHANGED <<head, now, left>>
  BY DEF Answer, Beside
<1>2. \A u \in Readers : reader'[u] = IF u = t THEN NoCall ELSE reader[u]
  BY <1>1 DEF ListsOK
<1>3. CallsAreOfTheirTime'
  BY <1>1, <1>2, TimeStandsStill DEF ListsInv, CallsAreOfTheirTime
<1>4. /\ served'.repo = reader[t].repo /\ served'.files = files
      /\ served'.started = reader[t].started /\ served'.mixed = mixed
  BY <1>1
<1>5. ListIsOfItsTime'
  <2> SUFFICES ASSUME ~served'.mixed
               PROVE  \E c \in Commits, limit \in Limits :
                        /\ HeadAfter(served.repo, c, served.started - TTL)'
                        /\ served'.files = deleted_files(c, limit, Tree[c])
    BY DEF ListIsOfItsTime
  <2>1. PICK c \in Commits : HeadAfter(reader[t].repo, c, reader[t].started - TTL) /\ IsListOf(files, c)
    BY <1>4
  <2>2. HeadAfter(served.repo, c, served.started - TTL)'
    BY <1>1, <1>4, <2>1 DEF HeadAfter
  <2> QED
    BY <1>4, <2>1, <2>2 DEF IsListOf
<1> QED
  BY <1>3, <1>5 DEF ListsInv

\* A call begins with HEAD as it is.
LEMMA GetStep ==
  ASSUME TypeOK, ListsInv, NEW t \in Readers, NEW r \in Repos, NEW limit \in Limits,
         GetDeletedFiles(t, r, limit)
  PROVE  ListsOK' /\ ListsInv'
<1> DEFINE c == [NoCall EXCEPT !.at = "check", !.repo = r, !.limit = limit, !.started = now,
                               !.key = head[r]]
<1>1. Goto(t, c) /\ head[r] \in Commits /\ calls' \in 0..MaxCalls
  <2>1. Goto(t, c) /\ head[r] # NoCommit
    BY DEF GetDeletedFiles
  <2>2. head[r] \in Commits
    BY <2>1 DEF TypeOK, AnyHead
  <2>3. calls' \in 0..MaxCalls
    BY ConstantsKnown DEF GetDeletedFiles, Called, TypeOK
  <2> QED
    BY <2>1, <2>2, <2>3
<1>2. /\ c.at = "check" /\ c.repo = r /\ c.limit = limit /\ c.started = now /\ c.key = head[r]
      /\ c.mixed = FALSE
  BY DEF NoCall
<1>3. c \in CallsMade
  BY <1>1 DEF NoCall, CallsMade, TypeOK, AnyHead
<1> HIDE DEF c
<1>4. now \in Nat
  BY ConstantsKnown DEF TypeOK
<1>5. OfItsTime(c)
  BY <1>2, <1>4 DEF OfItsTime, HeadSince
<1> QED
  BY <1>1, <1>2, <1>3, <1>5, GotoTyped, GotoStep, TypeParts

\* A list from the cache is kept under a commit that was HEAD when the call
\* began, or at most TTL before.
LEMMA HitStep ==
  ASSUME TypeOK, ListsInv, NEW t \in Readers, Hit(t), calls' = calls
  PROVE  ListsOK' /\ ListsInv'
<1> DEFINE c == reader[t]
           e == cache[c.repo]
<1>1. c.at = "check" /\ Valid(t, e) /\ Answer(t, e.files, e.mixed) /\ cache' = cache
  BY DEF Hit
<1>2. c \in CallsMade /\ c # NoCall /\ c.repo \in Repos
  BY <1>1, CallOfStep
<1>3. e \in Entries /\ e # NoEntry
  BY <1>1, <1>2 DEF Valid, TypeOK
<1>4. e.files \in SUBSET Deletions /\ e.mixed \in BOOLEAN /\ e.head \in Commits /\ e.at \in Nat
  BY <1>3, ConstantsKnown DEF Entries
<1>5. c.started \in Nat /\ c.started <= now /\ now \in Nat /\ HeadSince(c.repo, c.key, c.started)
  BY <1>2, ConstantsKnown DEF TypeOK, CallsMade, ListsInv, CallsAreOfTheirTime, OfItsTime
<1>6. left[c.repo][e.head] \in Int
  BY <1>2, <1>4, ConstantsKnown DEF TypeOK, Never
<1>7. ASSUME ~e.mixed
      PROVE  HeadAfter(c.repo, e.head, c.started - TTL) /\ IsListOf(e.files, e.head)
  <2>1. HeadSince(c.repo, e.head, e.at) /\ IsListOf(e.files, e.head)
    BY <1>2, <1>3, <1>7 DEF ListsInv, EntriesAreOfTheirTime, StoredInTime
  <2>2. CASE e.head = c.key
    BY <1>5, <1>6, <2>1, <2>2, ConstantsKnown DEF HeadAfter, HeadSince
  <2>3. CASE now - e.at < TTL
    <3>1. e.at > c.started - TTL
      BY <1>4, <1>5, <2>3, ConstantsKnown
    <3> QED
      BY <1>4, <1>5, <1>6, <2>1, <3>1, ConstantsKnown DEF HeadAfter, HeadSince
  <2> QED
    BY <1>1, <2>1, <2>2, <2>3 DEF Valid
<1>8. EntriesAreOfTheirTime'
  BY <1>1, TimeStandsStill DEF ListsInv, EntriesAreOfTheirTime, Answer, Beside
<1> HIDE DEF e
<1>9. ListsOK'
  BY <1>1, <1>2, <1>4, AnswerTyped, TypeParts DEF TypeOK
<1> QED
  BY <1>1, <1>4, <1>7, <1>8, <1>9, AnswerStep, TypeParts

\* A call that goes on keeps its repository, what it began with, and whether it
\* is mixed.
LEMMA GoesOn ==
  ASSUME TypeOK, ListsInv, NEW t \in Readers, NEW c \in CallsMade, reader[t] # NoCall,
         c.repo = reader[t].repo, c.key = reader[t].key, c.started = reader[t].started,
         c.mixed = reader[t].mixed, Goto(t, c), calls' = calls,
         c.at \in {"tree", "store"} => c.from \in Commits,
         ~c.mixed => /\ c.at \in {"tree", "store"} => c.from = c.key
                     /\ c.at = "store" => IsListOf(c.files, c.key)
  PROVE  ListsOK' /\ ListsInv'
<1>1. OfItsTime(reader[t])
  BY DEF ListsInv, CallsAreOfTheirTime
<1>2. OfItsTime(c)
  BY <1>1 DEF OfItsTime
<1>3. calls' \in 0..MaxCalls
  BY DEF TypeOK
<1> QED
  BY <1>2, <1>3, GotoTyped, GotoStep, TypeParts

\* HEAD is read again, to walk from.
LEMMA WalkStep ==
  ASSUME TypeOK, ListsInv, NEW t \in Readers, Miss(t) \/ BeginWalk(t), calls' = calls
  PROVE  ListsOK' /\ ListsInv'
<1> DEFINE c == reader[t]
<1>1. c.at # "idle"
  BY DEF Miss, BeginWalk
<1>2. c \in CallsMade /\ c # NoCall /\ c.repo \in Repos
  BY <1>1, CallOfStep
<1>3. CASE Miss(t)
  <2> DEFINE d == [c EXCEPT !.at = "walk"]
  <2>1. Goto(t, d)
    BY <1>3 DEF Miss
  <2>2. /\ d \in CallsMade /\ d.repo = c.repo /\ d.key = c.key /\ d.started = c.started
        /\ d.mixed = c.mixed /\ d.at = "walk"
    BY <1>2 DEF CallsMade
  <2> HIDE DEF d
  <2> QED
    BY <1>2, <2>1, <2>2, GoesOn
<1>4. CASE BeginWalk(t)
  <2> DEFINE d == [c EXCEPT !.at = "tree", !.from = head[c.repo]]
  <2>1. Goto(t, d) /\ head[c.repo] # NoCommit
    BY <1>4 DEF BeginWalk
  <2>2. head[c.repo] \in Commits
    BY <1>2, <2>1 DEF TypeOK, AnyHead
  <2>3. /\ d \in CallsMade /\ d.repo = c.repo /\ d.key = c.key /\ d.started = c.started
        /\ d.mixed = c.mixed /\ d.at = "tree" /\ d.from = head[c.repo]
    BY <1>2, <2>2 DEF CallsMade, AnyHead
  <2>4. ~c.mixed => head[c.repo] = c.key
    BY <1>2 DEF ListsInv, CallsAreOfTheirTime, OfItsTime
  <2> HIDE DEF d
  <2> QED
    BY <1>2, <2>1, <2>2, <2>3, <2>4, GoesOn
<1> QED
  BY <1>3, <1>4

\* And a third time, for its tree: all three are one commit if the call is not
\* mixed.
LEMMA ScanStep ==
  ASSUME TypeOK, ListsInv, NEW t \in Readers, Scan(t), calls' = calls
  PROVE  ListsOK' /\ ListsInv'
<1> DEFINE c == reader[t]
           tree == IF head[c.repo] = NoCommit THEN {} ELSE Tree[head[c.repo]]
           files == deleted_files(c.from, c.limit, tree)
           d == [c EXCEPT !.at = "store", !.files = files]
<1>1. c.at = "tree" /\ Goto(t, d)
  BY DEF Scan
<1>2. c \in CallsMade /\ c # NoCall /\ c.repo \in Repos /\ c.from \in Commits /\ c.limit \in Limits
      /\ c.key \in Commits
  BY <1>1, CallOfStep DEF TypeOK, CallsMade
<1>3. files \in SUBSET Deletions
  <2> HIDE DEF tree
  <2> QED
    BY <1>2, DeletedFilesKnown, ConstantsKnown
<1>4. ~c.mixed => head[c.repo] = c.key /\ c.from = c.key
  BY <1>1, <1>2 DEF ListsInv, CallsAreOfTheirTime, OfItsTime
<1>5. ~c.mixed => IsListOf(files, c.key)
  <2>1. ~c.mixed => files = deleted_files(c.key, c.limit, Tree[c.key])
    BY <1>2, <1>4, ConstantsKnown
  <2> HIDE DEF files
  <2> QED
    BY <1>2, <2>1 DEF IsListOf
<1> HIDE DEF files
<1>6. /\ d \in CallsMade /\ d.repo = c.repo /\ d.key = c.key /\ d.started = c.started
      /\ d.mixed = c.mixed /\ d.at = "store" /\ d.from = c.from /\ d.files = files
  BY <1>2, <1>3 DEF CallsMade
<1> HIDE DEF d
<1> QED
  BY <1>1, <1>2, <1>4, <1>5, <1>6, GoesOn

\* A call that finds HEAD unborn where the walk begins is mixed.
LEMMA NothingStep ==
  ASSUME TypeOK, ListsInv, NEW t \in Readers, NothingToWalk(t), calls' = calls
  PROVE  ListsOK' /\ ListsInv'
<1> DEFINE c == reader[t]
<1>1. c.at = "walk" /\ head[c.repo] = NoCommit /\ Answer(t, {}, c.mixed) /\ cache' = cache
  BY DEF NothingToWalk
<1>2. c \in CallsMade /\ c # NoCall /\ c.key \in Commits /\ c.mixed \in BOOLEAN
  BY <1>1, CallOfStep DEF CallsMade
<1>3. c.mixed
  BY <1>1, <1>2, ConstantsKnown DEF ListsInv, CallsAreOfTheirTime, OfItsTime
<1>4. EntriesAreOfTheirTime'
  BY <1>1, TimeStandsStill DEF ListsInv, EntriesAreOfTheirTime, Answer, Beside
<1>5. ListsOK'
  BY <1>1, <1>2, AnswerTyped, TypeParts DEF TypeOK
<1> QED
  BY <1>1, <1>3, <1>4, <1>5, AnswerStep, TypeParts

\* A list is stored under the commit it is of.
LEMMA StoreStep ==
  ASSUME TypeOK, ListsInv, NEW t \in Readers, Store(t), calls' = calls
  PROVE  ListsOK' /\ ListsInv'
<1> DEFINE c == reader[t]
           e == [head |-> c.key, files |-> c.files, at |-> now, mixed |-> c.mixed]
<1>1. /\ c.at = "store" /\ Answer(t, c.files, c.mixed)
      /\ cache' = [cache EXCEPT ![c.repo] = e]
  BY DEF Store
<1>2. /\ c \in CallsMade /\ c # NoCall /\ c.repo \in Repos /\ c.key \in Commits
      /\ c.mixed \in BOOLEAN /\ c.files \in SUBSET Deletions /\ c.started \in Nat
  BY <1>1, CallOfStep, ConstantsKnown DEF CallsMade
<1>3. /\ e \in Entries /\ e.head = c.key /\ e.files = c.files /\ e.at = now /\ e.mixed = c.mixed
  BY <1>2 DEF Entries, TypeOK
<1> HIDE DEF e
<1>4. cache' \in [Repos -> Entries \union {NoEntry}]
  BY <1>1, <1>3 DEF TypeOK
<1>5. \A r \in Repos : cache'[r] = IF r = c.repo THEN e ELSE cache[r]
  BY <1>1 DEF TypeOK
<1>6. ~c.mixed => head[c.repo] = c.key /\ IsListOf(c.files, c.key)
  BY <1>1, <1>2 DEF ListsInv, CallsAreOfTheirTime, OfItsTime
<1>7. ~e.mixed => StoredInTime(c.repo, e)
  <2>1. now <= now
    BY ConstantsKnown DEF TypeOK
  <2> QED
    BY <1>3, <1>6, <2>1 DEF StoredInTime, HeadSince
<1>8. EntriesAreOfTheirTime'
  BY <1>1, <1>5, <1>7, TimeStandsStill DEF ListsInv, EntriesAreOfTheirTime, Answer, Beside
<1>9. ListsOK'
  BY <1>1, <1>2, <1>4, AnswerTyped, TypeParts
<1>10. ~c.mixed => HeadAfter(c.repo, c.key, c.started - TTL)
  BY <1>6 DEF HeadAfter
<1> QED
  BY <1>1, <1>2, <1>6, <1>8, <1>9, <1>10, AnswerStep, TypeParts

\* A move of HEAD mixes the calls on its repository, and is noted with its time.
LEMMA MoveStep ==
  ASSUME TypeOK, ListsInv, NEW r \in Repos, NEW c \in AnyHead, MoveHead(r, c)
  PROVE  ListsOK' /\ ListsInv'
<1>1. /\ head' = [head EXCEPT ![r] = c]
      /\ left' = IF head[r] = NoCommit THEN left ELSE [left EXCEPT ![r][head[r]] = now]
      /\ reader' = [t \in Readers |->
                      IF reader[t] # NoCall /\ reader[t].repo = r
                      THEN [reader[t] EXCEPT !.mixed = TRUE] ELSE reader[t]]
      /\ served' = NoAnswer /\ cache' = cache /\ now' = now /\ calls' = calls
  BY DEF MoveHead
<1>2. /\ now \in Nat
      /\ \A q \in Repos, d \in Commits : left[q][d] \in Int /\ left'[q][d] \in Int
  BY <1>1, ConstantsKnown DEF TypeOK, Never, AnyHead
<1>3. ASSUME NEW q \in Repos, NEW d \in Commits, NEW time \in Nat, time <= now, HeadSince(q, d, time)
      PROVE  head'[q] = d \/ left'[q][d] >= time
  <2>1. CASE head[q] = d
    <3>1. CASE q = r
      <4>1. left' = [left EXCEPT ![r][d] = now]
        BY <1>1, <2>1, <3>1, ConstantsKnown
      <4>2. left'[q][d] = now
        BY <3>1, <4>1 DEF TypeOK
      <4> QED
        BY <1>2, <1>3, <4>2
    <3>2. CASE q # r
      BY <1>1, <2>1, <3>2 DEF TypeOK
    <3> QED
      BY <3>1, <3>2
  <2>2. CASE left[q][d] >= time
    <3>1. left'[q][d] = left[q][d] \/ left'[q][d] = now
      BY <1>1 DEF TypeOK
    <3> QED
      BY <1>2, <1>3, <2>2, <3>1
  <2> QED
    BY <1>3, <2>1, <2>2 DEF HeadSince
<1>4. ASSUME NEW t \in Readers, reader[t] # NoCall
      PROVE  /\ reader'[t] \in CallsMade /\ reader'[t] # NoCall
             /\ reader'[t].from = reader[t].from /\ reader'[t].at = reader[t].at
             /\ OfItsTime(reader[t])'
  <2>1. reader[t] \in CallsMade
    BY <1>4 DEF TypeOK
  <2>2. /\ reader[t].repo \in Repos /\ reader[t].key \in Commits /\ reader[t].started \in Nat
        /\ OfItsTime(reader[t])
    BY <1>4, <2>1, ConstantsKnown DEF CallsMade, ListsInv, CallsAreOfTheirTime
  <2>3. \/ head'[reader[t].repo] = reader[t].key
        \/ left'[reader[t].repo][reader[t].key] >= reader[t].started
    BY <1>3, <2>2 DEF OfItsTime
  <2>4. CASE reader[t].repo = r
    <3>1. reader'[t] = [reader[t] EXCEPT !.mixed = TRUE]
      BY <1>1, <1>4, <2>4
    <3>2. /\ reader'[t] \in CallsMade /\ reader'[t].mixed = TRUE
          /\ reader'[t].from = reader[t].from /\ reader'[t].at = reader[t].at
          /\ reader'[t].repo = reader[t].repo /\ reader'[t].key = reader[t].key
          /\ reader'[t].started = reader[t].started
      BY <2>1, <3>1 DEF CallsMade
    <3> QED
      BY <1>1, <2>2, <2>3, <3>2, NoneIsNone DEF OfItsTime, HeadSince
  <2>5. CASE reader[t].repo # r
    <3>1. reader'[t] = reader[t] /\ head'[reader[t].repo] = head[reader[t].repo]
      BY <1>1, <2>2, <2>5 DEF TypeOK
    <3> QED
      BY <1>1, <1>4, <2>1, <2>2, <2>3, <3>1 DEF OfItsTime, HeadSince
  <2> QED
    BY <2>4, <2>5
<1>5. \A t \in Readers : reader[t] = NoCall => reader'[t] = NoCall
  BY <1>1
<1>6. CallsAreOfTheirTime'
  BY <1>4, <1>5 DEF CallsAreOfTheirTime
<1>7. ListsOK'
  <2>1. reader' \in [Readers -> CallsMade \union {NoCall}]
    BY <1>1, <1>4, <1>5
  <2>2. \A t \in Readers : reader'[t].at \in {"tree", "store"} => reader'[t].from \in Commits
    BY <1>4, <1>5, NoneIsNone DEF TypeOK
  <2> QED
    BY <1>1, <2>1, <2>2 DEF TypeOK, ListsOK
<1>8. EntriesAreOfTheirTime'
  <2> SUFFICES ASSUME NEW q \in Repos, cache[q] # NoEntry, ~cache[q].mixed
               PROVE  StoredInTime(q, cache[q])'
    BY <1>1 DEF EntriesAreOfTheirTime
  <2>1. cache[q] \in Entries /\ StoredInTime(q, cache[q])
    BY DEF TypeOK, ListsInv, EntriesAreOfTheirTime
  <2>2. cache[q].head \in Commits /\ cache[q].at \in Nat
    BY <2>1, ConstantsKnown DEF Entries
  <2> QED
    BY <1>1, <1>3, <2>1, <2>2 DEF StoredInTime, HeadSince
<1>9. ListIsOfItsTime'
  BY <1>1 DEF ListIsOfItsTime
<1> QED
  BY <1>6, <1>7, <1>8, <1>9 DEF ListsInv

\* Time passes over them, and so do pages.
LEMMA OtherStep ==
  ASSUME TypeOK, ListsInv, UNCHANGED <<head, cache, reader, left>>, served' = NoAnswer,
         now' = now \/ now' = now + 1, calls' \in 0..MaxCalls
  PROVE  ListsOK' /\ ListsInv'
<1>1. now \in Nat
  BY ConstantsKnown DEF TypeOK
<1>2. CallsAreOfTheirTime'
  <2> SUFFICES ASSUME NEW t \in Readers, reader[t] # NoCall
               PROVE  OfItsTime(reader[t])'
    BY DEF CallsAreOfTheirTime
  <2>1. OfItsTime(reader[t]) /\ reader[t].started \in Nat
    BY ConstantsKnown DEF ListsInv, CallsAreOfTheirTime, TypeOK, CallsMade
  <2> QED
    BY <1>1, <2>1 DEF OfItsTime, HeadSince
<1>3. EntriesAreOfTheirTime'
  <2> SUFFICES ASSUME NEW q \in Repos, cache[q] # NoEntry, ~cache[q].mixed
               PROVE  StoredInTime(q, cache[q])'
    BY DEF EntriesAreOfTheirTime
  <2>1. StoredInTime(q, cache[q]) /\ cache[q].at \in Nat
    BY ConstantsKnown DEF ListsInv, EntriesAreOfTheirTime, TypeOK, Entries
  <2> QED
    BY <1>1, <2>1 DEF StoredInTime, HeadSince
<1>4. ListIsOfItsTime'
  BY DEF ListIsOfItsTime
<1>5. ListsOK'
  BY DEF TypeOK, ListsOK
<1> QED
  BY <1>2, <1>3, <1>4, <1>5 DEF ListsInv

-----------------------------------------------------------------------------
(***************************************************************************)
(* get_commit_history_impl, page after page.                               *)
(***************************************************************************)

\* What the invariant says of the pages.
PagesInv == PagesFollowHead /\ PagesMissNothing

\* A host is not taken for none: its record has more fields.
LEMMA HostIsThere == \A h \in Hosts : h # NoHost
<1> SUFFICES ASSUME NEW h \in Hosts, h = NoHost PROVE FALSE
  OBVIOUS
<1>1. "repo" \in DOMAIN h
  BY DEF Hosts
<1>2. "repo" \notin DOMAIN NoHost
  BY DEF NoHost
<1> QED
  BY <1>1, <1>2

\* What every page does: it goes on from what was shown, along the walk of HEAD.
LEMMA TurnStep ==
  ASSUME TypeOK, NEW r \in Repos, NEW limit \in PageSizes, NEW offset \in Nat,
         NEW shown \in Seq(Commits), Turn(r, limit, offset, shown),
         first' \in AnyHead,
         kept' => /\ first' = head[r] /\ offset <= Len(WalkOf(first'))
                  /\ shown = SubSeq(WalkOf(first'), 1, offset),
         ahead' => /\ Of(first') \subseteq Of(head[r])
                   /\ \A i \in DOMAIN WalkOf(head[r]) :
                        i <= offset /\ WalkOf(head[r])[i] \in Of(first')
                          => \E j \in DOMAIN shown : shown[j] = WalkOf(head[r])[i]
  PROVE  PagesInv' /\ host' \in Hosts
<1> DEFINE walk == WalkOf(head[r])
           page == get_commit_history(head[r], limit, offset)
           all == shown \o page.commits
<1>1. /\ host' = [repo |-> r, limit |-> limit, offset |-> page.total, shown |-> all,
                  more |-> page.more]
      /\ head' = head
  BY DEF Turn
<1>2. head[r] \in AnyHead
  BY DEF TypeOK
<1>3. walk \in Seq(Commits) /\ Len(walk) \in Nat
  BY <1>2, WalkKnown
<1>4. /\ page.commits \in Seq(Commits) /\ page.total \in Nat /\ page.more \in BOOLEAN
      /\ page.total = (IF offset < Len(walk) THEN offset ELSE Len(walk)) + Len(page.commits)
      /\ page.total <= Len(walk)
      /\ \A i \in 1..Len(page.commits) : page.commits[i] = walk[offset + i]
      /\ page.more <=> page.total < Len(walk)
  BY <1>2, PageKnown
<1> DEFINE got == page.commits
           total == page.total
           more == page.more
<1> HIDE DEF walk, page
<1>5. /\ got \in Seq(Commits) /\ Len(got) \in Nat /\ total \in Nat /\ total <= Len(walk)
      /\ offset < Len(walk) => total = offset + Len(got)
      /\ ~(offset < Len(walk)) => total = Len(walk) + Len(got)
      /\ \A i \in 1..Len(got) : got[i] = walk[offset + i]
  BY <1>4
<1>6. more \in BOOLEAN /\ (more <=> total < Len(walk))
  BY <1>4
<1>7. all = shown \o got
  OBVIOUS
<1> HIDE DEF got, total, more
<1>8. /\ all \in Seq(Commits) /\ Len(all) = Len(shown) + Len(got)
      /\ \A i \in 1..(Len(shown) + Len(got)) :
           all[i] = IF i <= Len(shown) THEN shown[i] ELSE got[i - Len(shown)]
  BY <1>5, <1>7, ConcatProperties
<1>9. Len(shown) \in Nat /\ Len(got) \in Nat
  BY <1>5
<1> HIDE DEF all
<1>10. /\ host' \in Hosts /\ host'.repo = r /\ host'.offset = total /\ host'.shown = all
      /\ host'.more = more
  BY <1>1, <1>5, <1>6, <1>8 DEF Hosts, got, total, more
<1>11. ASSUME kept'
      PROVE  /\ head[r] = first' /\ total <= Len(walk)
             /\ all = SubSeq(walk, 1, total)
  <2>1. first' = head[r] /\ offset <= Len(walk) /\ shown = SubSeq(walk, 1, offset)
    BY <1>11 DEF walk
  <2>2. /\ Len(shown) = offset /\ \A i \in 1..offset : shown[i] = walk[i]
    <3>1. \A i \in 1..offset : walk[i] \in Commits
      BY <1>3, <2>1
    <3>2. /\ Len(SubSeq(walk, 1, offset)) = IF 1 <= offset THEN offset - 1 + 1 ELSE 0
          /\ \A i \in 1..(offset - 1 + 1) : SubSeq(walk, 1, offset)[i] = walk[1 + i - 1]
      BY <3>1, SubSeqProperties
    <3> QED
      BY <1>3, <2>1, <3>2
  <2>3. /\ SubSeq(walk, 1, total) \in Seq(Commits)
        /\ Len(SubSeq(walk, 1, total)) = total
        /\ \A i \in 1..total : SubSeq(walk, 1, total)[i] = walk[i]
    <3>1. \A i \in 1..total : walk[i] \in Commits
      BY <1>3, <1>5
    <3>2. /\ SubSeq(walk, 1, total) \in Seq(Commits)
          /\ Len(SubSeq(walk, 1, total)) = IF 1 <= total THEN total - 1 + 1 ELSE 0
          /\ \A i \in 1..(total - 1 + 1) : SubSeq(walk, 1, total)[i] = walk[1 + i - 1]
      BY <1>5, <3>1, SubSeqProperties
    <3> QED
      BY <1>5, <3>2
  <2>4. total = offset + Len(got) /\ Len(all) = total
    BY <1>3, <1>5, <1>8, <1>9, <2>1, <2>2
  <2>5. \A i \in 1..Len(all) : all[i] = SubSeq(walk, 1, total)[i]
    <3> SUFFICES ASSUME NEW i \in 1..total PROVE all[i] = walk[i]
      BY <2>3, <2>4
    <3>1. CASE i <= offset
      BY <1>8, <1>9, <2>2, <2>4, <3>1
    <3>2. CASE i > offset
      <4>1. i - offset \in 1..Len(got) /\ all[i] = got[i - offset]
        BY <1>8, <1>9, <2>2, <2>4, <3>2
      <4>2. got[i - offset] = walk[offset + (i - offset)]
        BY <1>5, <4>1
      <4> QED
        BY <4>1, <4>2
    <3> QED
      BY <3>1, <3>2
  <2> QED
    BY <1>5, <1>8, <2>1, <2>3, <2>4, <2>5, SeqEqual
<1>12. ASSUME ahead', NEW i \in DOMAIN walk, i <= total \/ ~more, walk[i] \in Of(first')
      PROVE  \E j \in DOMAIN all : all[j] = walk[i]
  <2>1. (i \in 1..Len(walk) /\ i <= total) \/ i <= offset
    BY <1>3, <1>5, <1>6, <1>12
  <2>2. CASE i <= offset
    <3>1. PICK j \in DOMAIN shown : shown[j] = walk[i]
      BY <1>12, <2>2 DEF walk
    <3>2. j \in 1..Len(all) /\ all[j] = shown[j]
      BY <1>8, <1>9
    <3> QED
      BY <1>8, <3>1, <3>2
  <2>3. CASE i > offset
    <3>1. i - offset \in 1..Len(got)
      BY <1>3, <1>5, <1>9, <2>1, <2>3
    <3>2. got[i - offset] = walk[offset + (i - offset)]
      BY <1>5, <3>1
    <3>3. Len(shown) + (i - offset) \in 1..Len(all)
          /\ all[Len(shown) + (i - offset)] = got[i - offset]
      BY <1>8, <1>9, <3>1
    <3>4. walk[offset + (i - offset)] = walk[i]
      BY <2>1
    <3> QED
      BY <1>8, <3>2, <3>3, <3>4
  <2> QED
    BY <1>3, <2>2, <2>3
<1>13. PagesFollowHead'
  BY <1>1, <1>10, <1>11, <1>12 DEF PagesFollowHead, walk
<1>14. PagesMissNothing'
  <2>1. kept' => /\ host'.shown = SubSeq(WalkOf(first'), 1, host'.offset)
                 /\ (host'.more <=> host'.offset < Len(WalkOf(first')))
    BY <1>6, <1>10, <1>11 DEF walk
  <2>2. ASSUME ahead', ~host'.more, NEW i \in DOMAIN WalkOf(first')
        PROVE  \E j \in DOMAIN host'.shown : host'.shown[j] = WalkOf(first')[i]
    <3>1. WalkOf(first')[i] \in Of(first') /\ Of(first') \subseteq Of(head[r])
      BY <2>2 DEF Of
    <3>2. PICK k \in DOMAIN walk : walk[k] = WalkOf(first')[i]
      BY <3>1 DEF Of, walk
    <3> QED
      BY <1>10, <1>12, <2>2, <3>1, <3>2
  <2> QED
    BY <2>1, <2>2 DEF PagesMissNothing
<1> QED
  BY <1>10, <1>13, <1>14 DEF PagesInv

\* The first page begins with HEAD as it is.
LEMMA FirstPageStep ==
  ASSUME TypeOK, NEW r \in Repos, NEW limit \in PageSizes, FirstPage(r, limit)
  PROVE  PagesInv' /\ BesideOK'
<1>1. /\ Turn(r, limit, 0, <<>>) /\ first' = head[r] /\ kept' = TRUE /\ ahead' = TRUE
  BY DEF FirstPage
<1>2. first' \in AnyHead
  BY <1>1 DEF TypeOK
<1>3. WalkOf(first') \in Seq(Commits)
  BY <1>2, WalkKnown
<1>4. 0 <= Len(WalkOf(first')) /\ <<>> = SubSeq(WalkOf(first'), 1, 0)
  BY <1>3, SubSeqEmpty
<1>5. \A i \in DOMAIN WalkOf(head[r]) : ~(i <= 0)
  BY <1>1, <1>3
<1>6. <<>> \in Seq(Commits)
  OBVIOUS
<1>7. PagesInv' /\ host' \in Hosts
  BY <1>1, <1>2, <1>4, <1>5, <1>6, TurnStep
<1>8. UNCHANGED <<head, now, left, moves>>
  BY <1>1 DEF Turn
<1> QED
  BY <1>1, <1>2, <1>7, <1>8 DEF TypeOK, BesideOK

\* Every other page goes on from where the last one ended.
LEMMA NextPageStep ==
  ASSUME TypeOK, PagesInv, NextPage
  PROVE  PagesInv' /\ BesideOK'
<1>1. /\ host.more /\ Turn(host.repo, host.limit, host.offset, host.shown)
      /\ UNCHANGED <<first, kept, ahead>>
  BY DEF NextPage
<1>2. host \in Hosts /\ host # NoHost
  BY <1>1, HostIsThere DEF TypeOK, NoHost
<1>3. /\ host.repo \in Repos /\ host.limit \in PageSizes /\ host.offset \in Nat
      /\ host.shown \in Seq(Commits)
  BY <1>2 DEF Hosts
<1>4. PagesInv' /\ host' \in Hosts
  BY <1>1, <1>2, <1>3, TurnStep DEF TypeOK, PagesInv, PagesFollowHead, PagesMissNothing
<1>5. UNCHANGED <<head, now, left, moves>>
  BY <1>1 DEF Turn
<1> QED
  BY <1>1, <1>4, <1>5 DEF TypeOK, BesideOK

\* HEAD that moves on to a descendant has more to walk before what was not shown
\* yet, never less.
LEMMA MovePagesStep ==
  ASSUME TypeOK, PagesInv, NEW r \in Repos, NEW c \in AnyHead, MoveHead(r, c)
  PROVE  PagesInv' /\ BesideOK'
<1> DEFINE mine == host # NoHost /\ host.repo = r
<1>1. /\ head' = [head EXCEPT ![r] = c] /\ UNCHANGED <<host, first, now>>
      /\ kept' = (kept /\ ~mine)
      /\ ahead' = (ahead /\ (mine => c # NoCommit /\ head[r] \in Ancestors(c) \union {NoCommit}))
      /\ left' = IF head[r] = NoCommit THEN left ELSE [left EXCEPT ![r][head[r]] = now]
      /\ moves < MaxMoves /\ moves' = moves + 1
  BY DEF MoveHead
<1>2. BesideOK'
  <2>1. left' \in [Repos -> [Commits -> 0..MaxTime \union {Never}]]
    <3>1. CASE head[r] = NoCommit
      BY <1>1, <3>1 DEF TypeOK
    <3>2. CASE head[r] # NoCommit
      <4>1. [left[r] EXCEPT ![head[r]] = now] \in [Commits -> 0..MaxTime \union {Never}]
        BY DEF TypeOK
      <4>2. left' = [left EXCEPT ![r] = [left[r] EXCEPT ![head[r]] = now]]
        BY <1>1, <3>2 DEF TypeOK
      <4> QED
        BY <4>1, <4>2 DEF TypeOK
    <3> QED
      BY <3>1, <3>2
  <2>2. head' \in [Repos -> AnyHead] /\ moves' \in 0..MaxMoves
    BY <1>1, ConstantsKnown DEF TypeOK
  <2>3. kept' \in BOOLEAN /\ ahead' \in BOOLEAN
    BY <1>1
  <2> QED
    BY <1>1, <2>1, <2>2, <2>3 DEF TypeOK, BesideOK
<1>3. (kept' => kept /\ ~mine) /\ (ahead' => ahead)
  BY <1>1 DEF TypeOK
<1>4. PagesMissNothing'
  BY <1>1, <1>3 DEF PagesInv, PagesMissNothing
<1>5. CASE ~mine
  <2>1. host # NoHost => head'[host.repo] = head[host.repo]
    <3> SUFFICES ASSUME host # NoHost PROVE head'[host.repo] = head[host.repo]
      OBVIOUS
    <3>1. host.repo \in Repos /\ host.repo # r
      BY <1>5 DEF TypeOK, Hosts
    <3> QED
      BY <1>1, <3>1 DEF TypeOK
  <2>2. PagesFollowHead'
    BY <1>1, <1>3, <2>1 DEF PagesInv, PagesFollowHead
  <2> QED
    BY <1>2, <1>4, <2>2 DEF PagesInv
<1>6. CASE mine
  <2>1. head[r] \in AnyHead /\ head'[r] = c
    BY <1>1 DEF TypeOK
  <2>2. ASSUME ahead'
        PROVE  /\ Of(first) \subseteq Of(c)
               /\ \A i \in DOMAIN WalkOf(c) :
                    i <= host.offset /\ WalkOf(c)[i] \in Of(first)
                      => \E j \in DOMAIN host.shown : host.shown[j] = WalkOf(c)[i]
    <3>1. c \in Commits /\ head[r] \in Ancestors(c) \union {NoCommit}
      BY <1>1, <1>6, <2>2 DEF AnyHead
    <3>2. /\ Of(first) \subseteq Of(head[r])
          /\ \A i \in DOMAIN WalkOf(head[r]) :
               i <= host.offset /\ WalkOf(head[r])[i] \in Of(first)
                 => \E j \in DOMAIN host.shown : host.shown[j] = WalkOf(head[r])[i]
      BY <1>3, <1>6, <2>2 DEF PagesInv, PagesFollowHead
    <3>3. WalkOf(c) = Walk[c] /\ Of(c) = Ancestors(c)
      BY <3>1, ConstantsKnown DEF WalkOf, Of, Ancestors
    <3>4. CASE head[r] = NoCommit
      <4>1. Of(head[r]) = {}
        BY <3>4 DEF WalkOf, Of
      <4> QED
        BY <3>2, <4>1
    <3>5. CASE head[r] # NoCommit
      <4> DEFINE d == head[r]
      <4>1. d \in Commits /\ d \in Ancestors(c)
        BY <2>1, <3>1, <3>5 DEF AnyHead
      <4>2. WalkOf(d) = Walk[d] /\ Of(d) = Ancestors(d)
        BY <3>5 DEF WalkOf, Of, Ancestors
      <4> HIDE DEF d
      <4>3. /\ Ancestors(d) \subseteq Ancestors(c)
            /\ \A i \in DOMAIN Walk[c] :
                 Walk[c][i] \in Ancestors(d)
                   => \E j \in 1..i \intersect DOMAIN Walk[d] : Walk[d][j] = Walk[c][i]
        BY <3>1, <4>1, HistoryAssumption
      <4>4. Of(first) \subseteq Of(d) /\ Of(first) \subseteq Of(c)
        BY <3>2, <3>3, <4>2, <4>3 DEF d
      <4>5. ASSUME NEW i \in DOMAIN WalkOf(c), i <= host.offset, WalkOf(c)[i] \in Of(first)
            PROVE  \E j \in DOMAIN host.shown : host.shown[j] = WalkOf(c)[i]
        <5>1. PICK k \in 1..i \intersect DOMAIN Walk[d] : Walk[d][k] = Walk[c][i]
          BY <3>3, <4>2, <4>3, <4>4, <4>5
        <5>2. i \in Nat /\ host.offset \in Nat
          <6>1. WalkOf(c) \in Seq(Commits)
            BY <3>3, WalkKnown
          <6>2. host.offset \in Nat
            BY <1>6 DEF TypeOK, Hosts
          <6> QED
            BY <6>1, <6>2
        <5>3. k <= host.offset
          BY <4>5, <5>1, <5>2
        <5>4. k \in DOMAIN WalkOf(d) /\ WalkOf(d)[k] = WalkOf(c)[i]
          BY <3>3, <4>2, <5>1
        <5> QED
          BY <3>2, <4>5, <5>3, <5>4 DEF d
      <4> QED
        BY <4>4, <4>5
    <3> QED
      BY <3>4, <3>5
  <2>3. PagesFollowHead'
    BY <1>1, <1>3, <1>6, <2>1, <2>2 DEF PagesFollowHead
  <2> QED
    BY <1>2, <1>4, <2>3 DEF PagesInv
<1> QED
  BY <1>5, <1>6

\* Neither the deleted files nor the clock move HEAD or turn a page.
LEMMA PagesUntouched ==
  ASSUME TypeOK, PagesInv, UNCHANGED <<head, left, pages, moves>>, now' \in 0..MaxTime
  PROVE  PagesInv' /\ BesideOK'
<1>1. UNCHANGED <<host, first, kept, ahead>>
  BY DEF pages
<1> QED
  BY <1>1 DEF TypeOK, BesideOK, PagesInv, PagesFollowHead, PagesMissNothing

-----------------------------------------------------------------------------
\* The invariant holds at first.
LEMMA InvariantInit == Init => IInv
<1> SUFFICES ASSUME Init PROVE IInv
  OBVIOUS
<1>1. TypeOK
  BY ConstantsKnown, NoneIsNone DEF Init, TypeOK, Never, AnyHead
<1>2. ListsInv
  BY DEF Init, ListsInv, CallsAreOfTheirTime, EntriesAreOfTheirTime, ListIsOfItsTime
<1>3. PagesInv
  BY DEF Init, PagesInv, PagesFollowHead, PagesMissNothing
<1> QED
  BY <1>1, <1>2, <1>3 DEF IInv, ListsInv, PagesInv

\* Every step keeps it.
LEMMA InvariantStep == IInv /\ [Next]_vars => IInv'
<1> SUFFICES ASSUME TypeOK, ListsInv, PagesInv, [Next]_vars
             PROVE  (BesideOK /\ ListsOK /\ ListsInv /\ PagesInv)'
  BY TypeParts DEF IInv, TypeOK, BesideOK, ListsOK, ListsInv, PagesInv
<1>1. now \in 0..MaxTime /\ calls \in 0..MaxCalls
  BY DEF TypeOK
<1>2. ASSUME NEW t \in Readers, NEW r \in Repos, NEW limit \in Limits, GetDeletedFiles(t, r, limit)
      PROVE  (BesideOK /\ ListsOK /\ ListsInv /\ PagesInv)'
  <2>1. UNCHANGED <<head, now, left, pages, moves>>
    BY <1>2 DEF GetDeletedFiles, Goto, Beside
  <2> QED
    BY <1>1, <1>2, <2>1, GetStep, PagesUntouched
<1>3. ASSUME NEW t \in Readers, UNCHANGED calls,
             Hit(t) \/ Miss(t) \/ BeginWalk(t) \/ NothingToWalk(t) \/ Scan(t) \/ Store(t)
      PROVE  (BesideOK /\ ListsOK /\ ListsInv /\ PagesInv)'
  <2>1. UNCHANGED <<head, now, left, pages, moves>>
    BY <1>3 DEF Hit, Miss, BeginWalk, NothingToWalk, Scan, Store, Goto, Answer, Beside
  <2>2. ListsOK' /\ ListsInv'
    BY <1>3, HitStep, WalkStep, NothingStep, ScanStep, StoreStep
  <2> QED
    BY <1>1, <2>1, <2>2, PagesUntouched
<1>4. ASSUME (\E r \in Repos, limit \in PageSizes : FirstPage(r, limit)) \/ NextPage
      PROVE  (BesideOK /\ ListsOK /\ ListsInv /\ PagesInv)'
  <2>1. /\ UNCHANGED <<head, cache, reader, now, left>> /\ served' = NoAnswer
        /\ calls' \in 0..MaxCalls
    <3>1. /\ UNCHANGED <<head, cache, reader, now, left>> /\ served' = NoAnswer
          /\ calls < MaxCalls /\ calls' = calls + 1
      BY <1>4 DEF FirstPage, NextPage, Turn, Called
    <3> QED
      BY <1>1, <3>1, ConstantsKnown
  <2>2. PagesInv' /\ BesideOK'
    BY <1>4, FirstPageStep, NextPageStep
  <2> QED
    BY <2>1, <2>2, OtherStep
<1>5. ASSUME NEW r \in Repos, NEW c \in AnyHead, MoveHead(r, c)
      PROVE  (BesideOK /\ ListsOK /\ ListsInv /\ PagesInv)'
  BY <1>5, MoveStep, MovePagesStep
<1>6. CASE Tick
  <2>1. /\ UNCHANGED <<head, cache, reader, left, pages, moves, calls>> /\ served' = NoAnswer
        /\ now' = now + 1 /\ now' \in 0..MaxTime
    BY <1>1, <1>6, ConstantsKnown DEF Tick
  <2> QED
    BY <1>1, <2>1, OtherStep, PagesUntouched
<1>7. CASE UNCHANGED vars
  <2>1. UNCHANGED <<head, cache, reader, served, now, left, pages, calls, moves>>
    BY <1>7 DEF vars, lists
  <2>2. ListsOK' /\ BesideOK' /\ PagesInv'
    BY <1>1, <2>1, PagesUntouched DEF TypeOK, ListsOK
  <2>3. CallsAreOfTheirTime' /\ EntriesAreOfTheirTime'
    BY <2>1, TimeStandsStill DEF ListsInv, CallsAreOfTheirTime, EntriesAreOfTheirTime
  <2>4. ListIsOfItsTime'
    BY <2>1 DEF ListsInv, ListIsOfItsTime, HeadAfter
  <2> QED
    BY <2>2, <2>3, <2>4 DEF ListsInv
<1> QED
  BY <1>2, <1>3, <1>4, <1>5, <1>6, <1>7 DEF Next

-----------------------------------------------------------------------------
\* The invariant holds throughout.
THEOREM HistoryInvariant == Spec => []IInv
BY InvariantInit, InvariantStep, PTL DEF Spec

\* TypeOK: the state is well typed, and a reader that is idle has no call.
THEOREM TypeCorrect == Spec => []TypeOK
<1>1. IInv => TypeOK
  BY DEF IInv
<1> QED
  BY <1>1, HistoryInvariant, PTL

\* ListIsOfItsTime: the deleted files that a call answers are those of a commit
\* that was HEAD of this very repository during the call or within TTL before.
THEOREM ListsAreOfTheirTime == Spec => []ListIsOfItsTime
<1>1. IInv => ListIsOfItsTime
  BY DEF IInv
<1> QED
  BY <1>1, HistoryInvariant, PTL

\* PagesMissNothing: a host that follows the pages has been shown every commit,
\* in order if HEAD stayed where it was, and with none missed if it moved on.
THEOREM PagesAreComplete == Spec => []PagesMissNothing
<1>1. IInv => PagesMissNothing
  BY DEF IInv
<1> QED
  BY <1>1, HistoryInvariant, PTL
===============================================================================
