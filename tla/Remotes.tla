------------------------------- MODULE Remotes -------------------------------
(***************************************************************************)
(* fetch, push, clone and the management of a remote of src/remote_ops.rs, *)
(* the credentials they give, and what src/errors.rs makes of their        *)
(* failures: a code, and whether the host is told to repeat the call.      *)
(*                                                                         *)
(* One call runs at a time (RepoLock). Beside it there are the servers,    *)
(* other people who push to them, and git in a terminal. The transport,    *)
(* and what libgit2 refuses to push, are external. What a clone does to    *)
(* its destination is CloneDestination.                                    *)
(***************************************************************************)
EXTENDS Naturals, FiniteSets

CONSTANTS
  Commits,
  Ancestors,       \* [Commits -> SUBSET Commits], each commit among its own
  Branches,
  Urls,
  Misspelt,        \* SUBSET Urls: those libgit2 cannot parse
  Doors,           \* the sets of credential types a server may ask for
  Chosen,          \* what a host may have cloned: branches, there or not, or Absent
  Absent,          \* no commit, no URL
  InitialRefs,     \* what the local branches may be at the start,
  Hosted,          \* and those of a server
  Credentials,     \* what a host may pass: subsets of {"key", "password"}
  MaxAttempts,     \* 8 in the code
  MaxOutside       \* bound: steps of anybody else

VARIABLES
  refs,      \* local branches
  tracking,  \* the remote-tracking branches of the one remote
  remote,    \* its url and pushurl in the configuration
  server,    \* at each URL: its branches, whether it answers, whom it lets in
  busy,      \* another git holds the lock of a reference
  phase, call, result, outside,
  landed     \* history: while the push ran, the server had its commit

local == <<refs, tracking, remote>>
world == <<server, busy, outside>>
vars == <<refs, tracking, remote, server, busy, phase, call, result, outside, landed>>

ASSUME RemotesAssumption ==
  /\ Ancestors \in [Commits -> SUBSET Commits]
  /\ \A c \in Commits : c \in Ancestors[c]
  /\ Absent \notin Commits \union Urls
  /\ Misspelt \subseteq Urls
  /\ MaxAttempts \in Nat \ {0}
  /\ MaxOutside \in Nat
  /\ InitialRefs \union Hosted \subseteq [Branches -> Commits \union {Absent}]

OptionalCommit == Commits \union {Absent}
Refs == [Branches -> OptionalCommit]
Welcomes == {"anyone", "holders", "nobody"}
NoRefs == [b \in Branches |-> Absent]

\* The ref that is pushed, or the branch a clone is to check out; what the
\* server advertised; attempts; the credential types asked for; what the server
\* said of the pushed ref; received_objects.
NoCall == [kind |-> "none", url |-> Absent, branch |-> Absent, creds |-> {}, attempts |-> 0,
           asked |-> {}, advertised |-> NoRefs, new |-> Absent, rejection |-> FALSE,
           received |-> FALSE]

Nothing == [code |-> "NONE", retriable |-> FALSE, updated |-> {}]
Ok == [code |-> "OK", retriable |-> FALSE, updated |-> {}]

-----------------------------------------------------------------------------
(***************************************************************************)
(* errors.rs. A failure of libgit2 has a class, a code and a message.      *)
(***************************************************************************)
Failure(class, code, message) == [class |-> class, code |-> code, message |-> message]

IsTransport(f) == f.class \in {"Net", "Http"}
IsUnparseableUrl(f) == f.message \in {"unsupported URL protocol", "invalid argument: 'port'"}

\* Mutant of classify_git_failure: the arms grouped by class, transport first.
classify_by_class(f) ==
  IF IsUnparseableUrl(f) THEN "INVALID_ARGUMENT"
  ELSE IF IsTransport(f) /\ (f.code = "NotFound" \/ f.message = "404") THEN "REMOTE_NOT_FOUND"
  ELSE IF IsTransport(f) THEN "REMOTE_UNREACHABLE"
  ELSE IF f.code = "Auth" THEN "AUTHENTICATION_FAILED"
  ELSE IF f.class = "Repository" /\ f.code = "NotFound" THEN "REPOSITORY_NOT_FOUND"
  ELSE "GIT_OPERATION_FAILURE"

\* The order of the arms matters.
classify_git_failure(f) ==
  IF f.code = "Auth" THEN "AUTHENTICATION_FAILED"
  ELSE IF f.class = "Repository" /\ f.code = "NotFound" THEN "REPOSITORY_NOT_FOUND"
  ELSE IF IsUnparseableUrl(f) THEN "INVALID_ARGUMENT"
  ELSE IF IsTransport(f) /\ (f.code = "NotFound" \/ f.message = "404") THEN "REMOTE_NOT_FOUND"
  ELSE IF IsTransport(f) THEN "REMOTE_UNREACHABLE"
  ELSE "GIT_OPERATION_FAILURE"

git_failure_is_retriable(f) ==
  LET code == classify_git_failure(f) IN
  \/ code = "REMOTE_UNREACHABLE"
  \/ /\ code = "GIT_OPERATION_FAILURE"
     /\ f.code = "Locked" \/ f.class \in {"Os", "Filesystem"}

\* is_retryable and error_code of a GitOperationFailure.
OperationFailed(f) ==
  [code |-> classify_git_failure(f), retriable |-> git_failure_is_retriable(f), updated |-> {}]

\* is_retryable and error_code of a CloneFailed.
CloneFailed(f, removed) ==
  [code |-> IF call.received /\ IsTransport(f) THEN "CLONE_INCOMPLETE"
            ELSE classify_git_failure(f),
   retriable |-> removed /\ git_failure_is_retriable(f), updated |-> {}]

Refused(code) == [code |-> code, retriable |-> FALSE, updated |-> {}]

-----------------------------------------------------------------------------
Init ==
  /\ refs \in InitialRefs
  /\ tracking = NoRefs
  /\ remote \in [url : Urls, push : {Absent}]
  /\ server \in [Urls -> [refs : Hosted, state : {"up"}, welcome : {"holders"}]]
  /\ busy = FALSE
  /\ phase = "idle" /\ call = NoCall /\ result = Nothing
  /\ outside = 0 /\ landed = FALSE

\* A host repeats a call whose failure is retriable, and surfaces any other
\* (README.md:615).
Return(r) ==
  /\ result' = r
  /\ IF r.retriable
     THEN phase' = "retry" /\ UNCHANGED call
     ELSE phase' = "idle" /\ call' = NoCall

Fail(f) ==
  /\ phase # "idle"
  /\ IF call.kind = "clone"
     THEN \E removed \in BOOLEAN : Return(CloneFailed(f, removed))
     ELSE Return(OperationFailed(f))
  /\ landed' = FALSE
  /\ UNCHANGED <<local, world>>

Refuse(code) ==
  /\ Return(Refused(code))
  /\ landed' = FALSE
  /\ UNCHANGED <<local, world>>

Begin(start) ==
  /\ phase' = "start"
  /\ call' = start
  /\ result' = Nothing
  /\ UNCHANGED <<local, world, landed>>

\* The step to another phase of the call that runs.
Proceed(to, with) ==
  /\ phase' = to
  /\ call' = with
  /\ UNCHANGED <<local, world, result, landed>>

(***************************************************************************)
(* A call of the host, and what it looks at before it uses the network.    *)
(***************************************************************************)
FetchCall(creds) ==
  phase = "idle" /\ Begin([NoCall EXCEPT !.kind = "fetch", !.creds = creds])
PushCall(b, creds) ==
  phase = "idle" /\ Begin([NoCall EXCEPT !.kind = "push", !.branch = b, !.creds = creds])
CloneCall(url, b, creds) ==
  phase = "idle" /\ Begin([NoCall EXCEPT !.kind = "clone", !.url = url, !.branch = b, !.creds = creds])

Retry ==
  /\ phase = "retry"
  /\ Begin([NoCall EXCEPT !.kind = call.kind, !.branch = call.branch, !.creds = call.creds,
                          !.url = IF call.kind = "clone" THEN call.url ELSE Absent])

StartRefused ==
  /\ phase = "start"
  /\ \/ call.kind = "push" /\ refs[call.branch] = Absent /\ Refuse("BRANCH_NOT_FOUND")
     \/ call.kind # "clone" /\ remote.url = Absent /\ Refuse("GIT_OPERATION_FAILURE")
     \/ call.kind = "clone" /\ Refuse("DESTINATION_NOT_EMPTY")

Start ==
  /\ phase = "start"
  /\ call.kind = "push" => refs[call.branch] # Absent
  /\ call.kind # "clone" => remote.url # Absent
  /\ LET url == IF call.kind = "clone" THEN call.url
                ELSE IF call.kind = "push" /\ remote.push # Absent THEN remote.push
                ELSE remote.url
     IN Proceed("connect", [call EXCEPT !.url = url])

(***************************************************************************)
(* Connecting. External but for credential_callback.                       *)
(***************************************************************************)
There == server[call.url]
Unreachable == Failure("Net", "Generic", "")

CannotParse ==
  /\ phase = "connect"
  /\ call.url \in Misspelt
  /\ \/ Fail(Failure("Net", "Generic", "unsupported URL protocol"))
     \/ Fail(Failure("Invalid", "Generic", "invalid argument: 'port'"))

\* The connection is lost at any point until the call has what it needs.
Disconnected ==
  /\ phase \in {"connect", "credentials", "judge", "talk", "transfer", "send", "report"}
  /\ call.url \notin Misspelt
  /\ There.state \in (IF phase = "connect" THEN {"down"} ELSE {"down", "missing"})
  /\ Fail(Unreachable)

RemoteMissing ==
  /\ phase = "connect"
  /\ call.url \notin Misspelt
  /\ There.state = "missing"
  /\ \/ Fail(Failure("Http", "Generic", "404"))
     \/ Fail(Failure("Net", "NotFound", ""))

Types == {"ssh_key", "username", "user_pass"}
Reached == call.url \notin Misspelt /\ There.state = "up"

NoCredentialsAsked ==
  phase = "connect" /\ Reached /\ There.welcome = "anyone" /\ Proceed("talk", call)

CredentialsAsked ==
  /\ phase = "connect" /\ Reached /\ There.welcome # "anyone"
  /\ \E types \in Doors : Proceed("credentials", [call EXCEPT !.asked = types])

\* A key or the agent, a name, a password or token, or what git's credential
\* helper knows; the helper may know nothing.
credential_callback ==
  LET counted == [call EXCEPT !.attempts = @ + 1]
      offered == call.asked \intersect Types
  IN
  /\ phase = "credentials"
  /\ \/ /\ counted.attempts > MaxAttempts \/ offered = {}
        /\ Fail(Failure("Callback", "Auth", ""))
     \/ /\ counted.attempts <= MaxAttempts /\ offered = {"user_pass"}
        /\ "password" \notin call.creds
        /\ Fail(Failure("None", "Generic", ""))
     \/ counted.attempts <= MaxAttempts /\ offered # {} /\ Proceed("judge", counted)

\* The server asks for the key after the name, lets in, or asks again; or the
\* transport gives up, because there is no agent or it has asked often enough.
Judge ==
  /\ phase = "judge" /\ Reached
  /\ \/ call.asked = {"username"} /\ Proceed("credentials", [call EXCEPT !.asked = {"ssh_key"}])
     \/ call.asked # {"username"} /\ There.welcome # "nobody" /\ Proceed("talk", call)
     \/ call.asked # {"username"} /\ There.welcome = "nobody" /\ Proceed("credentials", call)
     \/ "ssh_key" \in call.asked /\ "key" \notin call.creds /\ Fail(Failure("Ssh", "Generic", ""))
     \/ "user_pass" \in call.asked /\ There.welcome = "nobody" /\ Fail(Failure("Http", "Auth", ""))

Advertise ==
  /\ phase = "talk" /\ Reached
  /\ Proceed(IF call.kind = "push" THEN "negotiate" ELSE "transfer",
             [call EXCEPT !.advertised = There.refs])

(***************************************************************************)
(* fetch and clone.                                                        *)
(***************************************************************************)
Download ==
  /\ phase = "transfer" /\ Reached
  /\ \E b \in Branches : call.advertised[b] # Absent
  /\ ~call.received
  /\ Proceed("transfer", [call EXCEPT !.received = TRUE])

Transferred ==
  /\ phase = "transfer"
  /\ (\E b \in Branches : call.advertised[b] # Absent) => call.received
  /\ Proceed("land", call)

Advertised == {b \in Branches : call.advertised[b] # Absent}

\* Every advertised branch is reported, whether its tracking branch moved or not.
FetchLands ==
  /\ phase = "land" /\ call.kind = "fetch" /\ ~busy
  /\ tracking' = [b \in Branches |-> IF b \in Advertised THEN call.advertised[b] ELSE tracking[b]]
  /\ Return([code |-> "OK", retriable |-> FALSE, updated |-> Advertised])
  /\ UNCHANGED <<refs, remote, world, landed>>

FetchBlocked ==
  phase = "land" /\ call.kind = "fetch" /\ busy /\ Fail(Failure("Reference", "Locked", ""))

\* options.branch may name one that is not there.
CloneLands ==
  /\ phase = "land" /\ call.kind = "clone"
  /\ \/ /\ call.branch # Absent /\ call.branch \notin Advertised
        /\ Fail(Failure("Reference", "NotFound", ""))
     \/ /\ call.branch = Absent \/ call.branch \in Advertised
        /\ Return(Ok)
        /\ UNCHANGED <<local, world, landed>>

(***************************************************************************)
(* push. The refspec has no "+".                                           *)
(***************************************************************************)
OldTip == call.advertised[call.branch]

\* Mutant of Negotiate: the refspec forces.
NegotiateByForce ==
  /\ phase = "negotiate" /\ refs[call.branch] # Absent
  /\ LET new == refs[call.branch] IN
       /\ phase' = IF OldTip = new THEN "report" ELSE "send"
       /\ call' = [call EXCEPT !.new = new]
       /\ landed' = (OldTip = new)
  /\ UNCHANGED <<local, world, result>>

\* libgit2 compares with what was advertised; the branch is where it is now.
NegotiateRefuses ==
  /\ phase = "negotiate"
  /\ \/ refs[call.branch] = Absent /\ Fail(Failure("Reference", "NotFound", ""))
     \/ /\ refs[call.branch] # Absent /\ OldTip # Absent
        /\ OldTip \notin Ancestors[refs[call.branch]]
        /\ Fail(Failure("Reference", "NotFastForward", ""))

Negotiate ==
  /\ phase = "negotiate" /\ refs[call.branch] # Absent
  /\ OldTip # Absent => OldTip \in Ancestors[refs[call.branch]]
  /\ LET new == refs[call.branch] IN
       /\ phase' = IF OldTip = new THEN "report" ELSE "send"
       /\ call' = [call EXCEPT !.new = new]
       /\ landed' = (OldTip = new)
  /\ UNCHANGED <<local, world, result>>

\* The server takes the update if its branch is as advertised, unless it has
\* other reasons not to (a hook, a protected branch).
ServerUpdates ==
  /\ phase = "send" /\ Reached
  /\ \/ /\ There.refs[call.branch] = OldTip
        /\ server' = [server EXCEPT ![call.url].refs[call.branch] = call.new]
        /\ landed' = TRUE /\ UNCHANGED call
     \/ /\ call' = [call EXCEPT !.rejection = TRUE]
        /\ UNCHANGED <<server, landed>>
  /\ phase' = "report"
  /\ UNCHANGED <<local, busy, result, outside>>

\* libgit2 moves the tracking branch of what the server took.
PushTracking ==
  IF ~call.rejection THEN [tracking EXCEPT ![call.branch] = call.new] ELSE tracking

\* Mutant of PushReturns: push_update_reference is not listened to.
PushReturnsAnyway ==
  /\ phase = "report" /\ Reached
  /\ tracking' = PushTracking
  /\ Return(Ok)
  /\ landed' = FALSE
  /\ UNCHANGED <<refs, remote, world>>

PushReturns ==
  /\ phase = "report" /\ Reached
  /\ tracking' = PushTracking
  /\ Return(IF call.rejection THEN Refused("GIT_OPERATION_FAILURE")
            ELSE Ok)
  /\ landed' = FALSE
  /\ UNCHANGED <<refs, remote, world>>

(***************************************************************************)
(* The remote's configuration. libgit2 checks and writes it in one go.     *)
(***************************************************************************)
Done(r) == result' = r /\ UNCHANGED <<refs, world, phase, call, landed>>
AddRemote(url) ==
  /\ phase = "idle"
  /\ IF remote.url = Absent
     THEN remote' = [remote EXCEPT !.url = url] /\ Done(Ok)
     ELSE UNCHANGED remote /\ Done(Refused("GIT_OPERATION_FAILURE"))
  /\ UNCHANGED tracking

SetRemoteUrl(url) ==
  /\ phase = "idle"
  /\ IF remote.url # Absent
     THEN remote' = [remote EXCEPT !.url = url] /\ Done(Ok)
     ELSE UNCHANGED remote /\ Done(Refused("GIT_OPERATION_FAILURE"))
  /\ UNCHANGED tracking

\* Mutant of RemoveRemote: only the configuration is removed.
RemoveRemoteOnly ==
  /\ phase = "idle" /\ remote.url # Absent
  /\ remote' = [url |-> Absent, push |-> Absent]
  /\ UNCHANGED tracking
  /\ Done(Ok)

\* Its tracking branches go with it.
RemoveRemote ==
  /\ phase = "idle"
  /\ IF remote.url # Absent
     THEN /\ remote' = [url |-> Absent, push |-> Absent]
          /\ tracking' = NoRefs
          /\ Done(Ok)
     ELSE UNCHANGED <<remote, tracking>> /\ Done(Refused("GIT_OPERATION_FAILURE"))

-----------------------------------------------------------------------------
(***************************************************************************)
(* Everybody else.                                                         *)
(***************************************************************************)
Outside ==
  /\ outside < MaxOutside
  /\ outside' = outside + 1
  /\ UNCHANGED <<phase, call, result, landed>>

\* A server breaks down, moves away or comes back, and changes its mind on the
\* credentials.
ServerChanges(u) ==
  /\ Outside /\ u \notin Misspelt
  /\ \/ \E s \in {"up", "down", "missing"} \ {server[u].state} : server' = [server EXCEPT ![u].state = s]
     \/ \E w \in Welcomes \ {server[u].welcome} : server' = [server EXCEPT ![u].welcome = w]
  /\ UNCHANGED <<local, busy>>

OthersPush(u, b, c) ==
  /\ Outside /\ u \notin Misspelt
  /\ server[u].refs[b] # c
  /\ server' = [server EXCEPT ![u].refs[b] = c]
  /\ UNCHANGED <<local, busy>>

TerminalCommits(b, c) ==
  /\ Outside
  /\ refs[b] # c
  /\ refs' = [refs EXCEPT ![b] = c]
  /\ UNCHANGED <<tracking, remote, server, busy>>

TerminalLocks ==
  Outside /\ busy' = ~busy /\ UNCHANGED <<local, server>>

TerminalConfigures(u) ==
  /\ Outside
  /\ remote.url # Absent /\ remote.push # u
  /\ remote' = [remote EXCEPT !.push = u]
  /\ UNCHANGED <<refs, tracking, server, busy>>

HostCalls ==
  \/ \E creds \in Credentials :
       \/ FetchCall(creds)
       \/ \E b \in Branches : PushCall(b, creds)
       \/ \E u \in Urls : \E b \in Chosen : CloneCall(u, b, creds)
  \/ \E u \in Urls : AddRemote(u) \/ SetRemoteUrl(u)
  \/ RemoveRemote

CallSteps ==
  \/ StartRefused \/ Start \/ CannotParse \/ Disconnected \/ RemoteMissing
  \/ NoCredentialsAsked \/ CredentialsAsked \/ credential_callback \/ Judge
  \/ Advertise \/ Download \/ Transferred \/ FetchLands \/ FetchBlocked \/ CloneLands
  \/ NegotiateRefuses \/ Negotiate \/ ServerUpdates \/ PushReturns

Others ==
  \/ \E u \in Urls :
       ServerChanges(u) \/ TerminalConfigures(u)
       \/ \E b \in Branches : \E c \in OptionalCommit : OthersPush(u, b, c)
  \/ \E b \in Branches : \E c \in OptionalCommit : TerminalCommits(b, c)
  \/ TerminalLocks

Next == HostCalls \/ CallSteps \/ Retry \/ Others

Spec == Init /\ [][Next]_vars

\* A call runs, a server that is up answers, and a host does repeat what it is
\* told to. Nobody else has to do anything.
FairSpec == Spec /\ WF_vars(CallSteps) /\ WF_vars(Retry)

-----------------------------------------------------------------------------
CallPhases == {"start", "connect", "credentials", "judge", "talk", "transfer", "land",
               "negotiate", "send", "report"}
Codes == {"NONE", "OK", "AUTHENTICATION_FAILED", "REPOSITORY_NOT_FOUND", "INVALID_ARGUMENT",
          "REMOTE_NOT_FOUND", "REMOTE_UNREACHABLE", "GIT_OPERATION_FAILURE", "CLONE_INCOMPLETE",
          "BRANCH_NOT_FOUND", "DESTINATION_NOT_EMPTY"}

Arguments == [kind : {"none", "fetch", "push", "clone"}, url : Urls \union {Absent},
              branch : Branches \union Chosen \union {Absent}, creds : Credentials \union {{}},
              attempts : 0 .. MaxAttempts, asked : Doors \union {{}, {"ssh_key"}},
              advertised : Refs, new : OptionalCommit, rejection : BOOLEAN, received : BOOLEAN]
Results == [code : Codes, retriable : BOOLEAN, updated : SUBSET Branches]
Servers == [refs : Refs, state : {"up", "down", "missing"}, welcome : Welcomes]

LocalOK ==
  /\ refs \in Refs /\ tracking \in Refs
  /\ remote \in [url : Urls \union {Absent}, push : Urls \union {Absent}]
  /\ remote.url = Absent => tracking = NoRefs /\ remote.push = Absent

WorldOK ==
  /\ server \in [Urls -> Servers]
  /\ busy \in BOOLEAN /\ outside \in 0 .. MaxOutside

CallOK ==
  /\ phase \in CallPhases \union {"idle", "retry"}
  /\ call \in Arguments /\ result \in Results /\ landed \in BOOLEAN
  /\ phase = "idle" <=> call = NoCall
  /\ phase = "retry" <=> result.retriable
  /\ landed => phase = "report" /\ call.kind = "push" /\ ~call.rejection

\* The state's types; the attempts are those of the call that runs, and no
\* state of a call outlives it but what a retry needs.
TypeOK == LocalOK /\ WorldOK /\ CallOK

(***************************************************************************)
(* What holds between the steps of a call, and makes the properties below  *)
(* hold: an inductive invariant.                                           *)
(***************************************************************************)
\* A call is where only a call of its kind comes, and has a URL once it started.
PhaseHasItsCall ==
  /\ phase # "idle" => call.kind # "none"
  /\ phase \in CallPhases \ {"start"} \/ call.kind = "clone" => call.url \in Urls
  /\ call.kind = "push" => call.branch \in Branches /\ phase \notin {"transfer", "land"}
  /\ phase \in {"negotiate", "send", "report"} => call.kind = "push"

\* The remote of a fetch or a push stays configured while the call runs.
RemoteIsThere ==
  phase \in CallPhases \ {"start"} /\ call.kind # "clone" => remote.url # Absent

\* The update on its way to the server follows what the server advertised.
UpdateIsForward ==
  phase = "send" => /\ call.new \in Commits
                    /\ OldTip # Absent => OldTip \in Ancestors[call.new]

\* Once the server has spoken, the call knows what became of the update.
OutcomeIsKnown ==
  /\ phase = "report" => (landed <=> ~call.rejection)
  /\ call.rejection => phase \in {"report", "retry"}

IInv == TypeOK /\ PhaseHasItsCall /\ RemoteIsThere /\ UpdateIsForward /\ OutcomeIsKnown

Ends == phase \in CallPhases /\ phase' \in {"idle", "retry"}

\* remote_ops.rs:334 "without it a non-fast-forward rejection looks like
\* success": a push is reported as done only if the server has had the commit
\* on that branch while the call ran, and as refused only if it has not been
\* put there; what the connection's loss leaves open is retriable.
PushIsAsReported ==
  [][Ends /\ call.kind = "push"
     => /\ result'.code = "OK" => landed
        /\ landed => result'.code = "OK" \/ result'.retriable]_vars

\* No push takes a commit off a server's branch, whoever pushed it and when:
\* not between the advertisement and the update, and not on a retry of a push
\* whose answer was lost.
ServerLosesNothing ==
  [][outside' = outside
     => \A u \in Urls : \A b \in Branches :
          LET old == server[u].refs[b] new == server'[u].refs[b] IN
          old # Absent => new # Absent /\ old \in Ancestors[new]]_vars

\* docs/specs/2026-09-15-clone-design.md:140 "a host with a retry loop spins on
\* a typo": a host that repeats what it is told to repeat comes to an end,
\* whatever credentials are refused, names misspelt, branches missing and
\* connections lost on the way, if from some time on the servers can be reached
\* and no other git holds a reference's lock.
RetryLoopEnds ==
  <>[](~busy /\ \A u \in Urls : server[u].state # "down") => []<>(phase = "idle")
=============================================================================
